----------------------------- MODULE GradedTask -----------------------------
(***************************************************************************)
(* What the readers of a task may rely on, whoever works on it: the SSE    *)
(* stream and GET /results read its status and grading status, the review  *)
(* desk its results and uploads, the hygiene page the log.  A task is      *)
(* shown as completed only with what completing it promises, nothing but   *)
(* a failure or a cancellation takes that back, and only then may the      *)
(* uploads go, or once they have been kept for their time.                 *)
(***************************************************************************)
EXTENDS TaskStates

CONSTANTS
  Tasks,
  Pages     \* the items of each task

VARIABLES
  status,   \* tasks.status
  shown,    \* what a COMPLETED row says of the grading
  results,  \* the items that have a result
  logged,   \* is the task in the hygiene log?
  uploads,  \* are its files there?
  old       \* have they been kept for their time?

gradedVars == <<status, shown, results, logged, uploads, old>>

(* A rejection is read off the reports, or off a paper nobody could read.  *)
Gradings == {"graded", "rejected", "unread"}
Nothing  == "nothing"

Init ==
  /\ status = [t \in Tasks |-> Absent]
  /\ shown = [t \in Tasks |-> Nothing]
  /\ results = [t \in Tasks |-> {}]
  /\ logged = [t \in Tasks |-> FALSE]
  /\ uploads = [t \in Tasks |-> FALSE]
  /\ old = [t \in Tasks |-> FALSE]

Create(t) ==
  /\ status[t] = Absent
  /\ status' = [status EXCEPT ![t] = "PENDING"]
  /\ uploads' = [uploads EXCEPT ![t] = TRUE]
  /\ UNCHANGED <<shown, results, logged, old>>

StoreResult(t, i) ==
  /\ status[t] # Absent
  /\ results' = [results EXCEPT ![t] = @ \cup {i}]
  /\ logged' \in {logged, [logged EXCEPT ![t] = TRUE]}
  /\ UNCHANGED <<status, shown, uploads, old>>

Log(t) ==
  /\ status[t] # Absent
  /\ logged' = [logged EXCEPT ![t] = TRUE]
  /\ UNCHANGED <<status, shown, results, uploads, old>>

Earned(t, g) ==
  /\ uploads[t] \/ old[t]
  /\ g # "unread" => results[t] = Pages[t]
  /\ g # "graded" => logged[t]

Complete(t, g) ==
  /\ Outranks("COMPLETED", status[t])
  /\ Earned(t, g)
  /\ status' = [status EXCEPT ![t] = "COMPLETED"]
  /\ shown' = [shown EXCEPT ![t] = g]
  /\ UNCHANGED <<results, logged, uploads, old>>

(* It is taken up, fails or is cancelled.                                  *)
Advance(t, s) ==
  /\ s # "COMPLETED"
  /\ Outranks(s, status[t])
  /\ status' = [status EXCEPT ![t] = s]
  /\ shown' = [shown EXCEPT ![t] = Nothing]
  /\ UNCHANGED <<results, logged, uploads, old>>

Age(t) ==
  /\ status[t] # Absent
  /\ old' = [old EXCEPT ![t] = TRUE]
  /\ UNCHANGED <<status, shown, results, logged, uploads>>

Discard(t) ==
  /\ status[t] \in Final \/ old[t]
  /\ uploads' = [uploads EXCEPT ![t] = FALSE]
  /\ UNCHANGED <<status, shown, results, logged, old>>

Next ==
  \E t \in Tasks :
    \/ Create(t) \/ Log(t) \/ Age(t) \/ Discard(t)
    \/ \E i \in Pages[t] : StoreResult(t, i)
    \/ \E g \in Gradings : Complete(t, g)
    \/ \E s \in Statuses : Advance(t, s)

Spec == Init /\ [][Next]_gradedVars
=============================================================================
