---------------------------- MODULE TaskStatus ----------------------------
(***************************************************************************)
(* What the task store promises its readers about tasks.status, whoever    *)
(* writes to it and in whatever order: a task is created PENDING once, and *)
(* its status only ever gains weight.                                      *)
(***************************************************************************)
EXTENDS TaskStates

CONSTANT Tasks

VARIABLE status

Init == status = [t \in Tasks |-> Absent]

Create(t) ==
  /\ status[t] = Absent
  /\ status' = [status EXCEPT ![t] = "PENDING"]

Advance(t, s) ==
  /\ Outranks(s, status[t])
  /\ status' = [status EXCEPT ![t] = s]

Next == \E t \in Tasks : Create(t) \/ \E s \in Statuses : Advance(t, s)

Spec == Init /\ [][Next]_status

TypeOK == status \in [Tasks -> Statuses \cup {Absent}]
=============================================================================
