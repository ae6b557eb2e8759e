----------------------------- MODULE ReviewDesk -----------------------------
(***************************************************************************)
(* The review desk on one task: its attempts insert result rows and set    *)
(* the review status; the teacher's queue of pending tasks is put together *)
(* by separate reads of the tasks, the decisions and the rows, and the     *)
(* teacher sends decisions and the review status back.  The workbench of   *)
(* one task reads and writes nothing, and no later request refers to what  *)
(* it showed.  Overlapping attempts are TaskLifecycle's subject; here they *)
(* follow each other.                                                      *)
(***************************************************************************)
EXTENDS TaskStates, Sequences, FiniteSets

CONSTANTS
  Students,    \* ids that submissions may carry
  Rosters,     \* the sets of them a task may be about
  TaskId,      \* the sample id of the task as a whole
  Outcomes,    \* what the engines say of a paper
  MaxAttempts  \* bound: attempts at the task

ASSUME DeskAssumption ==
  /\ TaskId \notin Students /\ Rosters \subseteq SUBSET Students
  /\ Outcomes \subseteq Verdicts /\ MaxAttempts \in Nat

VARIABLES
  roster,     \* the submissions of the task, fixed when it is made
  task,       \* columns of the task row the desk reads
  results,    \* grading_results of the task, in the order of their ids
  attempt,    \* the running attempt and what it has inserted
  decisions,  \* samples with a row in teacher_review_decisions
  page,       \* the queue as the teacher has it
  checked,    \* an annotation has passed its check and is not stored yet
  settledBy,  \* history: the attempt that recorded COMPLETED, 0 if none
  marked      \* history: a teacher has set the review status

deskVars == <<roster, task, results, attempt, decisions, page, checked, settledBy, marked>>

Samples == Students \cup {TaskId}

ReviewTypeOK ==
  /\ roster \in Rosters
  /\ task \in [status : Statuses \ {"CANCELLED"},
               grading : {"NONE", "SCORED", "REJECTED_UNREADABLE"},
               review : {"NOT_REQUIRED", "PENDING_REVIEW", "REVIEWED"},
               short : BOOLEAN]
  /\ results \in Seq([sample : Samples, verdict : Verdicts, by : 1..MaxAttempts])
  /\ attempt \in [pc : {"over", "grading", "rejecting"}, n : 0..MaxAttempts,
                  inserted : SUBSET Students]
  /\ decisions \subseteq Samples
  /\ page \in [pc : {"closed", "pool", "counts", "queue"},
               short : BOOLEAN, targets : 0..Len(results) + 1]
  /\ checked \in BOOLEAN
  /\ settledBy \in 0..MaxAttempts
  /\ marked \in BOOLEAN

NoPage == [pc |-> "closed", short |-> FALSE, targets |-> 0]

DeskInit ==
  /\ roster \in Rosters
  /\ task = [status |-> "PENDING", grading |-> "NONE", review |-> "NOT_REQUIRED",
             short |-> FALSE]
  /\ results = <<>>
  /\ attempt = [pc |-> "over", n |-> 0, inserted |-> {}]
  /\ decisions = {}
  /\ page = NoPage
  /\ checked = FALSE
  /\ settledBy = 0
  /\ marked = FALSE
-----------------------------------------------------------------------------
(* The worker.  Mutant: the update has lost its weights.                   *)
RecordUnguarded(new, was) == new

(* update_task_status: the new row, or the old one if it weighs as much.   *)
RecordStatus(new, was) == IF Outranks(new.status, was.status) THEN new ELSE was

BeginAttempt ==
  /\ attempt.pc = "over" /\ attempt.n < MaxAttempts
  /\ attempt' = [pc |-> "grading", n |-> attempt.n + 1, inserted |-> {}]
  /\ task' = RecordStatus([task EXCEPT !.status = "PROCESSING"], task)
  /\ UNCHANGED <<roster, results, decisions, page, checked, settledBy, marked>>

Row(sample, verdict) == [sample |-> sample, verdict |-> verdict, by |-> attempt.n]

(* A paper is graded and stored; the rows of earlier attempts stay.        *)
InsertResult(s, verdict) ==
  /\ attempt.pc = "grading" /\ s \in roster \ attempt.inserted
  /\ results' = Append(results, Row(s, verdict))
  /\ attempt' = [attempt EXCEPT !.inserted = @ \cup {s}]
  /\ UNCHANGED <<roster, task, decisions, page, checked, settledBy, marked>>

(* The only page of a submission is unreadable: a placeholder row under    *)
(* the student's id, or the task's when none was given, or no row at all   *)
(* if its insert fails.                                                    *)
ShortCircuited ==
  /\ attempt.pc = "grading" /\ Cardinality(roster) = 1 /\ attempt.inserted = {}
  /\ \/ \E s \in roster \cup {TaskId} : results' = Append(results, Row(s, "rejected"))
     \/ results' = results
  /\ attempt' = [attempt EXCEPT !.pc = "rejecting"]
  /\ UNCHANGED <<roster, task, decisions, page, checked, settledBy, marked>>

SettleTask(new) ==
  /\ task' = RecordStatus(new, task)
  /\ settledBy' = IF Outranks("COMPLETED", task.status) THEN attempt.n ELSE settledBy
  /\ attempt' = [attempt EXCEPT !.pc = "over"]
  /\ UNCHANGED <<roster, results, decisions, page, checked, marked>>

OwnVerdicts == {results[i].verdict : i \in {j \in DOMAIN results : results[j].by = attempt.n}}

CommitTask ==
  /\ attempt.pc = "grading" /\ attempt.inserted = roster
  /\ SettleTask([task EXCEPT !.status = "COMPLETED", !.grading = GradingOf(OwnVerdicts),
                             !.review = ReviewOf(OwnVerdicts)])

CommitRejection ==
  /\ attempt.pc = "rejecting"
  /\ SettleTask([status |-> "COMPLETED", grading |-> "REJECTED_UNREADABLE",
                 review |-> "PENDING_REVIEW", short |-> TRUE])

(* The exception handlers write FAILED and leave review_status alone.      *)
AttemptFails ==
  /\ attempt.pc # "over"
  /\ attempt' = [attempt EXCEPT !.pc = "over"]
  /\ task' = RecordStatus([task EXCEPT !.status = "FAILED"], task)
  /\ UNCHANGED <<roster, results, decisions, page, checked, settledBy, marked>>
-----------------------------------------------------------------------------
(* compute_review_priority, for a row of the task.  The two buckets that   *)
(* confidence and evidence decide are taken with the general one.          *)
Rank(verdict, short) ==
  IF verdict = "rejected" \/ short THEN 1 ELSE IF verdict = "needs_review" THEN 2 ELSE 5

(* The item of the pending queue: review_target_count, 1 for a task that   *)
(* has no rows.                                                            *)
ReviewTargets(short) ==
  IF results = <<>> THEN 1
  ELSE Cardinality({i \in DOMAIN results : Rank(results[i].verdict, short) < 5})

Stays == UNCHANGED <<roster, task, results, attempt, decisions, checked, settledBy, marked>>
Resting == page.pc \in {"closed", "queue"}

(* GET /review/pending-workbench: the tasks in the pool, the decision      *)
(* counts, which are only shown, then the results of each task; a query    *)
(* each.                                                                   *)
ReadPool ==
  /\ Resting /\ task.review = "PENDING_REVIEW"
  /\ page' = [NoPage EXCEPT !.pc = "pool", !.short = task.short]
  /\ Stays

ReadCounts ==
  /\ page.pc = "pool"
  /\ page' = [page EXCEPT !.pc = "counts"]
  /\ Stays

ReadQueue ==
  /\ page.pc = "counts"
  /\ page' = [page EXCEPT !.pc = "queue", !.targets = ReviewTargets(page.short)]
  /\ Stays

UpsertDecision(sample) == decisions' = decisions \cup {sample}

(* POST /review/decisions, an upsert: whether the task has such a sample   *)
(* is not looked at.                                                       *)
Decide(sample) ==
  /\ UpsertDecision(sample)
  /\ UNCHANGED <<roster, task, results, attempt, page, checked, settledBy, marked>>

(* set_task_review_status: no weights here.                                *)
SetReviewStatus(review) == task' = [task EXCEPT !.review = review]

(* POST /review/tasks/{task_id}/status: neither the task's status nor its  *)
(* decisions are looked at.                                                *)
MarkReviewed(review) ==
  /\ SetReviewStatus(review)
  /\ marked' = TRUE
  /\ UNCHANGED <<roster, results, attempt, decisions, page, checked, settledBy>>

(* POST /annotations/feedback: a scored task, checked, then the upsert of  *)
(* the golden asset in a transaction of its own.                           *)
CheckScored ==
  /\ ~checked /\ task.grading = "SCORED"
  /\ checked' = TRUE
  /\ UNCHANGED <<roster, task, results, attempt, decisions, page, settledBy, marked>>

StoreAsset ==
  /\ checked
  /\ checked' = FALSE
  /\ UNCHANGED <<roster, task, results, attempt, decisions, page, settledBy, marked>>

WorkerWrites ==
  \/ BeginAttempt
  \/ \E s \in Students, v \in Outcomes : InsertResult(s, v)
  \/ ShortCircuited \/ CommitTask \/ CommitRejection \/ AttemptFails

TeacherActs ==
  \/ ReadPool \/ ReadCounts \/ ReadQueue
  \/ \E s \in Samples : Decide(s)
  \/ \E r \in {"PENDING_REVIEW", "REVIEWED"} : MarkReviewed(r)
  \/ CheckScored \/ StoreAsset

DeskNext == WorkerWrites \/ TeacherActs
DeskSpec == DeskInit /\ [][DeskNext]_deskVars
-----------------------------------------------------------------------------
(* Once a task has completed, the review status on its row is the          *)
(* teacher's: no late or repeated attempt puts a reviewed task back in the *)
(* pool or takes one out of it.  And an annotation let in because its task *)
(* was scored is stored about a task that still is.                        *)
TeacherWorkStands ==
  [][/\ settledBy # 0 /\ attempt' # attempt => task'.review = task.review
     /\ checked /\ ~checked' => task.grading = "SCORED"]_deskVars

(* The pool and the workbench judge a task alike: a task the queue shows   *)
(* has something to review, though its rows are read two queries after it, *)
(* and a completed task left out of the pool has no row of its completing  *)
(* attempt the workbench would mark for a person.  (A teacher may put any  *)
(* task into the pool.)                                                    *)
PoolIsRight ==
  /\ page.pc = "queue" /\ ~marked => page.targets > 0
  /\ task.status = "COMPLETED" =>
       /\ task.review = "PENDING_REVIEW" /\ ~marked => ReviewTargets(task.short) > 0
       /\ task.review = "NOT_REQUIRED" =>
            \A i \in DOMAIN results :
              results[i].by = settledBy => Rank(results[i].verdict, task.short) > 2
=============================================================================
