---------------------------- MODULE TaskStates ----------------------------
(***************************************************************************)
(* The vocabulary of the tasks table that every other module shares: the   *)
(* values of tasks.status with the weights the store orders them by, and   *)
(* the projection of grading verdicts onto the task's columns.             *)
(***************************************************************************)
EXTENDS Naturals

(* A task_id whose row has not been inserted yet. *)
Absent == "ABSENT"

Statuses == {"PENDING", "PROCESSING", "COMPLETED", "FAILED", "CANCELLED"}

(* The CASE of update_task_status: only a heavier status replaces a row's. *)
Weight(s) ==
  CASE s = "PENDING"    -> 0
    [] s = "PROCESSING" -> 1
    [] s = "COMPLETED"  -> 2
    [] s = "FAILED"     -> 3
    [] s = "CANCELLED"  -> 4

(* Mutant: a failed task may be processed again, as a replay would like.   *)
OutranksOrReopens(new, old) ==
  \/ old \in Statuses /\ Weight(old) < Weight(new)
  \/ old = "FAILED" /\ new = "PROCESSING"

Outranks(new, old) == old \in Statuses /\ Weight(old) < Weight(new)

Live  == {"PENDING", "PROCESSING"}
Final == {"FAILED", "CANCELLED"}

(* What the engines can say of one submission: a score, a score that a     *)
(* person must look at, or a rejection (unreadable or blank paper).        *)
Verdicts == {"scored", "needs_review", "rejected"}

(* grading_status and review_status of a task whose reports carry these    *)
(* verdicts.                                                               *)
GradingOf(verdicts) ==
  IF "rejected" \in verdicts THEN "REJECTED_UNREADABLE" ELSE "SCORED"

(* Mutant: one plainly scored report is enough.                            *)
ReviewOfAny(verdicts) ==
  IF "scored" \in verdicts THEN "NOT_REQUIRED" ELSE "PENDING_REVIEW"

ReviewOf(verdicts) ==
  IF verdicts \subseteq {"scored"} THEN "NOT_REQUIRED" ELSE "PENDING_REVIEW"
=============================================================================
