-------------------------- MODULE MCTaskLifecycle --------------------------
(***************************************************************************)
(* Instances of TaskLifecycle for TLC, and the statements of the           *)
(* repository's comments and documents that the code does not keep.        *)
(***************************************************************************)
EXTENDS TaskLifecycle, TLC

WorkerSymmetry == Permutations(Workers)

(* worker/main.py, grade_homework_task: "Max 2 retries on transient        *)
(* failures", "Permanent failure marked as FAILED in DB".  An attempt that *)
(* reaches the end of its try body leaves its task COMPLETED, unless a     *)
(* teacher cancelled it or a sweeper gave it up.                           *)
RetriedSuccessIsRecorded ==
  [][\A r \in Runners :
       run[r].pc = "commit" /\ run[r].pc' = "publish" =>
         \/ task'[run[r].task].status \in {"COMPLETED", "CANCELLED"}
         \/ task'[run[r].task].fallback # "null"]_vars

(* api/routers/grade.py, cancel_task: "Cancel a PENDING or PROCESSING      *)
(* task."  A task whose results are out is not cancelled any more.         *)
CancelOnlyLive ==
  [][\A t \in Tasks :
       task[t].status = "COMPLETED" =>
         task'[t].status # "CANCELLED"]_vars
=============================================================================
