--------------------------- MODULE TaskLifecycle ---------------------------
(***************************************************************************)
(* The life of a grading task from the HTTP submission to its last status: *)
(* the API handlers (submit, cancel), the Celery broker, the worker        *)
(* attempts of grade_homework_task with their retries, time limits and     *)
(* crashes, the local fallback, the two sweepers and the dead letter       *)
(* queue.  Every await or transaction at which another process may act is  *)
(* a step of its own.                                                      *)
(*                                                                         *)
(* A runner executes attempts: a worker process w, or the background task  *)
(* that the submission of t leaves in the API process when the broker is   *)
(* unreachable, which is named by the task t itself.                       *)
(***************************************************************************)
EXTENDS TaskStates, FiniteSets

CONSTANTS
  Tasks,        \* task ids
  Workers,      \* Celery worker processes
  BatchTasks,   \* the tasks submitted in mode batch_single_page
  BatchSize,    \* files of a batch
  CheckEvery,   \* a batch looks for a cancellation every CheckEvery items
  MaxRetries,   \* max_retries of grade_homework_task
  MaxFaults,    \* bound: crashes of a worker or of the API process, and
                \* messages the broker takes without confirming them
  MaxCancels,   \* bound: cancel requests
  MaxReplays,   \* bound: operator replays from the dead letter queue
  MaxAged,      \* bound: tasks whose uploads grow older than they are kept
  Outcomes      \* the verdicts the engines reach

ASSUME LifecycleAssumption ==
  /\ BatchTasks \subseteq Tasks
  /\ Tasks \cap Workers = {}
  /\ BatchSize \in Nat \ {0}
  /\ CheckEvery \in Nat \ {0}
  /\ MaxRetries \in Nat
  /\ MaxFaults \in Nat
  /\ MaxCancels \in Nat
  /\ MaxReplays \in Nat
  /\ MaxAged \in Nat
  /\ Outcomes \subseteq Verdicts

VARIABLES
  task,      \* tasks table: one row per task id
  rows,      \* grading_results of a task: for each item, how many rows of
             \* each verdict
  hygiene,   \* does hygiene_interception_log hold a record of the task?
  files,     \* does the upload directory of the task exist?
  aged,      \* is it older than the time uploads are kept?
  queue,     \* broker messages of a task, counted by their retries header
  revoked,   \* task ids in the workers' revoked set
  dlq,       \* entries of a task in grading_tasks_dlq
  api,       \* where the submit handler of a task is
  cancel,    \* where the cancel handler of a task is
  replay,    \* where a DLQ replay of a task is
  run,       \* the attempt each runner executes
  faults,    \* crashes and unconfirmed messages so far
  cancels,   \* cancel requests so far
  replays    \* replays so far

store  == <<task, rows, hygiene, files, aged>>
broker == <<queue, revoked, dlq>>
calls  == <<api, cancel, replay>>
counts == <<faults, cancels, replays>>
vars   == <<store, broker, calls, run, counts>>

Runners == Workers \cup Tasks
Nobody  == "no task"
Items(t) == IF t \in BatchTasks THEN 1..BatchSize ELSE {1}

Columns ==
  [status    : Statuses \cup {Absent},
   celeryId  : {"null", "celery", "local"},
   grading   : {"null", "SCORED", "REJECTED_UNREADABLE"},
   review    : {"NOT_REQUIRED", "PENDING_REVIEW"},
   fallback  : {"null", "QUEUE_STALE_ORPHAN", "WORKER_TIMEOUT",
                "PERCEPTION_SHORT_CIRCUIT", "TEACHER_CANCELLED"}]

NoRow == [status |-> Absent, celeryId |-> "null", grading |-> "null",
          review |-> "NOT_REQUIRED", fallback |-> "null"]

(* Where an attempt is: in the try body, in an except block, or done with  *)
(* the message still to be acknowledged.                                   *)
BodyPcs    == {"precheck", "mark", "fetch", "grade", "check", "hygiene",
               "commit", "publish"}
HandlerPcs == {"reject_log", "reject_save", "reject_commit", "timeout", "fail",
               "retry", "cleanup", "deadletter"}
RunPcs     == {"idle", "ack"} \cup BodyPcs \cup HandlerPcs

Attempts == [pc : RunPcs, task : Tasks \cup {Nobody}, retries : 0..MaxRetries,
             done : SUBSET (1..BatchSize), verdicts : SUBSET Verdicts]

Idle == [pc |-> "idle", task |-> Nobody, retries |-> 0,
         done |-> {}, verdicts |-> {}]

Attempt(t, n) == [Idle EXCEPT !.pc = "precheck", !.task = t, !.retries = n]

Counters == [Tasks -> [1..BatchSize -> [Verdicts -> Nat]]]
Queues   == [Tasks -> [0..MaxRetries -> Nat]]

TypeOK ==
  /\ task \in [Tasks -> Columns]
  /\ rows \in Counters
  /\ hygiene \in [Tasks -> BOOLEAN]
  /\ files \in [Tasks -> BOOLEAN]
  /\ aged \in [Tasks -> BOOLEAN]
  /\ queue \in Queues
  /\ revoked \subseteq Tasks
  /\ dlq \in [Tasks -> Nat]
  /\ api \in [Tasks -> {"none", "created", "queued", "deferred", "done", "dead"}]
  /\ cancel \in [Tasks -> {"none", "revoke", "remove", "commit", "publish"}]
  /\ replay \in [Tasks -> {"none", "remove"}]
  /\ run \in [Runners -> Attempts]
  /\ faults \in 0..MaxFaults
  /\ cancels \in 0..MaxCancels
  /\ replays \in 0..MaxReplays

Init ==
  /\ task = [t \in Tasks |-> NoRow]
  /\ rows = [t \in Tasks |-> [i \in 1..BatchSize |-> [v \in Verdicts |-> 0]]]
  /\ hygiene = [t \in Tasks |-> FALSE]
  /\ files = [t \in Tasks |-> FALSE]
  /\ aged = [t \in Tasks |-> FALSE]
  /\ queue = [t \in Tasks |-> [n \in 0..MaxRetries |-> 0]]
  /\ revoked = {}
  /\ dlq = [t \in Tasks |-> 0]
  /\ api = [t \in Tasks |-> "none"]
  /\ cancel = [t \in Tasks |-> "none"]
  /\ replay = [t \in Tasks |-> "none"]
  /\ run = [r \in Runners |-> Idle]
  /\ faults = 0
  /\ cancels = 0
  /\ replays = 0
-----------------------------------------------------------------------------
(***************************************************************************)
(* The task store.                                                         *)
(***************************************************************************)

(* Mutant: the UPDATE without its weight condition.                        *)
UpdateTaskStatusUnguarded(t, new) == task' = [task EXCEPT ![t] = new]

(* update_task_status: the whole UPDATE applies, or nothing does and the   *)
(* caller is not told.                                                     *)
UpdateTaskStatus(t, new) ==
  task' = IF Outranks(new.status, task[t].status)
          THEN [task EXCEPT ![t] = new]
          ELSE task

Failed(t)    == [task[t] EXCEPT !.status = "FAILED"]
Completed(t, verdicts) ==
  [task[t] EXCEPT !.status = "COMPLETED", !.grading = GradingOf(verdicts),
                  !.review = ReviewOf(verdicts)]
Rejected(t)  == [Completed(t, {"rejected"}) EXCEPT
                   !.fallback = "PERCEPTION_SHORT_CIRCUIT"]
Cancelled(t) == [task[t] EXCEPT !.status = "CANCELLED",
                                !.fallback = "TEACHER_CANCELLED"]

StoreResult(t, i, v) == rows' = [rows EXCEPT ![t][i][v] = @ + 1]

(* Mutant: only a rejection of the first page is recorded.                 *)
LogIfRejectedFirstOnly(t, i, v) ==
  hygiene' = [hygiene EXCEPT ![t] = @ \/ (v = "rejected" /\ i = 1)]

LogIfRejected(t, i, v) ==
  hygiene' = [hygiene EXCEPT ![t] = @ \/ v = "rejected"]

(***************************************************************************)
(* The broker: a message carries the task id and its retries header.       *)
(***************************************************************************)
Enqueue(t, n) == queue' = [queue EXCEPT ![t][n] = @ + 1]

Dequeue(t, n) ==
  /\ queue[t][n] > 0
  /\ queue' = [queue EXCEPT ![t][n] = @ - 1]

(***************************************************************************)
(* POST /grade/submit, /grade/submit-batch: files, row, dispatch, id.      *)
(***************************************************************************)
Submit(t) ==
  /\ api[t] = "none"
  /\ files' = [files EXCEPT ![t] = TRUE]
  /\ task' = [task EXCEPT ![t] = [NoRow EXCEPT !.status = "PENDING"]]
  /\ api' = [api EXCEPT ![t] = "created"]
  /\ UNCHANGED <<rows, hygiene, aged, broker, cancel, replay, run, counts>>

(* The rubric of the form does not exist: 404, and the row stays.          *)
RubricMissing(t) ==
  /\ api[t] = "created"
  /\ api' = [api EXCEPT ![t] = "done"]
  /\ UNCHANGED <<store, broker, cancel, replay, run, counts>>

DispatchToBroker(t) ==
  /\ api[t] = "created"
  /\ Enqueue(t, 0)
  /\ api' = [api EXCEPT ![t] = "queued"]
  /\ UNCHANGED <<store, revoked, dlq, cancel, replay, run, counts>>

(* Redis does not answer, or not in time to confirm a message it has       *)
(* taken: the attempt becomes a background task, which starts when the     *)
(* response has been sent.                                                 *)
DispatchLocally(t) ==
  /\ api[t] = "created"
  /\ api' = [api EXCEPT ![t] = "deferred"]
  /\ \/ UNCHANGED <<queue, faults>>
     \/ /\ faults < MaxFaults
        /\ faults' = faults + 1
        /\ Enqueue(t, 0)
  /\ UNCHANGED <<store, revoked, dlq, cancel, replay, run, cancels, replays>>

RecordCeleryId(t) ==
  /\ \/ /\ api[t] = "queued"
        /\ task' = [task EXCEPT ![t].celeryId = "celery"]
        /\ UNCHANGED run
     \/ /\ api[t] = "deferred"
        /\ task' = [task EXCEPT ![t].celeryId = "local"]
        /\ run' = [run EXCEPT ![t] = Attempt(t, 0)]
  /\ api' = [api EXCEPT ![t] = "done"]
  /\ UNCHANGED <<rows, hygiene, files, aged, broker, cancel, replay, counts>>

(* The API process dies: its handlers stop where they are, and the         *)
(* background tasks it was running are lost.                               *)
ApiCrash ==
  /\ faults < MaxFaults
  /\ faults' = faults + 1
  /\ api' = [t \in Tasks |->
               IF api[t] \in {"none", "done"} THEN api[t] ELSE "dead"]
  /\ cancel' = [t \in Tasks |-> "none"]
  /\ run' = [r \in Runners |-> IF r \in Tasks THEN Idle ELSE run[r]]
  /\ UNCHANGED <<store, broker, replay, cancels, replays>>
-----------------------------------------------------------------------------
(***************************************************************************)
(* The broker.  A message stays with its runner until it is acknowledged   *)
(* (task_acks_late), and one whose worker dies goes back to the queue      *)
(* (task_reject_on_worker_lost).                                           *)
(***************************************************************************)
Deliver(w, t, n) ==
  /\ run[w].pc = "idle"
  /\ Dequeue(t, n)
  /\ run' = [run EXCEPT ![w] = Attempt(t, n)]
  /\ UNCHANGED <<store, revoked, dlq, calls, counts>>

(* A worker that knows the id is revoked drops the message.                *)
DiscardRevoked(t, n) ==
  /\ t \in revoked
  /\ Dequeue(t, n)
  /\ UNCHANGED <<store, revoked, dlq, calls, run, counts>>

WorkerCrash(w) ==
  /\ run[w].pc # "idle"
  /\ faults < MaxFaults
  /\ faults' = faults + 1
  /\ Enqueue(run[w].task, run[w].retries)
  /\ run' = [run EXCEPT ![w] = Idle]
  /\ UNCHANGED <<store, revoked, dlq, calls, cancels, replays>>

(* The hard time limit kills the attempt and acknowledges its message.     *)
HardTimeLimit(w) ==
  /\ run[w].pc \notin {"idle", "precheck", "mark", "ack"}
  /\ run' = [run EXCEPT ![w] = Idle]
  /\ UNCHANGED <<store, broker, calls, counts>>

Ack(r) ==
  /\ run[r].pc = "ack"
  /\ run' = [run EXCEPT ![r] = Idle]
  /\ UNCHANGED <<store, broker, calls, counts>>
-----------------------------------------------------------------------------
(***************************************************************************)
(* grade_homework_task: the try body.                                      *)
(***************************************************************************)
Goto(r, pc) == run' = [run EXCEPT ![r].pc = pc]

(* Local attempts share one event loop; while another attempt runs on it,  *)
(* the pre-check raises RuntimeError and is skipped.                       *)
LoopBusy(r) == r \in Tasks /\ \E q \in Tasks \ {r} : run[q].pc # "idle"

(* Mutant: a cancelled task is not noticed.                                *)
PreCheckSkipped(r) ==
  /\ run[r].pc = "precheck"
  /\ Goto(r, "mark")
  /\ UNCHANGED <<store, broker, calls, counts>>

PreCheck(r) ==
  /\ run[r].pc = "precheck"
  /\ \/ /\ task[run[r].task].status = "CANCELLED"
        /\ Goto(r, "ack")
     \/ /\ task[run[r].task].status # "CANCELLED" \/ LoopBusy(r)
        /\ Goto(r, "mark")
  /\ UNCHANGED <<store, broker, calls, counts>>

MarkProcessing(r) ==
  LET t == run[r].task IN
  /\ run[r].pc = "mark"
  /\ UpdateTaskStatus(t, [task[t] EXCEPT !.status = "PROCESSING"])
  /\ Goto(r, "fetch")
  /\ UNCHANGED <<rows, hygiene, files, aged, queue, revoked, dlq, calls, counts>>

(* retrieve_files raises when the upload directory is gone.                *)
FetchFiles(r) ==
  /\ run[r].pc = "fetch"
  /\ Goto(r, IF files[run[r].task] THEN "grade" ELSE "fail")
  /\ UNCHANGED <<store, broker, calls, counts>>

GradeSingle(r, v) ==
  LET t == run[r].task IN
  /\ run[r].pc = "grade"
  /\ t \notin BatchTasks
  /\ StoreResult(t, 1, v)
  /\ run' = [run EXCEPT ![r].done = {1}, ![r].verdicts = {v},
               ![r].pc = IF v = "rejected" THEN "hygiene" ELSE "commit"]
  /\ UNCHANGED <<task, hygiene, files, aged, broker, calls, counts>>

LogRejection(r) ==
  /\ run[r].pc = "hygiene"
  /\ hygiene' = [hygiene EXCEPT ![run[r].task] = TRUE]
  /\ Goto(r, "commit")
  /\ UNCHANGED <<task, rows, files, aged, broker, calls, counts>>

(* as_completed over the batch: whichever item is ready next is stored,    *)
(* then the loop goes on.  Every CheckEvery items it first looks for a     *)
(* cancellation; a failing read counts as none.  The status it saw may be  *)
(* stale by the time the next item arrives.                                *)
GradeItem(r, i, v) ==
  LET t    == run[r].task
      done == run[r].done \cup {i}
  IN
  /\ run[r].pc = "grade"
  /\ t \in BatchTasks
  /\ i \in Items(t) \ run[r].done
  /\ StoreResult(t, i, v)
  /\ LogIfRejected(t, i, v)
  /\ run' = [run EXCEPT ![r].done = done, ![r].verdicts = @ \cup {v},
               ![r].pc = CASE done = Items(t) -> "commit"
                           [] done # Items(t) /\ Cardinality(done) % CheckEvery = 0
                                -> "check"
                           [] OTHER -> "grade"]
  /\ UNCHANGED <<task, files, aged, queue, revoked, dlq, calls, counts>>

CheckCancelled(r) ==
  /\ run[r].pc = "check"
  /\ \/ task[run[r].task].status = "CANCELLED" /\ Goto(r, "commit")
     \/ Goto(r, "grade")
  /\ UNCHANGED <<store, broker, calls, counts>>

Commit(r) ==
  /\ run[r].pc = "commit"
  /\ UpdateTaskStatus(run[r].task, Completed(run[r].task, run[r].verdicts))
  /\ Goto(r, "publish")
  /\ UNCHANGED <<rows, hygiene, files, aged, broker, calls, counts>>

(* The event is best effort, but the attempt is still inside its try body. *)
Publish(r) ==
  /\ run[r].pc = "publish"
  /\ Goto(r, "ack")
  /\ UNCHANGED <<store, broker, calls, counts>>
-----------------------------------------------------------------------------
(***************************************************************************)
(* grade_homework_task: the except blocks.                                 *)
(***************************************************************************)

(* Mutant: the hygiene record of a short circuit is forgotten.             *)
ShortCircuitUnlogged(r) ==
  /\ run[r].pc = "grade"
  /\ run[r].task \notin BatchTasks
  /\ Goto(r, "reject_save")
  /\ UNCHANGED <<store, broker, calls, counts>>

(* PerceptionShortCircuitError of a single submission, or of a page of a   *)
(* batch that the workflow grades without snapshots.                       *)
ShortCircuit(r) ==
  /\ run[r].pc = "grade"
  /\ Goto(r, "reject_log")
  /\ UNCHANGED <<store, broker, calls, counts>>

RejectLog(r) ==
  /\ run[r].pc = "reject_log"
  /\ hygiene' = [hygiene EXCEPT ![run[r].task] = TRUE]
  /\ Goto(r, "reject_save")
  /\ UNCHANGED <<task, rows, files, aged, broker, calls, counts>>

(* The placeholder result is best effort.  A batch's is filed under the    *)
(* task's own id and belongs to none of its items.                         *)
RejectSave(r) ==
  /\ run[r].pc = "reject_save"
  /\ \/ run[r].task \notin BatchTasks /\ StoreResult(run[r].task, 1, "rejected")
     \/ UNCHANGED rows
  /\ Goto(r, "reject_commit")
  /\ UNCHANGED <<task, hygiene, files, aged, broker, calls, counts>>

RejectCommit(r) ==
  /\ run[r].pc = "reject_commit"
  /\ UpdateTaskStatus(run[r].task, Rejected(run[r].task))
  /\ Goto(r, "ack")
  /\ UNCHANGED <<rows, hygiene, files, aged, broker, calls, counts>>

(* Any other exception in the try body: a provider call, a storage or a    *)
(* database error.                                                         *)
StepRaises(r) ==
  /\ run[r].pc \in BodyPcs \ {"publish"}
  /\ Goto(r, "fail")
  /\ UNCHANGED <<store, broker, calls, counts>>

(* Mutant: the timeout handler deletes the files before it records FAILED. *)
SoftTimeLimitCleansFirst(w) ==
  /\ run[w].pc \in BodyPcs \ {"precheck", "mark"}
  /\ files' = [files EXCEPT ![run[w].task] = FALSE]
  /\ Goto(w, "timeout")
  /\ UNCHANGED <<task, rows, hygiene, aged, broker, calls, counts>>

(* SoftTimeLimitExceeded; attempts run locally have no time limit.         *)
SoftTimeLimit(w) ==
  /\ run[w].pc \in BodyPcs \ {"precheck", "mark"}
  /\ Goto(w, "timeout")
  /\ UNCHANGED <<store, broker, calls, counts>>

(* Mutant: one attempt too many.                                           *)
RetriesLeftOffByOne(r) == run[r].retries <= MaxRetries

RetriesLeft(r) == run[r].retries < MaxRetries

(* Both handlers record FAILED; only the last attempt and a timed-out one  *)
(* clean up and go to the dead letter queue.                               *)
MarkFailed(r) ==
  LET t == run[r].task IN
  /\ run[r].pc \in {"fail", "timeout"}
  /\ UpdateTaskStatus(t, Failed(t))
  /\ Goto(r, IF run[r].pc = "fail" /\ RetriesLeft(r)
             THEN "retry" ELSE "cleanup")
  /\ UNCHANGED <<rows, hygiene, files, aged, queue, revoked, dlq, calls, counts>>

(* Mutant: the retry is published with the retries of its own request.     *)
NextRetryNotCounted(r) == run[r].retries

NextRetry(r) == run[r].retries + 1

(* self.retry: a new message, or for a local attempt a nested call.        *)
ScheduleRetry(r) ==
  LET t == run[r].task
      n == NextRetry(r)
  IN
  /\ run[r].pc = "retry"
  /\ \/ /\ r \in Workers
        /\ Enqueue(t, n)
        /\ Goto(r, "ack")
     \/ /\ r \in Tasks
        /\ run' = [run EXCEPT ![r] = Attempt(t, n)]
        /\ UNCHANGED queue
  /\ UNCHANGED <<store, revoked, dlq, calls, counts>>

(* Mutant: the clean-up removes the whole upload directory.                *)
CleanUpAllFiles(r) ==
  /\ run[r].pc = "cleanup"
  /\ files' = [t \in Tasks |-> FALSE]
  /\ Goto(r, "deadletter")
  /\ UNCHANGED <<task, rows, hygiene, aged, broker, calls, counts>>

(* cleanup_task logs its own failures and goes on.                         *)
CleanUpFiles(r) ==
  /\ run[r].pc = "cleanup"
  /\ files' \in {files, [files EXCEPT ![run[r].task] = FALSE]}
  /\ Goto(r, "deadletter")
  /\ UNCHANGED <<task, rows, hygiene, aged, broker, calls, counts>>

(* route_to_dlq is best effort too.                                        *)
RouteToDlq(r) ==
  /\ run[r].pc = "deadletter"
  /\ dlq' \in {dlq, [dlq EXCEPT ![run[r].task] = @ + 1]}
  /\ Goto(r, "ack")
  /\ UNCHANGED <<store, queue, revoked, calls, counts>>

(* An error inside an except block leaves the task function: the message   *)
(* is acknowledged and nothing else of the block runs.                     *)
HandlerRaises(r) ==
  /\ run[r].pc \in {"reject_log", "reject_commit", "timeout", "fail", "retry"}
  /\ Goto(r, "ack")
  /\ UNCHANGED <<store, broker, calls, counts>>
-----------------------------------------------------------------------------
(***************************************************************************)
(* POST /grade/{task_id}/cancel.                                           *)
(***************************************************************************)
CancelRead(t) ==
  /\ cancel[t] = "none"
  /\ task[t].status \in Live
  /\ cancels < MaxCancels
  /\ cancels' = cancels + 1
  /\ cancel' = [cancel EXCEPT ![t] = "revoke"]
  /\ UNCHANGED <<store, broker, api, replay, run, faults, replays>>

(* The broadcast may fail; otherwise the id is revoked and the workers     *)
(* that run it may be terminated.                                          *)
CancelRevoke(t) ==
  /\ cancel[t] = "revoke"
  /\ cancel' = [cancel EXCEPT ![t] = "remove"]
  /\ \/ UNCHANGED <<revoked, run>>
     \/ \E killed \in SUBSET {w \in Workers : run[w].task = t} :
          /\ revoked' = revoked \cup {t}
          /\ run' = [r \in Runners |-> IF r \in killed THEN Idle ELSE run[r]]
  /\ UNCHANGED <<store, queue, dlq, api, replay, counts>>

(* Redis may not answer, and a retry waiting for its countdown is held by  *)
(* a worker, out of the list's reach.                                      *)
CancelRemove(t) ==
  /\ cancel[t] = "remove"
  /\ \E kept \in SUBSET (0..MaxRetries) :
       queue' = [queue EXCEPT ![t] =
                   [n \in 0..MaxRetries |-> IF n \in kept THEN @[n] ELSE 0]]
  /\ cancel' = [cancel EXCEPT ![t] = "commit"]
  /\ UNCHANGED <<store, revoked, dlq, api, replay, run, counts>>

CancelCommit(t) ==
  /\ cancel[t] = "commit"
  /\ UpdateTaskStatus(t, Cancelled(t))
  /\ cancel' = [cancel EXCEPT ![t] = "publish"]
  /\ UNCHANGED <<rows, hygiene, files, aged, broker, api, replay, run, counts>>

CancelPublish(t) ==
  /\ cancel[t] = "publish"
  /\ cancel' = [cancel EXCEPT ![t] = "none"]
  /\ UNCHANGED <<store, queue, revoked, dlq, api, replay, run, counts>>
-----------------------------------------------------------------------------
(***************************************************************************)
(* The sweepers.                                                           *)
(***************************************************************************)
(* Mutant: the sweeper looks only at rows that carry a real celery id.     *)
SweepProcessingCelery(t) ==
  /\ task[t].celeryId = "celery"
  /\ task[t].status = "PROCESSING"
  /\ task' = [task EXCEPT ![t].status = "FAILED",
                          ![t].fallback = "WORKER_TIMEOUT"]
  /\ UNCHANGED <<rows, hygiene, files, aged, broker, calls, run, counts>>

(* A single submission sends its only heartbeat when it starts and may     *)
(* then run for longer than the sweeper waits, so a stale row does not     *)
(* mean a dead runner.                                                     *)
SweepProcessing(t) ==
  /\ task[t].status = "PROCESSING"
  /\ task' = [task EXCEPT ![t].status = "FAILED",
                          ![t].fallback = "WORKER_TIMEOUT"]
  /\ UNCHANGED <<rows, hygiene, files, aged, broker, calls, run, counts>>

(* Mutant: the celery id is not looked at.                                 *)
SweepPendingAny(t) ==
  /\ task[t].status = "PENDING"
  /\ api[t] \in {"done", "dead"}
  /\ task' = [task EXCEPT ![t].status = "FAILED",
                          ![t].fallback = "QUEUE_STALE_ORPHAN"]
  /\ UNCHANGED <<rows, hygiene, files, aged, broker, calls, run, counts>>

(* A submit handler lives far shorter than the sweeper's 900 seconds.      *)
SweepPending(t) ==
  /\ task[t].status = "PENDING"
  /\ task[t].celeryId \in {"null", "local"}
  /\ api[t] \in {"done", "dead"}
  /\ task' = [task EXCEPT ![t].status = "FAILED",
                          ![t].fallback = "QUEUE_STALE_ORPHAN"]
  /\ UNCHANGED <<rows, hygiene, files, aged, broker, calls, run, counts>>
(* The directory grows older than the uploads are kept: a week, or the     *)
(* days an operator asks for, at least one.  A submission lives minutes.   *)
UploadsAge(t) ==
  /\ files[t]
  /\ api[t] \in {"done", "dead"}
  /\ Cardinality({u \in Tasks : aged[u]}) < MaxAged
  /\ aged' = [aged EXCEPT ![t] = TRUE]
  /\ UNCHANGED <<task, rows, hygiene, files, broker, calls, run, counts>>

(* upload_ttl_cleanup_task and POST /ops/uploads/cleanup-expired remove a  *)
(* directory for its age alone, whatever has become of the task.           *)
TtlCleanup(t) ==
  /\ aged[t]
  /\ files' = [files EXCEPT ![t] = FALSE]
  /\ UNCHANGED <<task, rows, hygiene, aged, broker, calls, run, counts>>
-----------------------------------------------------------------------------
(***************************************************************************)
(* The dead letter queue tools.                                            *)
(***************************************************************************)
ReplayEnqueue(t) ==
  /\ replay[t] = "none"
  /\ dlq[t] > 0
  /\ replays < MaxReplays
  /\ replays' = replays + 1
  /\ Enqueue(t, 0)
  /\ replay' = [replay EXCEPT ![t] = "remove"]
  /\ UNCHANGED <<store, revoked, dlq, api, cancel, run, faults, cancels>>

(* lrem of the entry; remove_from_dlq = False keeps it.                    *)
ReplayRemove(t) ==
  /\ replay[t] = "remove"
  /\ dlq' \in {dlq, [dlq EXCEPT ![t] = IF @ > 0 THEN @ - 1 ELSE 0]}
  /\ replay' = [replay EXCEPT ![t] = "none"]
  /\ UNCHANGED <<store, queue, revoked, api, cancel, run, counts>>

PurgeDlq ==
  /\ dlq' = [t \in Tasks |-> 0]
  /\ UNCHANGED <<store, queue, revoked, calls, run, counts>>
-----------------------------------------------------------------------------
SubmitStep(t) == RubricMissing(t) \/ DispatchToBroker(t) \/ DispatchLocally(t)
                   \/ RecordCeleryId(t)

(* What a runner does of its own accord, exceptions aside.                 *)
BodyStep(r) ==
  \/ PreCheck(r)
  \/ MarkProcessing(r)
  \/ FetchFiles(r)
  \/ \E v \in Outcomes : GradeSingle(r, v)
  \/ LogRejection(r)
  \/ \E i \in 1..BatchSize, v \in Outcomes : GradeItem(r, i, v)
  \/ CheckCancelled(r)
  \/ Commit(r)
  \/ Publish(r)
  \/ Ack(r)

HandlerStep(r) ==
  \/ RejectLog(r)
  \/ RejectSave(r)
  \/ RejectCommit(r)
  \/ MarkFailed(r)
  \/ ScheduleRetry(r)
  \/ CleanUpFiles(r)
  \/ RouteToDlq(r)

Disturbance(r) ==
  \/ ShortCircuit(r)
  \/ StepRaises(r)
  \/ HandlerRaises(r)

WorkerFault(w) == SoftTimeLimit(w) \/ HardTimeLimit(w) \/ WorkerCrash(w)

CancelStep(t) == CancelRevoke(t) \/ CancelRemove(t) \/ CancelCommit(t)
                   \/ CancelPublish(t)

Next ==
  \/ \E t \in Tasks :
       \/ Submit(t)
       \/ SubmitStep(t)
       \/ CancelRead(t)
       \/ CancelStep(t)
       \/ SweepProcessing(t)
       \/ SweepPending(t)
       \/ UploadsAge(t)
       \/ TtlCleanup(t)
       \/ ReplayEnqueue(t)
       \/ ReplayRemove(t)
       \/ \E n \in 0..MaxRetries :
            DiscardRevoked(t, n) \/ \E w \in Workers : Deliver(w, t, n)
  \/ \E r \in Runners : BodyStep(r) \/ HandlerStep(r) \/ Disturbance(r)
  \/ \E w \in Workers : WorkerFault(w)
  \/ ApiCrash
  \/ PurgeDlq

Spec == Init /\ [][Next]_vars

Running(t) == \E r \in Runners : run[r].task = t
Queued(t)  == \E n \in 0..MaxRetries : queue[t][n] > 0

(* Handlers and attempts that have begun go on, an idle worker takes a     *)
(* waiting message, and the sweepers run every minute.  Nobody has to      *)
(* submit, cancel or replay, and nothing has to fail.                      *)
Fairness ==
  /\ \A t \in Tasks :
       /\ WF_vars(SubmitStep(t))
       /\ WF_vars(CancelStep(t))
       /\ WF_vars(SweepProcessing(t) /\ ~Running(t))
       /\ WF_vars(SweepPending(t))
       /\ \A n \in 0..MaxRetries : SF_vars(\E w \in Workers : Deliver(w, t, n))
  /\ \A r \in Runners : WF_vars(BodyStep(r) \/ HandlerStep(r))

FairSpec == Spec /\ Fairness
-----------------------------------------------------------------------------
(***************************************************************************)
(* Safety.                                                                 *)
(***************************************************************************)
HasResult(t, i) == \E v \in Verdicts : rows[t][i][v] > 0

(* Every writer of tasks.status together - workers, cancel handlers and    *)
(* both sweepers, with their own SQL guards - keeps the store's promise.   *)
statusOf == [t \in Tasks |-> task[t].status]
Store == INSTANCE TaskStatus WITH status <- statusOf
StoreSpec == Store!Spec

(* What the readers of a task see, and may rely on: attempts that overlap, *)
(* crash, are cancelled, retried and replayed keep the contract GradedTask *)
(* states.  A task turns COMPLETED only with a result for every item or a  *)
(* short circuit, a hygiene record if it was rejected, and its uploads,    *)
(* unless they have had their time; only FAILED and CANCELLED follow, and  *)
(* only then, or in time, do the uploads go.                               *)
ShownOf(row) ==
  CASE row.status # "COMPLETED" -> "nothing"
    [] row.status = "COMPLETED" /\ row.grading # "REJECTED_UNREADABLE" -> "graded"
    [] row.status = "COMPLETED" /\ row.grading = "REJECTED_UNREADABLE" ->
         IF row.fallback = "PERCEPTION_SHORT_CIRCUIT" THEN "unread" ELSE "rejected"

itemsOf  == [t \in Tasks |-> Items(t)]
shownOf  == [t \in Tasks |-> ShownOf(task[t])]
resultOf == [t \in Tasks |-> {i \in Items(t) : HasResult(t, i)}]

Contract == INSTANCE GradedTask WITH
  Pages <- itemsOf, status <- statusOf, shown <- shownOf, results <- resultOf,
  logged <- hygiene, uploads <- files, old <- aged

ContractSpec == Contract!Spec

(* GET /results serves a COMPLETED task: it then has a result for every    *)
(* item, even when attempts overlapped, were cut short by a cancellation   *)
(* or stored only part of a batch, unless the paper was rejected before    *)
(* grading, in which case the hygiene log tells why.                       *)
CompletedHasResults ==
  \A t \in Tasks :
    task[t].status = "COMPLETED" =>
      \/ \A i \in Items(t) : HasResult(t, i)
      \/ task[t].fallback = "PERCEPTION_SHORT_CIRCUIT" /\ hygiene[t]

(* A task completed as unreadable is in the hygiene log: the record is     *)
(* written before the status, on each of the three rejection paths.        *)
RejectionIsLogged ==
  \A t \in Tasks :
    task[t].status = "COMPLETED" /\ task[t].grading = "REJECTED_UNREADABLE"
      => hygiene[t]

(* Uploads of a COMPLETED task are there for the review desk for as long   *)
(* as uploads are kept: an attempt that gives up records FAILED before it  *)
(* deletes them, whatever another attempt of the same task has done        *)
(* meanwhile, and the cleanup by age waits for the age.                    *)
CompletedKeepsFiles ==
  \A t \in Tasks : task[t].status = "COMPLETED" => files[t] \/ aged[t]

(* A task in the dead letter queue has failed or was cancelled, and so     *)
(* will never show as completed again, replayed or not.                    *)
DeadLetterIsFinal ==
  \A t \in Tasks : dlq[t] > 0 => task[t].status \in Final

(* Once a task is cancelled and no worker has begun to grade it, none ever *)
(* will: no waiting retry, redelivery or replay brings it back.            *)
Grading(t) ==
  \E w \in Workers :
    run[w].task = t /\ run[w].pc \in BodyPcs \ {"precheck"}

CancelHolds ==
  [][\A t \in Tasks :
       task[t].status = "CANCELLED" /\ ~Grading(t) => ~Grading(t)']_vars

(* The orphan sweeper gives up only tasks nobody will ever pick up, also   *)
(* when an operator replays dead letters, unless the API died between the  *)
(* dispatch and the write of the celery id, or took a message it has sent  *)
(* for lost.                                                               *)
OrphanSweepSparesQueued ==
  \A t \in Tasks :
    task[t].fallback = "QUEUE_STALE_ORPHAN" /\ Queued(t) =>
      api[t] = "dead" \/ task[t].celeryId = "local"

(***************************************************************************)
(* Liveness.                                                               *)
(***************************************************************************)

(* A PENDING row with a real celery id whose message is gone: its attempt  *)
(* failed before and while recording anything, or a cancellation dropped   *)
(* the message and died.  No sweeper selects such a row.                   *)
Stranded(t) ==
  /\ task[t].status = "PENDING"
  /\ task[t].celeryId = "celery"
  /\ ~Queued(t)
  /\ ~Running(t)

(* Every submitted task reaches a terminal status, whatever crashes,       *)
(* unless it is stranded.                                                  *)
Settles ==
  \A t \in Tasks :
    task[t].status \in Live ~> task[t].status \notin Live \/ Stranded(t)

(* No message circulates for ever: deliveries, retries, redeliveries after *)
(* crashes and replays come to an end.                                     *)
QueueDrains == \A t \in Tasks : <>[](~Queued(t) /\ ~Running(t))
=============================================================================
