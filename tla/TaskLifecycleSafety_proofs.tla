--------------------- MODULE TaskLifecycleSafety_proofs ---------------------
(***************************************************************************)
(* The safety properties of TaskLifecycle, for any sets of tasks and       *)
(* workers, any batch size, any number of retries and any faults.          *)
(***************************************************************************)
EXTENDS TaskLifecycleType_proofs

(***************************************************************************)
(* Which actions touch which part of the state.                            *)
(***************************************************************************)
TaskWriter ==
  \/ \E t \in Tasks : \/ Submit(t) \/ RecordCeleryId(t) \/ CancelCommit(t)
                      \/ SweepProcessing(t) \/ SweepPending(t)
  \/ \E r \in Runners : \/ MarkProcessing(r) \/ Commit(r)
                        \/ RejectCommit(r) \/ MarkFailed(r)

LEMMA TaskFrame == [Next]_vars => UNCHANGED task \/ TaskWriter
  <1> SUFFICES ASSUME [Next]_vars, ~UNCHANGED task PROVE TaskWriter
    OBVIOUS
  <1>1. CASE UNCHANGED vars
    BY <1>1 DEF vars, store
  <1>2. ASSUME NEW t \in Tasks, SubmitStep(t) PROVE TaskWriter
    BY <1>2
    DEF SubmitStep, RubricMissing, DispatchToBroker, DispatchLocally, store, TaskWriter
  <1>3. ASSUME NEW t \in Tasks, CancelStep(t) PROVE TaskWriter
    BY <1>3
    DEF CancelStep, CancelRevoke, CancelRemove, CancelPublish, store, TaskWriter
  <1>4. ASSUME NEW r \in Runners, BodyStep(r) PROVE TaskWriter
    BY <1>4
    DEF BodyStep, PreCheck, FetchFiles, GradeSingle, LogRejection, GradeItem,
        CheckCancelled, Publish, Ack, store, TaskWriter
  <1>5. ASSUME NEW r \in Runners, HandlerStep(r) PROVE TaskWriter
    BY <1>5
    DEF HandlerStep, RejectLog, RejectSave, ScheduleRetry, CleanUpFiles, RouteToDlq,
        store, TaskWriter
  <1>6. ASSUME NEW r \in Runners, Disturbance(r) PROVE TaskWriter
    BY <1>6 DEF Disturbance, ShortCircuit, StepRaises, HandlerRaises, store
  <1>7. ASSUME NEW w \in Workers, WorkerFault(w) PROVE TaskWriter
    BY <1>7 DEF WorkerFault, SoftTimeLimit, HardTimeLimit, WorkerCrash, store
  <1> QED
    BY <1>1, <1>2, <1>3, <1>4, <1>5, <1>6, <1>7
    DEF Next, CancelRead, UploadsAge, TtlCleanup, ReplayEnqueue, ReplayRemove,
        DiscardRevoked, Deliver, ApiCrash, PurgeDlq, store, TaskWriter

FilesWriter == \/ \E t \in Tasks : Submit(t) \/ TtlCleanup(t)
               \/ \E r \in Runners : CleanUpFiles(r)

LEMMA FilesFrame == [Next]_vars => UNCHANGED files \/ FilesWriter
  <1> SUFFICES ASSUME [Next]_vars, ~UNCHANGED files PROVE FilesWriter
    OBVIOUS
  <1>1. CASE UNCHANGED vars
    BY <1>1 DEF vars, store
  <1>2. ASSUME NEW t \in Tasks, SubmitStep(t) PROVE FilesWriter
    BY <1>2
    DEF SubmitStep, RubricMissing, DispatchToBroker, DispatchLocally, RecordCeleryId,
        store
  <1>3. ASSUME NEW t \in Tasks, CancelStep(t) PROVE FilesWriter
    BY <1>3
    DEF CancelStep, CancelRevoke, CancelRemove, CancelCommit, CancelPublish, store
  <1>4. ASSUME NEW r \in Runners, BodyStep(r) PROVE FilesWriter
    BY <1>4
    DEF BodyStep, PreCheck, MarkProcessing, FetchFiles, GradeSingle, LogRejection,
        GradeItem, CheckCancelled, Commit, Publish, Ack, store
  <1>5. ASSUME NEW r \in Runners, HandlerStep(r) PROVE FilesWriter
    BY <1>5
    DEF HandlerStep, RejectLog, RejectSave, RejectCommit, MarkFailed, ScheduleRetry,
        RouteToDlq, store, FilesWriter
  <1>6. ASSUME NEW r \in Runners, Disturbance(r) PROVE FilesWriter
    BY <1>6 DEF Disturbance, ShortCircuit, StepRaises, HandlerRaises, store
  <1>7. ASSUME NEW w \in Workers, WorkerFault(w) PROVE FilesWriter
    BY <1>7 DEF WorkerFault, SoftTimeLimit, HardTimeLimit, WorkerCrash, store
  <1> QED
    BY <1>1, <1>2, <1>3, <1>4, <1>5, <1>6, <1>7
    DEF Next, CancelRead, SweepProcessing, SweepPending, UploadsAge, ReplayEnqueue,
        ReplayRemove, DiscardRevoked, Deliver, ApiCrash, PurgeDlq, store, FilesWriter

LEMMA AgedFrame == [Next]_vars => UNCHANGED aged \/ \E t \in Tasks : UploadsAge(t)
  <1> SUFFICES ASSUME [Next]_vars, ~UNCHANGED aged
               PROVE  \E t \in Tasks : UploadsAge(t)
    OBVIOUS
  <1>1. CASE UNCHANGED vars
    BY <1>1 DEF vars, store
  <1>2. ASSUME NEW t \in Tasks, SubmitStep(t) PROVE FALSE
    BY <1>2
    DEF SubmitStep, RubricMissing, DispatchToBroker, DispatchLocally, RecordCeleryId,
        store
  <1>3. ASSUME NEW t \in Tasks, CancelStep(t) PROVE FALSE
    BY <1>3
    DEF CancelStep, CancelRevoke, CancelRemove, CancelCommit, CancelPublish, store
  <1>4. ASSUME NEW r \in Runners, BodyStep(r) PROVE FALSE
    BY <1>4
    DEF BodyStep, PreCheck, MarkProcessing, FetchFiles, GradeSingle, LogRejection,
        GradeItem, CheckCancelled, Commit, Publish, Ack, store
  <1>5. ASSUME NEW r \in Runners, HandlerStep(r) PROVE FALSE
    BY <1>5
    DEF HandlerStep, RejectLog, RejectSave, RejectCommit, MarkFailed, ScheduleRetry,
        CleanUpFiles, RouteToDlq, store
  <1>6. ASSUME NEW r \in Runners, Disturbance(r) PROVE FALSE
    BY <1>6 DEF Disturbance, ShortCircuit, StepRaises, HandlerRaises, store
  <1>7. ASSUME NEW w \in Workers, WorkerFault(w) PROVE FALSE
    BY <1>7 DEF WorkerFault, SoftTimeLimit, HardTimeLimit, WorkerCrash, store
  <1> QED
    BY <1>1, <1>2, <1>3, <1>4, <1>5, <1>6, <1>7
    DEF Next, Submit, CancelRead, SweepProcessing, SweepPending, TtlCleanup,
        ReplayEnqueue, ReplayRemove, DiscardRevoked, Deliver, ApiCrash, PurgeDlq, store

DlqWriter == \/ \E r \in Runners : RouteToDlq(r)
             \/ \E t \in Tasks : ReplayRemove(t)
             \/ PurgeDlq

LEMMA DlqFrame == [Next]_vars => UNCHANGED dlq \/ DlqWriter
  <1> SUFFICES ASSUME [Next]_vars, ~UNCHANGED dlq PROVE DlqWriter
    OBVIOUS
  <1>1. CASE UNCHANGED vars
    BY <1>1 DEF vars, broker
  <1>2. ASSUME NEW t \in Tasks, SubmitStep(t) PROVE DlqWriter
    BY <1>2
    DEF SubmitStep, RubricMissing, DispatchToBroker, DispatchLocally, RecordCeleryId,
        broker
  <1>3. ASSUME NEW t \in Tasks, CancelStep(t) PROVE DlqWriter
    BY <1>3
    DEF CancelStep, CancelRevoke, CancelRemove, CancelCommit, CancelPublish, broker
  <1>4. ASSUME NEW r \in Runners, BodyStep(r) PROVE DlqWriter
    BY <1>4
    DEF BodyStep, PreCheck, MarkProcessing, FetchFiles, GradeSingle, LogRejection,
        GradeItem, CheckCancelled, Commit, Publish, Ack, broker
  <1>5. ASSUME NEW r \in Runners, HandlerStep(r) PROVE DlqWriter
    BY <1>5
    DEF HandlerStep, RejectLog, RejectSave, RejectCommit, MarkFailed, ScheduleRetry,
        CleanUpFiles, broker, DlqWriter
  <1>6. ASSUME NEW r \in Runners, Disturbance(r) PROVE DlqWriter
    BY <1>6 DEF Disturbance, ShortCircuit, StepRaises, HandlerRaises, broker
  <1>7. ASSUME NEW w \in Workers, WorkerFault(w) PROVE DlqWriter
    BY <1>7 DEF WorkerFault, SoftTimeLimit, HardTimeLimit, WorkerCrash, broker
  <1> QED
    BY <1>1, <1>2, <1>3, <1>4, <1>5, <1>6, <1>7
    DEF Next, Submit, CancelRead, SweepProcessing, SweepPending, UploadsAge, TtlCleanup,
        ReplayEnqueue, DiscardRevoked, Deliver, ApiCrash, broker, DlqWriter

ApiWriter == ApiCrash \/ \E t \in Tasks : Submit(t) \/ SubmitStep(t)

LEMMA ApiFrame == [Next]_vars => UNCHANGED api \/ ApiWriter
  <1> SUFFICES ASSUME [Next]_vars, ~UNCHANGED api PROVE ApiWriter
    OBVIOUS
  <1>1. CASE UNCHANGED vars
    BY <1>1 DEF vars, calls
  <1>3. ASSUME NEW t \in Tasks, CancelStep(t) PROVE ApiWriter
    BY <1>3
    DEF CancelStep, CancelRevoke, CancelRemove, CancelCommit, CancelPublish
  <1>4. ASSUME NEW r \in Runners, BodyStep(r) PROVE ApiWriter
    BY <1>4
    DEF BodyStep, PreCheck, MarkProcessing, FetchFiles, GradeSingle, LogRejection,
        GradeItem, CheckCancelled, Commit, Publish, Ack, calls
  <1>5. ASSUME NEW r \in Runners, HandlerStep(r) PROVE ApiWriter
    BY <1>5
    DEF HandlerStep, RejectLog, RejectSave, RejectCommit, MarkFailed, ScheduleRetry,
        CleanUpFiles, RouteToDlq, calls
  <1>6. ASSUME NEW r \in Runners, Disturbance(r) PROVE ApiWriter
    BY <1>6 DEF Disturbance, ShortCircuit, StepRaises, HandlerRaises, calls
  <1>7. ASSUME NEW w \in Workers, WorkerFault(w) PROVE ApiWriter
    BY <1>7 DEF WorkerFault, SoftTimeLimit, HardTimeLimit, WorkerCrash, calls
  <1> QED
    BY <1>1, <1>3, <1>4, <1>5, <1>6, <1>7
    DEF Next, CancelRead, SweepProcessing, SweepPending, UploadsAge, TtlCleanup,
        ReplayEnqueue, ReplayRemove, DiscardRevoked, Deliver, PurgeDlq, calls, ApiWriter

(***************************************************************************)
(* The inductive invariant.                                                *)
(***************************************************************************)

(* A row exists from the moment its submission has begun, and only a task  *)
(* whose submission has begun is in the broker or being run.               *)
Begun ==
  /\ \A t \in Tasks : api[t] = "none" <=> task[t].status = Absent
  /\ \A t \in Tasks : Queued(t) => api[t] # "none"
  /\ \A r \in Runners : run[r].pc # "idle" => api[run[r].task] # "none"

(* An attempt that gives up has first made its task's status final.        *)
DoomedPcs == {"retry", "cleanup", "deadletter"}

Doomed ==
  \A r \in Runners :
    run[r].pc \in DoomedPcs => task[run[r].task].status \in Final

(* Only a task that is beyond completion loses its files before their time.*)
FilesKept ==
  \A t \in Tasks :
    api[t] # "none" /\ ~files[t] => task[t].status \in Final \/ aged[t]

SafeInv == TypeInv /\ Begun /\ Doomed /\ FilesKept /\ DeadLetterIsFinal

LEMMA InitSafeInv == Init => SafeInv
  <1> SUFFICES ASSUME Init PROVE SafeInv
    OBVIOUS
  <1>1. Begun /\ FilesKept
    BY LifecycleAssumption
    DEF LifecycleAssumption, Begun, FilesKept, Init, NoRow, Idle, Queued
  <1>2. Doomed
    BY DEF Doomed, DoomedPcs, Init, Idle
  <1>3. DeadLetterIsFinal
    BY DEF Init, DeadLetterIsFinal
  <1> QED BY <1>1, <1>2, <1>3, InitTypeInv DEF SafeInv
(***************************************************************************)
(* Status changes.                                                         *)
(***************************************************************************)
Moves(t) ==
  /\ \A u \in Tasks \ {t} : task'[u].status = task[u].status
  /\ Submit(t) \/ (/\ task'[t].status \in Statuses
                   /\ Outranks(task'[t].status, task[t].status))

StatusStep ==
  \/ \A u \in Tasks : task'[u].status = task[u].status
  \/ \E t \in Tasks : Moves(t)

LEMMA UpdateMoves ==
  ASSUME task \in [Tasks -> Columns], NEW t \in Tasks, NEW new \in Columns,
         new.status \in Statuses, UpdateTaskStatus(t, new)
  PROVE  StatusStep
  <1>1. CASE Outranks(new.status, task[t].status)
    <2>1. task' = [task EXCEPT ![t] = new]
      BY <1>1 DEF UpdateTaskStatus
    <2> QED BY <1>1, <2>1 DEF StatusStep, Moves
  <1>2. CASE ~Outranks(new.status, task[t].status)
    BY <1>2 DEF UpdateTaskStatus, StatusStep
  <1> QED BY <1>1, <1>2

LEMMA NewStatus ==
  ASSUME task \in [Tasks -> Columns], NEW t \in Tasks
  PROVE  /\ [task[t] EXCEPT !.status = "PROCESSING"].status = "PROCESSING"
         /\ Failed(t).status = "FAILED"
         /\ \A V \in SUBSET Verdicts : Completed(t, V).status = "COMPLETED"
         /\ Rejected(t).status = "COMPLETED"
         /\ Cancelled(t).status = "CANCELLED"
  BY DEF Columns, Failed, Completed, Rejected, Cancelled

LEMMA StatusStepHolds ==
  ASSUME TypeInv, [Next]_vars
  PROVE  StatusStep
  <1>0. task \in [Tasks -> Columns]
    BY DEF TypeInv, TypeOK
  <1>1. CASE UNCHANGED task
    BY <1>1 DEF StatusStep
  <1>2. ASSUME NEW t \in Tasks, Submit(t) PROVE StatusStep
    BY <1>0, <1>2 DEF Submit, StatusStep, Moves
  <1>3. ASSUME NEW t \in Tasks, RecordCeleryId(t) PROVE StatusStep
    BY <1>0, <1>3 DEF RecordCeleryId, StatusStep, Columns
  <1>4. ASSUME NEW t \in Tasks, CancelCommit(t) PROVE StatusStep
    BY <1>0, <1>4, RowType, NewStatus, UpdateMoves DEF CancelCommit, Statuses
  <1>5. ASSUME NEW t \in Tasks, SweepProcessing(t) PROVE StatusStep
    <2> DEFINE row == [task[t] EXCEPT !.status = "FAILED",
                                      !.fallback = "WORKER_TIMEOUT"]
    <2>0. task' = [task EXCEPT ![t] = row] /\ row.status = "FAILED"
      <3>1. task' = [task EXCEPT ![t] = row]
        BY <1>5, Zenon DEF SweepProcessing
      <3>2. row.status = "FAILED"
        BY <1>0 DEF Columns
      <3> QED BY <3>1, <3>2
    <2>1. /\ task'[t].status = "FAILED"
          /\ \A u \in Tasks \ {t} : task'[u].status = task[u].status
      <3> HIDE DEF row
      <3> QED BY <1>0, <2>0
    <2>2. task[t].status = "PROCESSING"
      BY <1>5 DEF SweepProcessing
    <2>3. Outranks("FAILED", "PROCESSING")
      BY DEF Outranks, Statuses, Weight
    <2> HIDE DEF row
    <2> QED BY <2>1, <2>2, <2>3 DEF StatusStep, Moves, Statuses
  <1>6. ASSUME NEW t \in Tasks, SweepPending(t) PROVE StatusStep
    <2> DEFINE row == [task[t] EXCEPT !.status = "FAILED",
                                      !.fallback = "QUEUE_STALE_ORPHAN"]
    <2>0. task' = [task EXCEPT ![t] = row] /\ row.status = "FAILED"
      <3>1. task' = [task EXCEPT ![t] = row]
        BY <1>6, Zenon DEF SweepPending
      <3>2. row.status = "FAILED"
        BY <1>0 DEF Columns
      <3> QED BY <3>1, <3>2
    <2>1. /\ task'[t].status = "FAILED"
          /\ \A u \in Tasks \ {t} : task'[u].status = task[u].status
      <3> HIDE DEF row
      <3> QED BY <1>0, <2>0
    <2>2. task[t].status = "PENDING"
      BY <1>6 DEF SweepPending
    <2>3. Outranks("FAILED", "PENDING")
      BY DEF Outranks, Statuses, Weight
    <2> HIDE DEF row
    <2> QED BY <2>1, <2>2, <2>3 DEF StatusStep, Moves, Statuses
  <1>7. ASSUME NEW r \in Runners,
               MarkProcessing(r) \/ Commit(r) \/ RejectCommit(r) \/ MarkFailed(r)
        PROVE  StatusStep
    <2>1. run[r].task \in Tasks /\ run[r].verdicts \in SUBSET Verdicts
      BY <1>7
      DEF TypeInv, TypeOK, Placed, Attempts, MarkProcessing, Commit, RejectCommit,
          MarkFailed
    <2>2. CASE MarkProcessing(r)
      BY <1>0, <2>1, <2>2, RowType, NewStatus, UpdateMoves DEF MarkProcessing, Statuses
    <2>3. CASE Commit(r)
      BY <1>0, <2>1, <2>3, RowType, NewStatus, UpdateMoves DEF Commit, Statuses
    <2>4. CASE RejectCommit(r)
      BY <1>0, <2>1, <2>4, RowType, NewStatus, UpdateMoves DEF RejectCommit, Statuses
    <2>5. CASE MarkFailed(r)
      BY <1>0, <2>1, <2>5, RowType, NewStatus, UpdateMoves DEF MarkFailed, Statuses
    <2> QED BY <1>7, <2>2, <2>3, <2>4, <2>5
  <1> QED
    BY <1>1, <1>2, <1>3, <1>4, <1>5, <1>6, <1>7, TaskFrame DEF TaskWriter

(* A final status stays final, and a row stays.                            *)
LEMMA FinalStays ==
  ASSUME TypeInv, Begun, [Next]_vars, NEW t \in Tasks
  PROVE  /\ task[t].status \in Final => task'[t].status \in Final
         /\ task[t].status # Absent => task'[t].status # Absent
         /\ task[t].status = Absent /\ task'[t].status # Absent => Submit(t)
  <1>1. Submit(t) => task[t].status = Absent
    BY DEF Submit, Begun
  <1>2. task'[t].status = task[t].status \/ Moves(t)
    BY StatusStepHolds DEF StatusStep, Moves
  <1>3. ASSUME task'[t].status \in Statuses, Outranks(task'[t].status, task[t].status)
        PROVE  /\ task[t].status \in Final => task'[t].status \in Final
               /\ task[t].status # Absent /\ task'[t].status # Absent
    BY <1>3 DEF Outranks, Weight, Statuses, Final, Absent
  <1> QED BY <1>1, <1>2, <1>3 DEF Moves, Final, Absent
(***************************************************************************)
(* What a step does to the attempts: r keeps its task unless it is idle or *)
(* takes one up, and only an attempt that records FAILED becomes doomed.   *)
(***************************************************************************)
KeepsTask(r) ==
  run[r].pc # "idle" /\ run'[r].task = run[r].task

TakesUp(r) ==
  \E t \in Tasks :
    /\ run'[r].task = t
    /\ run'[r].pc \notin DoomedPcs
    /\ api[t] = "deferred" \/ Queued(t)

RunEffect(r) ==
  \/ run'[r] = run[r]
  \/ run'[r].pc = "idle"
  \/ TakesUp(r)
  \/ KeepsTask(r) /\ run'[r].pc \notin DoomedPcs
  \/ KeepsTask(r) /\ run[r].pc \in DoomedPcs
  \/ KeepsTask(r) /\ MarkFailed(r)

LEMMA GotoEffect ==
  ASSUME TypeInv, NEW r \in Runners, run[r].pc # "idle", NEW pc \in RunPcs,
         Goto(r, pc),
         \/ pc \notin DoomedPcs
         \/ run[r].pc \in DoomedPcs
         \/ MarkFailed(r)
  PROVE  \A q \in Runners : RunEffect(q)
  BY GotoType DEF TypeInv, TypeOK, RunEffect, KeepsTask

LEMMA SwitchEffect ==
  ASSUME TypeInv, NEW r \in Runners, NEW t \in Tasks, NEW n \in 0..MaxRetries,
         run' = [run EXCEPT ![r] = Attempt(t, n)],
         \/ api[t] = "deferred" \/ Queued(t)
         \/ run[r].pc # "idle" /\ run[r].task = t
  PROVE  \A q \in Runners : RunEffect(q)
  <1>1. run'[r] = Attempt(t, n) /\ \A q \in Runners \ {r} : run'[q] = run[q]
    BY DEF TypeInv, TypeOK
  <1>2. run'[r].task = t /\ run'[r].pc \notin DoomedPcs
    BY <1>1, AttemptType DEF DoomedPcs
  <1> QED BY <1>1, <1>2 DEF RunEffect, TakesUp, KeepsTask

LEMMA IdleEffect ==
  ASSUME \A q \in Runners : run'[q] = run[q] \/ run'[q] = Idle
  PROVE  \A q \in Runners : RunEffect(q)
  BY IdleType DEF RunEffect

LEMMA RunEffectHolds ==
  ASSUME TypeInv, [Next]_vars
  PROVE  \A q \in Runners : RunEffect(q)
  <1> DEFINE Goal == \A q \in Runners : RunEffect(q)
  <1>0. run \in [Runners -> Attempts]
    BY DEF TypeInv, TypeOK
  <1>1. UNCHANGED run => Goal
    BY DEF RunEffect
  <1> HIDE DEF Goal
  <1>2. ASSUME NEW t \in Tasks, SubmitStep(t) PROVE Goal
    <2>1. CASE RecordCeleryId(t)
      <3>1. t \in Runners /\ 0 \in 0..MaxRetries
        BY LifecycleAssumption DEF LifecycleAssumption, Runners
      <3>2. \/ UNCHANGED run
            \/ api[t] = "deferred" /\ run' = [run EXCEPT ![t] = Attempt(t, 0)]
        BY <2>1 DEF RecordCeleryId
      <3> QED BY <1>1, <3>1, <3>2, SwitchEffect DEF Goal
    <2> QED
      BY <1>1, <1>2, <2>1
      DEF SubmitStep, RubricMissing, DispatchToBroker, DispatchLocally
  <1>3. ASSUME NEW t \in Tasks, CancelStep(t) PROVE Goal
    <2>1. CASE CancelRevoke(t)
      BY <1>0, <2>1, IdleEffect DEF CancelRevoke, Goal
    <2> QED
      BY <1>1, <1>3, <2>1
      DEF CancelStep, CancelRemove, CancelCommit, CancelPublish
  <1>4. ASSUME NEW r \in Runners, BodyStep(r) PROVE Goal
    <2>1. CASE Ack(r)
      BY <1>0, <2>1, IdleEffect DEF Ack, Goal
    <2>2. CASE \/ PreCheck(r) \/ MarkProcessing(r) \/ FetchFiles(r) \/ LogRejection(r)
               \/ CheckCancelled(r) \/ Commit(r) \/ Publish(r)
      <3>1. run[r].pc # "idle"
        BY <2>2
        DEF PreCheck, MarkProcessing, FetchFiles, LogRejection, CheckCancelled,
            Commit, Publish
      <3>2. PICK pc \in {"ack", "mark", "fetch", "grade", "fail", "commit", "publish"} :
              Goto(r, pc)
        BY <2>2
        DEF PreCheck, MarkProcessing, FetchFiles, LogRejection, CheckCancelled,
            Commit, Publish
      <3>3. pc \in RunPcs /\ pc \notin DoomedPcs
        BY DEF RunPcs, BodyPcs, HandlerPcs, DoomedPcs
      <3> QED BY <3>1, <3>2, <3>3, GotoEffect DEF Goal
    <2>3. CASE \/ \E v \in Outcomes : GradeSingle(r, v)
               \/ \E i \in 1..BatchSize, v \in Outcomes : GradeItem(r, i, v)
      <3>1. run[r].pc = "grade"
        BY <2>3 DEF GradeSingle, GradeItem
      <3>2. ASSUME NEW v \in Outcomes, GradeSingle(r, v)
            PROVE  /\ \A q \in Runners \ {r} : run'[q] = run[q]
                   /\ run'[r].task = run[r].task
                   /\ run'[r].pc \in {"hygiene", "commit", "check", "grade"}
        BY <1>0, <3>2 DEF GradeSingle, Attempts
      <3>3. ASSUME NEW i \in 1..BatchSize, NEW v \in Outcomes, GradeItem(r, i, v)
            PROVE  /\ \A q \in Runners \ {r} : run'[q] = run[q]
                   /\ run'[r].task = run[r].task
                   /\ run'[r].pc \in {"hygiene", "commit", "check", "grade"}
        BY <1>0, <3>3 DEF GradeItem, Attempts
      <3>4. /\ \A q \in Runners \ {r} : run'[q] = run[q]
            /\ run'[r].task = run[r].task
            /\ run'[r].pc \in {"hygiene", "commit", "check", "grade"}
        BY <2>3, <3>2, <3>3
      <3> QED BY <3>1, <3>4 DEF Goal, RunEffect, KeepsTask, DoomedPcs
    <2> QED BY <1>4, <2>1, <2>2, <2>3 DEF BodyStep
  <1>5. ASSUME NEW r \in Runners, HandlerStep(r) PROVE Goal
    <2>1. CASE ScheduleRetry(r)
      <3>1. run[r].pc # "idle" /\ run[r].pc = "retry" /\ run[r].task \in Tasks
        BY <2>1 DEF ScheduleRetry, TypeInv, Placed
      <3>2. CASE Goto(r, "ack")
        BY <3>1, <3>2, GotoEffect DEF Goal, RunPcs, DoomedPcs
      <3>3. CASE run' = [run EXCEPT ![r] = Attempt(run[r].task, NextRetry(r))]
        <4>1. NextRetry(r) \in 0..MaxRetries
          BY <1>0, <3>1, LifecycleAssumption
          DEF LifecycleAssumption, NextRetry, TypeInv, Placed, Attempts
        <4> QED BY <3>1, <3>3, <4>1, SwitchEffect DEF Goal
      <3> QED BY <2>1, <3>2, <3>3 DEF ScheduleRetry
    <2>2. CASE MarkFailed(r)
      <3>1. run[r].pc # "idle" /\ {"retry", "cleanup"} \subseteq RunPcs
        BY <2>2 DEF MarkFailed, RunPcs, HandlerPcs
      <3> QED BY <2>2, <3>1, GotoEffect DEF Goal, MarkFailed
    <2>3. CASE \/ RejectLog(r) \/ RejectSave(r) \/ RejectCommit(r)
               \/ CleanUpFiles(r) \/ RouteToDlq(r)
      <3>1. run[r].pc # "idle"
        BY <2>3 DEF RejectLog, RejectSave, RejectCommit, CleanUpFiles, RouteToDlq
      <3>2. PICK pc \in {"reject_save", "reject_commit", "ack", "deadletter"} :
              Goto(r, pc) /\ (pc = "deadletter" => run[r].pc = "cleanup")
        BY <2>3 DEF RejectLog, RejectSave, RejectCommit, CleanUpFiles, RouteToDlq
      <3>3. pc \in RunPcs /\ (pc \notin DoomedPcs \/ run[r].pc \in DoomedPcs)
        BY <3>2 DEF RunPcs, BodyPcs, HandlerPcs, DoomedPcs
      <3> QED BY <3>1, <3>2, <3>3, GotoEffect DEF Goal
    <2> QED BY <1>5, <2>1, <2>2, <2>3 DEF HandlerStep
  <1>6. ASSUME NEW r \in Runners, Disturbance(r) PROVE Goal
    <2>1. run[r].pc # "idle"
      BY <1>6
      DEF Disturbance, ShortCircuit, StepRaises, HandlerRaises, BodyPcs
    <2>2. PICK pc \in {"reject_log", "fail", "ack"} : Goto(r, pc)
      BY <1>6 DEF Disturbance, ShortCircuit, StepRaises, HandlerRaises
    <2>3. pc \in RunPcs /\ pc \notin DoomedPcs
      BY DEF RunPcs, HandlerPcs, DoomedPcs
    <2> QED BY <2>1, <2>2, <2>3, GotoEffect DEF Goal
  <1>7. ASSUME NEW w \in Workers, WorkerFault(w) PROVE Goal
    <2>1. CASE SoftTimeLimit(w)
      <3>1. w \in Runners /\ run[w].pc # "idle" /\ "timeout" \in RunPcs \ DoomedPcs
        BY <2>1 DEF SoftTimeLimit, Runners, BodyPcs, RunPcs, HandlerPcs, DoomedPcs
      <3> QED BY <2>1, <3>1, GotoEffect DEF Goal, SoftTimeLimit
    <2>2. CASE HardTimeLimit(w) \/ WorkerCrash(w)
      BY <1>0, <2>2, IdleEffect DEF HardTimeLimit, WorkerCrash, Goal
    <2> QED BY <1>7, <2>1, <2>2 DEF WorkerFault
  <1>8. ASSUME NEW w \in Workers, NEW t \in Tasks, NEW n \in 0..MaxRetries,
               Deliver(w, t, n)
        PROVE  Goal
    <2>1. w \in Runners /\ Queued(t)
      BY <1>8 DEF Runners, Deliver, Dequeue, Queued
    <2> QED BY <1>8, <2>1, SwitchEffect DEF Goal, Deliver
  <1>9. CASE ApiCrash
    BY <1>0, <1>9, IdleEffect DEF ApiCrash, Goal
  <1>10. ASSUME NEW t \in Tasks,
                \/ Submit(t) \/ CancelRead(t) \/ SweepProcessing(t) \/ SweepPending(t)
                \/ UploadsAge(t) \/ TtlCleanup(t) \/ ReplayEnqueue(t) \/ ReplayRemove(t)
                \/ \E n \in 0..MaxRetries : DiscardRevoked(t, n)
         PROVE  Goal
    BY <1>1, <1>10
    DEF Submit, CancelRead, SweepProcessing, SweepPending, UploadsAge, TtlCleanup,
        ReplayEnqueue, ReplayRemove, DiscardRevoked
  <1>11. CASE UNCHANGED vars \/ PurgeDlq
    BY <1>1, <1>11 DEF vars, PurgeDlq, Goal
  <1>12. Goal
    BY <1>2, <1>3, <1>4, <1>5, <1>6, <1>7, <1>8, <1>9, <1>10, <1>11 DEF Next, Goal
  <1> QED BY <1>12 DEF Goal
LEMMA ApiStays ==
  ASSUME TypeInv, [Next]_vars, NEW t \in Tasks
  PROVE  api'[t] = "none" <=> api[t] = "none" /\ ~Submit(t)
  <1>0. api \in [Tasks -> {"none", "created", "queued", "deferred", "done", "dead"}]
    BY DEF TypeInv, TypeOK
  <1>1. Submit(t) => api'[t] = "created"
    BY <1>0 DEF Submit
  <1>2. CASE UNCHANGED api
    BY <1>1, <1>2
  <1>3. ASSUME NEW u \in Tasks, Submit(u)
        PROVE  u # t => api'[t] = api[t]
    BY <1>0, <1>3 DEF Submit
  <1>4. ASSUME NEW u \in Tasks, SubmitStep(u)
        PROVE  /\ api[u] # "none" /\ api'[u] # "none"
               /\ u # t => api'[t] = api[t]
    BY <1>0, <1>4
    DEF SubmitStep, RubricMissing, DispatchToBroker, DispatchLocally, RecordCeleryId
  <1>5. ApiCrash => (api'[t] = "none" <=> api[t] = "none")
    BY <1>0 DEF ApiCrash
  <1> QED BY <1>1, <1>2, <1>3, <1>4, <1>5, ApiFrame DEF ApiWriter

(* A message is never made of nothing.                                     *)
Enqueues(t) ==
  \/ api[t] = "created" /\ api'[t] \in {"queued", "deferred"}
  \/ dlq[t] > 0
  \/ \E r \in Runners : run[r].pc # "idle" /\ run[r].task = t

QueueEffect == \A t \in Tasks : Queued(t)' => Queued(t) \/ Enqueues(t)

LEMMA EnqueueEffect ==
  ASSUME queue \in Queues, NEW u \in Tasks, NEW n \in 0..MaxRetries, Enqueue(u, n),
         Enqueues(u)
  PROVE  QueueEffect
  <1>1. \A t \in Tasks \ {u} : queue'[t] = queue[t]
    BY DEF Enqueue, Queues
  <1> QED BY <1>1 DEF QueueEffect, Queued

LEMMA DequeueEffect ==
  ASSUME queue \in Queues, NEW u \in Tasks, NEW n \in 0..MaxRetries, Dequeue(u, n)
  PROVE  QueueEffect
  <1>1. \A t \in Tasks \ {u} : queue'[t] = queue[t]
    BY DEF Dequeue, Queues
  <1>2. Queued(u)
    BY DEF Dequeue, Queued
  <1> QED BY <1>1, <1>2 DEF QueueEffect, Queued

LEMMA QueueEffectHolds ==
  ASSUME TypeInv, [Next]_vars
  PROVE  QueueEffect
  <1>0. queue \in Queues /\ 0 \in 0..MaxRetries
    BY LifecycleAssumption DEF LifecycleAssumption, TypeInv, TypeOK
  <1>1. UNCHANGED queue => QueueEffect
    BY DEF QueueEffect, Queued
  <1>2. ASSUME NEW t \in Tasks, SubmitStep(t) PROVE QueueEffect
    <2>1. DispatchToBroker(t) \/ DispatchLocally(t) => Enqueues(t)
      BY DEF DispatchToBroker, DispatchLocally, Enqueues, TypeInv, TypeOK
    <2> QED
      BY <1>0, <1>1, <1>2, <2>1, EnqueueEffect
      DEF SubmitStep, RubricMissing, DispatchToBroker, DispatchLocally, RecordCeleryId,
          broker
  <1>3. ASSUME NEW t \in Tasks, CancelStep(t) PROVE QueueEffect
    <2>1. CASE CancelRemove(t)
      <3>1. PICK kept \in SUBSET (0..MaxRetries) :
              queue' = [queue EXCEPT ![t] =
                          [n \in 0..MaxRetries |->
                             IF n \in kept THEN queue[t][n] ELSE 0]]
        BY <2>1, Zenon DEF CancelRemove
      <3>2. \A u \in Tasks \ {t} : queue'[u] = queue[u]
        BY <1>0, <3>1 DEF Queues
      <3>3. \A n \in 0..MaxRetries : queue'[t][n] > 0 => queue[t][n] > 0
        BY <1>0, <3>1 DEF Queues
      <3> QED BY <3>2, <3>3 DEF QueueEffect, Queued
    <2> QED
      BY <1>1, <1>3, <2>1
      DEF CancelStep, CancelRevoke, CancelCommit, CancelPublish, broker
  <1>4. ASSUME NEW r \in Runners, BodyStep(r) PROVE QueueEffect
    BY <1>1, <1>4
    DEF BodyStep, PreCheck, MarkProcessing, FetchFiles, GradeSingle, LogRejection,
        GradeItem, CheckCancelled, Commit, Publish, Ack, broker
  <1>5. ASSUME NEW r \in Runners, HandlerStep(r) PROVE QueueEffect
    <2>1. CASE ScheduleRetry(r)
      <3>1. run[r].pc = "retry" /\ run[r].task \in Tasks
        BY <2>1 DEF ScheduleRetry, TypeInv, Placed
      <3>2. Enqueues(run[r].task)
        BY <3>1 DEF Enqueues
      <3>3. NextRetry(r) \in 0..MaxRetries
        BY <3>1, LifecycleAssumption
        DEF LifecycleAssumption, NextRetry, TypeInv, TypeOK, Placed, Attempts
      <3> QED
        BY <1>0, <1>1, <2>1, <3>1, <3>2, <3>3, EnqueueEffect DEF ScheduleRetry
    <2> QED
      BY <1>1, <1>5, <2>1
      DEF HandlerStep, RejectLog, RejectSave, RejectCommit, MarkFailed, CleanUpFiles,
          RouteToDlq, broker
  <1>6. ASSUME NEW r \in Runners, Disturbance(r) PROVE QueueEffect
    BY <1>1, <1>6 DEF Disturbance, ShortCircuit, StepRaises, HandlerRaises, broker
  <1>7. ASSUME NEW w \in Workers, WorkerFault(w) PROVE QueueEffect
    <2>1. CASE WorkerCrash(w)
      <3>1. w \in Runners /\ run[w].pc # "idle"
        BY <2>1 DEF WorkerCrash, Runners
      <3>2. run[w].task \in Tasks /\ run[w].retries \in 0..MaxRetries
        BY <3>1 DEF TypeInv, TypeOK, Placed, Attempts
      <3>3. Enqueues(run[w].task)
        BY <3>1 DEF Enqueues
      <3> QED BY <1>0, <2>1, <3>2, <3>3, EnqueueEffect DEF WorkerCrash
    <2> QED
      BY <1>1, <1>7, <2>1 DEF WorkerFault, SoftTimeLimit, HardTimeLimit, broker
  <1>8. ASSUME NEW t \in Tasks, NEW n \in 0..MaxRetries,
               DiscardRevoked(t, n) \/ \E w \in Workers : Deliver(w, t, n)
        PROVE  QueueEffect
    BY <1>0, <1>8, DequeueEffect DEF DiscardRevoked, Deliver
  <1>9. ASSUME NEW t \in Tasks, ReplayEnqueue(t) PROVE QueueEffect
    BY <1>0, <1>9, EnqueueEffect DEF ReplayEnqueue, Enqueues
  <1>10. ASSUME NEW t \in Tasks,
                \/ Submit(t) \/ CancelRead(t) \/ SweepProcessing(t) \/ SweepPending(t)
                \/ UploadsAge(t) \/ TtlCleanup(t) \/ ReplayRemove(t)
         PROVE  QueueEffect
    BY <1>1, <1>10
    DEF Submit, CancelRead, SweepProcessing, SweepPending, UploadsAge, TtlCleanup,
        ReplayRemove, broker
  <1>11. CASE UNCHANGED vars \/ PurgeDlq \/ ApiCrash
    BY <1>1, <1>11 DEF vars, PurgeDlq, ApiCrash, broker
  <1> QED
    BY <1>2, <1>3, <1>4, <1>5, <1>6, <1>7, <1>8, <1>9, <1>10, <1>11 DEF Next
-----------------------------------------------------------------------------
(***************************************************************************)
(* The invariant is inductive.                                             *)
(***************************************************************************)
LEMMA BegunStep == SafeInv /\ [Next]_vars => Begun'
  <1> SUFFICES ASSUME SafeInv, [Next]_vars PROVE Begun'
    OBVIOUS
  <1>0. TypeInv /\ Begun /\ DeadLetterIsFinal
    BY DEF SafeInv
  <1>1. ASSUME NEW t \in Tasks
        PROVE  (api'[t] = "none") <=> (task'[t].status = Absent)
    <2>1. Submit(t) => task'[t].status = "PENDING"
      BY <1>0 DEF Submit, TypeInv, TypeOK, NoRow
    <2>2. (api'[t] = "none") <=> (api[t] = "none" /\ ~Submit(t))
      BY <1>0, ApiStays
    <2>3. /\ task[t].status # Absent => task'[t].status # Absent
          /\ task[t].status = Absent /\ task'[t].status # Absent => Submit(t)
      BY <1>0, FinalStays
    <2>4. (api[t] = "none") <=> (task[t].status = Absent)
      BY <1>0 DEF Begun
    <2> QED BY <2>1, <2>2, <2>3, <2>4 DEF Absent
  <1>2. ASSUME NEW t \in Tasks, api[t] # "none" PROVE api'[t] # "none"
    BY <1>0, <1>2, ApiStays
  <1>3. ASSUME NEW t \in Tasks, Queued(t)' PROVE api'[t] # "none"
    <2>1. Queued(t) \/ Enqueues(t)
      BY <1>0, <1>3, QueueEffectHolds DEF QueueEffect
    <2>2. dlq[t] > 0 => api[t] # "none"
      BY <1>0 DEF DeadLetterIsFinal, Begun, Final, Absent
    <2> QED BY <1>0, <1>2, <2>1, <2>2 DEF Enqueues, Begun
  <1>4. ASSUME NEW r \in Runners, run'[r].pc # "idle" PROVE api'[run'[r].task] # "none"
    <2>1. RunEffect(r)
      BY <1>0, RunEffectHolds
    <2>2. CASE run'[r] = run[r] \/ KeepsTask(r)
      <3>1. run[r].pc # "idle" /\ run'[r].task = run[r].task /\ run[r].task \in Tasks
        BY <1>0, <1>4, <2>2 DEF KeepsTask, TypeInv, Placed
      <3> QED BY <1>0, <1>2, <3>1 DEF Begun
    <2>3. CASE TakesUp(r)
      BY <1>0, <1>2, <2>3 DEF TakesUp, Begun
    <2> QED BY <1>4, <2>1, <2>2, <2>3 DEF RunEffect
  <1> QED BY <1>1, <1>3, <1>4 DEF Begun

LEMMA DoomedStep == SafeInv /\ [Next]_vars => Doomed'
  <1> SUFFICES ASSUME SafeInv, [Next]_vars, NEW r \in Runners, run'[r].pc \in DoomedPcs
               PROVE  task'[run'[r].task].status \in Final
    BY DEF Doomed
  <1>0. TypeInv /\ Begun /\ Doomed
    BY DEF SafeInv
  <1>1. RunEffect(r) /\ run'[r].pc # "idle"
    BY <1>0, RunEffectHolds DEF DoomedPcs
  <1>2. CASE run[r].pc \in DoomedPcs /\ run'[r].task = run[r].task
    <2>1. run[r].task \in Tasks /\ task[run[r].task].status \in Final
      BY <1>0, <1>2 DEF Doomed, DoomedPcs, TypeInv, Placed
    <2> QED BY <1>0, <1>2, <2>1, FinalStays
  <1>3. CASE KeepsTask(r) /\ MarkFailed(r)
    <2> DEFINE t == run[r].task
    <2>1. t \in Tasks /\ task[t].status # Absent /\ run'[r].task = t
      BY <1>0, <1>3 DEF KeepsTask, TypeInv, Placed, Begun
    <2>2. task \in [Tasks -> Columns] /\ task[t].status \in Statuses
      BY <1>0, <2>1 DEF TypeInv, TypeOK, Columns
    <2>3. Failed(t).status = "FAILED"
      BY <2>1, <2>2, NewStatus
    <2>4. CASE Outranks("FAILED", task[t].status)
      BY <1>3, <2>1, <2>2, <2>3, <2>4 DEF MarkFailed, UpdateTaskStatus, Final
    <2>5. CASE ~Outranks("FAILED", task[t].status)
      <3>1. task[t].status \in Final
        BY <2>2, <2>5 DEF Outranks, Weight, Statuses, Final
      <3> QED BY <1>0, <2>1, <3>1, FinalStays
    <2> QED BY <2>4, <2>5
  <1> QED BY <1>1, <1>2, <1>3 DEF RunEffect, TakesUp, KeepsTask

LEMMA FilesKeptStep == SafeInv /\ [Next]_vars => FilesKept'
  <1> SUFFICES ASSUME SafeInv, [Next]_vars,
                      NEW t \in Tasks, api'[t] # "none", ~files'[t]
               PROVE  task'[t].status \in Final \/ aged'[t]
    BY DEF FilesKept
  <1>0. /\ TypeInv /\ Begun /\ Doomed /\ FilesKept
        /\ files \in [Tasks -> BOOLEAN] /\ aged \in [Tasks -> BOOLEAN]
    BY DEF SafeInv, TypeInv, TypeOK
  <1>1. ~Submit(t)
    BY <1>0 DEF Submit
  <1>2. api[t] # "none"
    BY <1>0, <1>1, ApiStays
  <1>3. CASE ~files[t]
    <2>1. task[t].status \in Final \/ aged[t]
      BY <1>0, <1>2, <1>3 DEF FilesKept
    <2>2. aged[t] => aged'[t]
      BY <1>0, AgedFrame DEF UploadsAge
    <2> QED BY <1>0, <2>1, <2>2, FinalStays
  <1>4. CASE files[t]
    <2>1. CASE \E u \in Tasks : TtlCleanup(u)
      BY <1>0, <1>4, <2>1 DEF TtlCleanup
    <2>2. ASSUME NEW r \in Runners, CleanUpFiles(r) PROVE task'[t].status \in Final
      <3>1. run[r].pc = "cleanup" /\ run[r].task = t
        BY <1>0, <1>4, <2>2 DEF CleanUpFiles
      <3>2. task[t].status \in Final
        BY <1>0, <3>1 DEF Doomed, DoomedPcs
      <3> QED BY <1>0, <3>2, FinalStays
    <2>3. ~\E u \in Tasks : Submit(u) /\ u # t
      BY <1>0, <1>4 DEF Submit
    <2> QED BY <1>1, <1>4, <2>1, <2>2, <2>3, FilesFrame DEF FilesWriter
  <1> QED BY <1>3, <1>4

LEMMA DeadLetterStep == SafeInv /\ [Next]_vars => DeadLetterIsFinal'
  <1> SUFFICES ASSUME SafeInv, [Next]_vars, NEW t \in Tasks, dlq'[t] > 0
               PROVE  task'[t].status \in Final
    BY DEF DeadLetterIsFinal
  <1>0. TypeInv /\ Begun /\ Doomed /\ DeadLetterIsFinal /\ dlq \in [Tasks -> Nat]
    BY DEF SafeInv, TypeInv, TypeOK
  <1>1. CASE dlq[t] > 0
    BY <1>0, <1>1, FinalStays DEF DeadLetterIsFinal
  <1>2. CASE ~(dlq[t] > 0)
    <2>1. ~PurgeDlq /\ \A u \in Tasks : ~ReplayRemove(u)
      BY <1>0, <1>2 DEF PurgeDlq, ReplayRemove
    <2>2. PICK r \in Runners : RouteToDlq(r)
      BY <1>2, <2>1, DlqFrame DEF DlqWriter
    <2>3. run[r].pc = "deadletter" /\ run[r].task = t
      BY <1>0, <1>2, <2>2 DEF RouteToDlq
    <2>4. task[t].status \in Final
      BY <1>0, <2>3 DEF Doomed, DoomedPcs
    <2> QED BY <1>0, <2>4, FinalStays
  <1> QED BY <1>1, <1>2

LEMMA SafeInvStep == SafeInv /\ [Next]_vars => SafeInv'
  BY TypeInvStep, BegunStep, DoomedStep, FilesKeptStep, DeadLetterStep DEF SafeInv

(* Uploads of a COMPLETED task stay for as long as uploads are kept: both  *)
(* except blocks of grade_homework_task record FAILED before they clean    *)
(* up, the weights keep a FAILED row from ever showing as COMPLETED again, *)
(* and the daily cleanup removes only what is older than the limit.        *)
THEOREM FilesOfCompletedTasks == Spec => []CompletedKeepsFiles
  <1>1. SafeInv => CompletedKeepsFiles
    BY DEF SafeInv, Begun, FilesKept, CompletedKeepsFiles, Final, Absent
  <1> QED BY <1>1, InitSafeInv, SafeInvStep, PTL DEF Spec

(* Whatever is in the dead letter queue has failed or was cancelled, also  *)
(* while its message is redelivered, replayed or run twice.                *)
THEOREM DeadLettersAreFinal == Spec => []DeadLetterIsFinal
  <1>1. SafeInv => DeadLetterIsFinal
    BY DEF SafeInv
  <1> QED BY <1>1, InitSafeInv, SafeInvStep, PTL DEF Spec

LEMMA StoreStep == SafeInv /\ [Next]_vars => [Store!Next]_statusOf
  <1> SUFFICES ASSUME SafeInv, [Next]_vars PROVE [Store!Next]_statusOf
    OBVIOUS
  <1>0. TypeInv /\ Begun
    BY DEF SafeInv
  <1>1. CASE \A u \in Tasks : task'[u].status = task[u].status
    BY <1>1 DEF statusOf
  <1>2. ASSUME NEW t \in Tasks, Moves(t) PROVE Store!Next
    <2>1. statusOf' = [statusOf EXCEPT ![t] = task'[t].status]
      BY <1>2 DEF statusOf, Moves
    <2>2. statusOf[t] = task[t].status
      BY DEF statusOf
    <2>3. CASE Submit(t)
      <3>1. task[t].status = Absent /\ task'[t].status = "PENDING"
        BY <1>0, <2>3 DEF Submit, Begun, TypeInv, TypeOK, NoRow
      <3>2. Store!Create(t)
        BY <2>1, <2>2, <3>1 DEF Store!Create, Absent, Store!Absent
      <3> QED BY <3>2 DEF Store!Next
    <2>4. CASE /\ task'[t].status \in Statuses
               /\ Outranks(task'[t].status, task[t].status)
      <3>1. Store!Advance(t, task'[t].status)
        BY <2>1, <2>2, <2>4
        DEF Store!Advance, Outranks, Store!Outranks, Weight, Store!Weight, Statuses,
            Store!Statuses
      <3> QED BY <2>4, <3>1 DEF Store!Next, Store!Statuses, Statuses
    <2> QED BY <1>2, <2>3, <2>4 DEF Moves
  <1> QED BY <1>0, <1>1, <1>2, StatusStepHolds DEF StatusStep

(* All writers of tasks.status together implement TaskStatus: a row is     *)
(* created once, and its status only ever gains weight.                    *)
THEOREM StoreImplemented == Spec => StoreSpec
  <1>1. Init => Store!Init
    BY DEF Init, Store!Init, NoRow, statusOf, Absent, Store!Absent
  <1> QED BY <1>1, InitSafeInv, SafeInvStep, StoreStep, PTL DEF Spec, StoreSpec, Store!Spec
=============================================================================
