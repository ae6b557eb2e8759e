--------------------- MODULE TaskLifecycleResults_proofs ---------------------
(***************************************************************************)
(* What a finished task has to show: its results, its hygiene record, and  *)
(* that cancellations and orphan sweeps end what they claim to end; and    *)
(* that the lifecycle implements the contract of module GradedTask.        *)
(***************************************************************************)
EXTENDS TaskLifecycleSafety_proofs

(***************************************************************************)
(* What a step does to a row of the task store.                            *)
(***************************************************************************)
Completes(t) ==
  \E r \in Runners :
    /\ run[r].task = t
    /\ Outranks("COMPLETED", task[t].status)
    /\ \/ Commit(r) /\ task'[t] = Completed(t, run[r].verdicts)
       \/ RejectCommit(r)

RowEffect(t) ==
  /\ \/ task'[t].celeryId = task[t].celeryId
     \/ Submit(t) \/ RecordCeleryId(t)
  /\ task'[t].fallback = "QUEUE_STALE_ORPHAN" =>
       task[t].fallback = "QUEUE_STALE_ORPHAN" \/ SweepPending(t)
  /\ task'[t].status = "COMPLETED" =>
       \/ /\ task[t].status = "COMPLETED"
          /\ task'[t].grading = task[t].grading
          /\ task'[t].fallback = task[t].fallback
       \/ Completes(t)

(* What the values the handlers write keep of the row they read.           *)
LEMMA NewColumns ==
  ASSUME task \in [Tasks -> Columns], NEW t \in Tasks, NEW V \in SUBSET Verdicts
  PROVE  /\ \A row \in {[task[t] EXCEPT !.status = "PROCESSING"], Failed(t)} :
              /\ row.status # "COMPLETED"
              /\ row.celeryId = task[t].celeryId
              /\ row.fallback = task[t].fallback
         /\ Cancelled(t).status # "COMPLETED"
         /\ Cancelled(t).celeryId = task[t].celeryId
         /\ Cancelled(t).fallback = "TEACHER_CANCELLED"
         /\ Completed(t, V).celeryId = task[t].celeryId
         /\ Completed(t, V).fallback = task[t].fallback
         /\ Completed(t, V).grading = GradingOf(V)
         /\ Rejected(t).celeryId = task[t].celeryId
         /\ Rejected(t).fallback = "PERCEPTION_SHORT_CIRCUIT"
  BY DEF Columns, Failed, Completed, Rejected, Cancelled

LEMMA UpdateRow ==
  ASSUME task \in [Tasks -> Columns], NEW t \in Tasks, NEW new \in Columns,
         UpdateTaskStatus(t, new)
  PROVE  \A u \in Tasks :
           task'[u] # task[u] =>
             u = t /\ task'[u] = new /\ Outranks(new.status, task[t].status)
  BY DEF UpdateTaskStatus

LEMMA RowEffectHolds ==
  ASSUME TypeInv, [Next]_vars
  PROVE  \A t \in Tasks : RowEffect(t)
  <1> DEFINE Goal == \A t \in Tasks : RowEffect(t)
  <1>0. task \in [Tasks -> Columns]
    BY DEF TypeInv, TypeOK
  <1>a. ASSUME NEW u \in Tasks, task'[u] = task[u] PROVE RowEffect(u)
    BY <1>a DEF RowEffect
  <1>1. CASE UNCHANGED task
    BY <1>1, <1>a
  <1>2. ASSUME NEW t \in Tasks, Submit(t) PROVE Goal
    <2>1. \A u \in Tasks \ {t} : task'[u] = task[u]
      BY <1>0, <1>2 DEF Submit
    <2>2. task'[t].status = "PENDING" /\ task'[t].fallback = "null"
      BY <1>0, <1>2 DEF Submit, NoRow
    <2>3. RowEffect(t)
      BY <1>2, <2>2 DEF RowEffect
    <2> QED BY <1>a, <2>1, <2>3
  <1>3. ASSUME NEW t \in Tasks, RecordCeleryId(t) PROVE Goal
    <2>1. \A u \in Tasks \ {t} : task'[u] = task[u]
      BY <1>0, <1>3 DEF RecordCeleryId
    <2>2. /\ task'[t].status = task[t].status
          /\ task'[t].grading = task[t].grading
          /\ task'[t].fallback = task[t].fallback
      BY <1>0, <1>3 DEF RecordCeleryId, Columns
    <2>3. RowEffect(t)
      BY <1>3, <2>2 DEF RowEffect
    <2> QED BY <1>a, <2>1, <2>3
  <1>4. ASSUME NEW t \in Tasks, CancelCommit(t) PROVE Goal
    <2>1. Cancelled(t) \in Columns
      BY <1>0, RowType
    <2>2. \A u \in Tasks : task'[u] # task[u] => u = t /\ task'[u] = Cancelled(t)
      BY <1>0, <1>4, <2>1, UpdateRow DEF CancelCommit
    <2>3. task'[t] = Cancelled(t) => RowEffect(t)
      BY <1>0, NewColumns DEF RowEffect
    <2> QED BY <1>a, <2>2, <2>3
  <1>5. ASSUME NEW t \in Tasks, SweepProcessing(t) \/ SweepPending(t) PROVE Goal
    <2>1. \A u \in Tasks \ {t} : task'[u] = task[u]
      BY <1>0, <1>5 DEF SweepProcessing, SweepPending
    <2>2. /\ task'[t].status = "FAILED"
          /\ task'[t].celeryId = task[t].celeryId
          /\ SweepProcessing(t) => task'[t].fallback = "WORKER_TIMEOUT"
      BY <1>0, <1>5 DEF SweepProcessing, SweepPending, Columns
    <2>3. RowEffect(t)
      BY <1>5, <2>2 DEF RowEffect
    <2> QED BY <1>a, <2>1, <2>3
  <1>6. ASSUME NEW r \in Runners,
               MarkProcessing(r) \/ Commit(r) \/ RejectCommit(r) \/ MarkFailed(r)
        PROVE  Goal
    <2> DEFINE t == run[r].task
    <2>1. t \in Tasks /\ run[r].verdicts \in SUBSET Verdicts
      BY <1>6
      DEF TypeInv, TypeOK, Placed, Attempts, MarkProcessing, Commit, RejectCommit,
          MarkFailed
    <2> DEFINE Written(row) ==
                 \A u \in Tasks :
                   task'[u] # task[u] =>
                     u = t /\ task'[u] = row /\ Outranks(row.status, task[t].status)
    <2>2. CASE MarkProcessing(r)
      <3> DEFINE row == [task[t] EXCEPT !.status = "PROCESSING"]
      <3>1. Written(row)
        <4>1. row \in Columns
          BY <1>0, <2>1, RowType
        <4>2. UpdateTaskStatus(t, row)
          BY <2>2, Zenon DEF MarkProcessing
        <4> HIDE DEF row
        <4> QED BY <1>0, <2>1, <4>1, <4>2, UpdateRow
      <3>2. task'[t] = row => RowEffect(t)
        BY <1>0, <2>1, NewColumns DEF RowEffect
      <3> QED BY <1>a, <3>1, <3>2
    <2>3. CASE MarkFailed(r)
      <3>1. Written(Failed(t))
        BY <1>0, <2>1, <2>3, RowType, UpdateRow DEF MarkFailed
      <3>2. task'[t] = Failed(t) => RowEffect(t)
        BY <1>0, <2>1, NewColumns DEF RowEffect
      <3> QED BY <1>a, <3>1, <3>2
    <2>4. CASE Commit(r)
      <3> DEFINE row == Completed(t, run[r].verdicts)
      <3>1. Written(row)
        <4>1. row \in Columns
          BY <1>0, <2>1, RowType
        <4>2. UpdateTaskStatus(t, row)
          BY <2>4, Zenon DEF Commit
        <4> HIDE DEF row
        <4> QED BY <1>0, <2>1, <4>1, <4>2, UpdateRow
      <3>2. row.status = "COMPLETED" /\ row.celeryId = task[t].celeryId
            /\ row.fallback = task[t].fallback
        BY <1>0, <2>1, NewColumns, NewStatus
      <3>3. task'[t] = row /\ Outranks("COMPLETED", task[t].status) => RowEffect(t)
        BY <2>4, <3>2 DEF RowEffect, Completes
      <3> QED BY <1>a, <3>1, <3>2, <3>3
    <2>5. CASE RejectCommit(r)
      <3>1. Written(Rejected(t))
        BY <1>0, <2>1, <2>5, RowType, UpdateRow DEF RejectCommit
      <3>2. /\ Rejected(t).status = "COMPLETED"
            /\ Rejected(t).celeryId = task[t].celeryId
            /\ Rejected(t).fallback = "PERCEPTION_SHORT_CIRCUIT"
        BY <1>0, <2>1, NewColumns, NewStatus
      <3>3. task'[t] = Rejected(t) /\ Outranks("COMPLETED", task[t].status)
              => RowEffect(t)
        BY <2>5, <3>2 DEF RowEffect, Completes
      <3> QED BY <1>a, <3>1, <3>2, <3>3
    <2> QED BY <1>6, <2>2, <2>3, <2>4, <2>5
  <1> QED
    BY <1>1, <1>2, <1>3, <1>4, <1>5, <1>6, TaskFrame DEF TaskWriter

(***************************************************************************)
(* Results and hygiene records are never taken back.                       *)
(***************************************************************************)
(* HasResult in the state after the step.                                  *)
Holds(t, i) == \E v \in Verdicts : rows'[t][i][v] > 0

Keeps ==
  /\ \A t \in Tasks : hygiene[t] => hygiene'[t]
  /\ \A t \in Tasks, i \in 1..BatchSize : HasResult(t, i) => Holds(t, i)

LEMMA StoreResultKeeps ==
  ASSUME rows \in Counters, NEW t \in Tasks, NEW i \in 1..BatchSize,
         NEW v \in Verdicts, StoreResult(t, i, v)
  PROVE  /\ Holds(t, i)
         /\ \A u \in Tasks, j \in 1..BatchSize : HasResult(u, j) => Holds(u, j)
  <1>1. rows'[t][i][v] = rows[t][i][v] + 1 /\ rows[t][i][v] \in Nat
    BY DEF StoreResult, Counters
  <1>2. ASSUME NEW u \in Tasks, NEW j \in 1..BatchSize, NEW w \in Verdicts,
               rows[u][j][w] > 0
        PROVE  rows'[u][j][w] > 0
    <2>1. CASE u = t /\ j = i /\ w = v
      BY <1>1, <2>1
    <2>2. CASE ~(u = t /\ j = i /\ w = v)
      BY <1>2, <2>2 DEF StoreResult, Counters
    <2> QED BY <2>1, <2>2
  <1> QED BY <1>1, <1>2 DEF HasResult, Holds

LEMMA KeepsHolds ==
  ASSUME TypeInv, [Next]_vars
  PROVE  Keeps
  <1>0. /\ rows \in Counters
        /\ hygiene \in [Tasks -> BOOLEAN]
        /\ 1 \in 1..BatchSize
        /\ \A r \in Runners : run[r].pc # "idle" => run[r].task \in Tasks
    BY LifecycleAssumption DEF LifecycleAssumption, TypeInv, TypeOK, Placed
  <1>1. UNCHANGED <<rows, hygiene>> => Keeps
    BY DEF Keeps, Holds, HasResult
  <1>2. ASSUME NEW t \in Tasks, SubmitStep(t) PROVE Keeps
    BY <1>1, <1>2
    DEF SubmitStep, RubricMissing, DispatchToBroker, DispatchLocally, RecordCeleryId,
        store
  <1>3. ASSUME NEW t \in Tasks, CancelStep(t) PROVE Keeps
    BY <1>1, <1>3
    DEF CancelStep, CancelRevoke, CancelRemove, CancelCommit, CancelPublish, store
  <1>4. ASSUME NEW r \in Runners, BodyStep(r) PROVE Keeps
    <2>1. ASSUME NEW v \in Outcomes, GradeSingle(r, v) PROVE Keeps
      <3>1. v \in Verdicts /\ run[r].task \in Tasks
        BY <1>0, <2>1, LifecycleAssumption DEF LifecycleAssumption, GradeSingle
      <3>2. UNCHANGED hygiene
        BY <2>1 DEF GradeSingle
      <3> QED BY <1>0, <2>1, <3>1, <3>2, StoreResultKeeps DEF GradeSingle, Keeps
    <2>2. ASSUME NEW i \in 1..BatchSize, NEW v \in Outcomes, GradeItem(r, i, v)
          PROVE  Keeps
      <3>1. v \in Verdicts /\ run[r].task \in Tasks
        BY <1>0, <2>2, LifecycleAssumption DEF LifecycleAssumption, GradeItem
      <3>2. \A t \in Tasks : hygiene[t] => hygiene'[t]
        BY <1>0, <2>2 DEF GradeItem, LogIfRejected
      <3> QED BY <1>0, <2>2, <3>1, <3>2, StoreResultKeeps DEF GradeItem, Keeps
    <2>3. CASE LogRejection(r)
      BY <1>0, <2>3 DEF LogRejection, Keeps, Holds, HasResult
    <2> QED
      BY <1>1, <1>4, <2>1, <2>2, <2>3
      DEF BodyStep, PreCheck, MarkProcessing, FetchFiles, CheckCancelled, Commit,
          Publish, Ack, store
  <1>5. ASSUME NEW r \in Runners, HandlerStep(r) PROVE Keeps
    <2>1. CASE RejectLog(r)
      BY <1>0, <2>1 DEF RejectLog, Keeps, Holds, HasResult
    <2>2. CASE RejectSave(r)
      <3>1. "rejected" \in Verdicts /\ run[r].task \in Tasks
        BY <1>0, <2>2 DEF Verdicts, RejectSave
      <3>2. UNCHANGED hygiene
        BY <2>2 DEF RejectSave
      <3> QED BY <1>0, <1>1, <2>2, <3>1, <3>2, StoreResultKeeps DEF RejectSave, Keeps
    <2> QED
      BY <1>1, <1>5, <2>1, <2>2
      DEF HandlerStep, RejectCommit, MarkFailed, ScheduleRetry, CleanUpFiles,
          RouteToDlq, store
  <1>6. ASSUME NEW r \in Runners, Disturbance(r) PROVE Keeps
    BY <1>1, <1>6 DEF Disturbance, ShortCircuit, StepRaises, HandlerRaises, store
  <1>7. ASSUME NEW w \in Workers, WorkerFault(w) PROVE Keeps
    BY <1>1, <1>7 DEF WorkerFault, SoftTimeLimit, HardTimeLimit, WorkerCrash, store
  <1>8. CASE UNCHANGED vars
    BY <1>1, <1>8 DEF vars, store
  <1> QED
    BY <1>1, <1>2, <1>3, <1>4, <1>5, <1>6, <1>7, <1>8
    DEF Next, Submit, CancelRead, SweepProcessing, SweepPending, UploadsAge, TtlCleanup,
        ReplayEnqueue, ReplayRemove, DiscardRevoked, Deliver, ApiCrash, PurgeDlq, store

(***************************************************************************)
(* How an attempt goes on: what it has stored and which verdicts it has    *)
(* seen change only when it grades, and only while it is in its try body.  *)
(***************************************************************************)
Owing == BodyPcs \cup {"reject_save", "reject_commit"}

SameWork(r) ==
  /\ run'[r].task = run[r].task
  /\ run'[r].done = run[r].done
  /\ run'[r].verdicts = run[r].verdicts

Begins(r) ==
  run'[r].pc = "precheck" /\ run'[r].done = {} /\ run'[r].verdicts = {}

GoesOn(r) ==
  /\ run[r].pc \in BodyPcs \ {"hygiene"}
  /\ run'[r].pc \in BodyPcs \ {"hygiene", "commit", "precheck"}
  /\ run[r].pc = "precheck" => PreCheck(r)
  /\ SameWork(r)

Grades(r) == \/ \E v \in Outcomes : GradeSingle(r, v)
             \/ \E i \in 1..BatchSize, v \in Outcomes : GradeItem(r, i, v)

AttemptEffect(r) ==
  \/ run'[r] = run[r]
  \/ run'[r].pc \notin Owing
  \/ Begins(r)
  \/ GoesOn(r)
  \/ Grades(r)
  \/ CheckCancelled(r) /\ task[run[r].task].status = "CANCELLED" /\ SameWork(r)
  \/ LogRejection(r) /\ SameWork(r)
  \/ RejectLog(r) /\ SameWork(r) /\ run'[r].pc = "reject_save"
  \/ RejectSave(r) /\ SameWork(r) /\ run'[r].pc = "reject_commit"

LEMMA GotoWork ==
  ASSUME TypeInv, NEW r \in Runners, NEW pc \in RunPcs, Goto(r, pc)
  PROVE  /\ \A q \in Runners \ {r} : run'[q] = run[q]
         /\ run'[r].pc = pc
         /\ SameWork(r)
  BY GotoType DEF TypeInv, TypeOK, SameWork

LEMMA LeavesEffect ==
  ASSUME TypeInv, NEW r \in Runners, NEW pc \in RunPcs \ Owing, Goto(r, pc)
  PROVE  \A q \in Runners : AttemptEffect(q)
  BY GotoWork DEF AttemptEffect

LEMMA GoesOnEffect ==
  ASSUME TypeInv, NEW r \in Runners, NEW pc \in RunPcs, Goto(r, pc),
         run[r].pc \in BodyPcs \ {"hygiene"},
         pc \in BodyPcs \ {"hygiene", "commit", "precheck"},
         run[r].pc = "precheck" => PreCheck(r)
  PROVE  \A q \in Runners : AttemptEffect(q)
  BY GotoWork DEF AttemptEffect, GoesOn

LEMMA BeginsEffect ==
  ASSUME TypeInv, NEW r \in Runners, NEW t \in Tasks, NEW n \in 0..MaxRetries,
         run' = [run EXCEPT ![r] = Attempt(t, n)]
  PROVE  \A q \in Runners : AttemptEffect(q)
  <1>1. run'[r] = Attempt(t, n) /\ \A q \in Runners \ {r} : run'[q] = run[q]
    BY DEF TypeInv, TypeOK
  <1> QED BY <1>1, AttemptType DEF AttemptEffect, Begins

LEMMA EndsEffect ==
  ASSUME \A q \in Runners : run'[q] = run[q] \/ run'[q] = Idle
  PROVE  \A q \in Runners : AttemptEffect(q)
  BY IdleType DEF AttemptEffect, Owing, BodyPcs

LEMMA AttemptEffectHolds ==
  ASSUME TypeInv, [Next]_vars
  PROVE  \A q \in Runners : AttemptEffect(q)
  <1> DEFINE Goal == \A q \in Runners : AttemptEffect(q)
  <1>0. run \in [Runners -> Attempts]
    BY DEF TypeInv, TypeOK
  <1>1. UNCHANGED run => Goal
    BY DEF AttemptEffect
  <1> HIDE DEF Goal
  <1>2. ASSUME NEW t \in Tasks, SubmitStep(t) PROVE Goal
    <2>1. CASE RecordCeleryId(t)
      <3>1. t \in Runners /\ 0 \in 0..MaxRetries
        BY LifecycleAssumption DEF LifecycleAssumption, Runners
      <3>2. UNCHANGED run \/ run' = [run EXCEPT ![t] = Attempt(t, 0)]
        BY <2>1 DEF RecordCeleryId
      <3> QED BY <1>1, <3>1, <3>2, BeginsEffect DEF Goal
    <2> QED
      BY <1>1, <1>2, <2>1
      DEF SubmitStep, RubricMissing, DispatchToBroker, DispatchLocally
  <1>3. ASSUME NEW t \in Tasks, CancelStep(t) PROVE Goal
    <2>1. CASE CancelRevoke(t)
      BY <1>0, <2>1, EndsEffect DEF CancelRevoke, Goal
    <2> QED
      BY <1>1, <1>3, <2>1
      DEF CancelStep, CancelRemove, CancelCommit, CancelPublish
  <1>4. ASSUME NEW r \in Runners, BodyStep(r) PROVE Goal
    <2>0. /\ {"mark", "fetch", "grade", "publish"} \subseteq
               BodyPcs \ {"hygiene", "commit", "precheck"}
          /\ BodyPcs \cup {"ack", "fail"} \subseteq RunPcs
          /\ {"ack", "fail"} \cap Owing = {}
          /\ {"precheck", "mark", "fetch", "grade", "check", "commit"} \subseteq
               BodyPcs \ {"hygiene"}
      BY DEF BodyPcs, RunPcs, Owing, HandlerPcs
    <2>1. CASE Ack(r)
      BY <1>0, <2>1, EndsEffect DEF Ack, Goal
    <2>2. CASE PreCheck(r)
      <3>1. CASE Goto(r, "ack")
        BY <2>0, <3>1, LeavesEffect DEF Goal
      <3>2. CASE Goto(r, "mark")
        BY <2>0, <2>2, <3>2, GoesOnEffect DEF PreCheck, Goal
      <3> QED BY <2>2, <3>1, <3>2 DEF PreCheck
    <2>3. CASE MarkProcessing(r)
      <3>1. run[r].pc = "mark" /\ Goto(r, "fetch")
        BY <2>3 DEF MarkProcessing
      <3> QED BY <2>0, <3>1, GoesOnEffect DEF Goal
    <2>4. CASE FetchFiles(r)
      <3>1. run[r].pc = "fetch" /\ (Goto(r, "grade") \/ Goto(r, "fail"))
        BY <2>4 DEF FetchFiles
      <3> QED BY <2>0, <3>1, GoesOnEffect, LeavesEffect DEF Goal
    <2>5. CASE Grades(r)
      <3>1. \A q \in Runners \ {r} : run'[q] = run[q]
        BY <1>0, <2>5 DEF Grades, GradeSingle, GradeItem
      <3> QED BY <2>5, <3>1 DEF Goal, AttemptEffect
    <2>6. CASE LogRejection(r)
      <3>1. Goto(r, "commit")
        BY <2>6 DEF LogRejection
      <3> QED BY <2>0, <2>6, <3>1, GotoWork DEF Goal, AttemptEffect
    <2>7. CASE CheckCancelled(r)
      <3>1. run[r].pc = "check"
        BY <2>7 DEF CheckCancelled
      <3>2. CASE task[run[r].task].status = "CANCELLED" /\ Goto(r, "commit")
        BY <2>0, <2>7, <3>2, GotoWork DEF Goal, AttemptEffect
      <3>3. CASE Goto(r, "grade")
        BY <2>0, <3>1, <3>3, GoesOnEffect DEF Goal
      <3> QED BY <2>7, <3>2, <3>3 DEF CheckCancelled
    <2>8. CASE Commit(r)
      <3>1. run[r].pc = "commit" /\ Goto(r, "publish")
        BY <2>8 DEF Commit
      <3> QED BY <2>0, <3>1, GoesOnEffect DEF Goal
    <2>9. CASE Publish(r)
      BY <2>0, <2>9, LeavesEffect DEF Publish, Goal
    <2> QED
      BY <1>4, <2>1, <2>2, <2>3, <2>4, <2>5, <2>6, <2>7, <2>8, <2>9
      DEF BodyStep, Grades
  <1>5. ASSUME NEW r \in Runners, HandlerStep(r) PROVE Goal
    <2>0. /\ {"ack", "retry", "cleanup", "deadletter"} \subseteq RunPcs \ Owing
          /\ {"reject_save", "reject_commit"} \subseteq RunPcs
      BY DEF BodyPcs, RunPcs, Owing, HandlerPcs
    <2>1. CASE RejectLog(r)
      <3>1. Goto(r, "reject_save")
        BY <2>1 DEF RejectLog
      <3> QED BY <2>0, <2>1, <3>1, GotoWork DEF Goal, AttemptEffect
    <2>2. CASE RejectSave(r)
      <3>1. Goto(r, "reject_commit")
        BY <2>2 DEF RejectSave
      <3> QED BY <2>0, <2>2, <3>1, GotoWork DEF Goal, AttemptEffect
    <2>3. CASE ScheduleRetry(r)
      <3>1. CASE Goto(r, "ack")
        BY <2>0, <3>1, LeavesEffect DEF Goal
      <3>2. CASE run' = [run EXCEPT ![r] = Attempt(run[r].task, NextRetry(r))]
        <4>1. run[r].task \in Tasks /\ NextRetry(r) \in 0..MaxRetries
          BY <1>0, <2>3, LifecycleAssumption
          DEF LifecycleAssumption, ScheduleRetry, NextRetry, TypeInv, Placed, Attempts
        <4> QED BY <3>2, <4>1, BeginsEffect DEF Goal
      <3> QED BY <2>3, <3>1, <3>2 DEF ScheduleRetry
    <2>4. CASE RejectCommit(r) \/ MarkFailed(r) \/ CleanUpFiles(r) \/ RouteToDlq(r)
      <3>1. PICK pc \in {"ack", "retry", "cleanup", "deadletter"} : Goto(r, pc)
        BY <2>4 DEF RejectCommit, MarkFailed, CleanUpFiles, RouteToDlq
      <3> QED BY <2>0, <3>1, LeavesEffect DEF Goal
    <2> QED BY <1>5, <2>1, <2>2, <2>3, <2>4 DEF HandlerStep
  <1>6. ASSUME NEW r \in Runners, Disturbance(r) PROVE Goal
    <2>1. PICK pc \in {"reject_log", "fail", "ack"} : Goto(r, pc)
      BY <1>6 DEF Disturbance, ShortCircuit, StepRaises, HandlerRaises
    <2>2. pc \in RunPcs \ Owing
      BY DEF RunPcs, BodyPcs, HandlerPcs, Owing
    <2> QED BY <2>1, <2>2, LeavesEffect DEF Goal
  <1>7. ASSUME NEW w \in Workers, WorkerFault(w) PROVE Goal
    <2>1. CASE SoftTimeLimit(w)
      <3>1. w \in Runners /\ "timeout" \in RunPcs \ Owing
        BY DEF Runners, RunPcs, BodyPcs, HandlerPcs, Owing
      <3> QED BY <2>1, <3>1, LeavesEffect DEF Goal, SoftTimeLimit
    <2>2. CASE HardTimeLimit(w) \/ WorkerCrash(w)
      BY <1>0, <2>2, EndsEffect DEF HardTimeLimit, WorkerCrash, Goal
    <2> QED BY <1>7, <2>1, <2>2 DEF WorkerFault
  <1>8. ASSUME NEW w \in Workers, NEW t \in Tasks, NEW n \in 0..MaxRetries,
               Deliver(w, t, n)
        PROVE  Goal
    <2>1. w \in Runners
      BY DEF Runners
    <2> QED BY <1>8, <2>1, BeginsEffect DEF Goal, Deliver
  <1>9. CASE ApiCrash
    BY <1>0, <1>9, EndsEffect DEF ApiCrash, Goal
  <1>10. ASSUME NEW t \in Tasks,
                \/ Submit(t) \/ CancelRead(t) \/ SweepProcessing(t) \/ SweepPending(t)
                \/ UploadsAge(t) \/ TtlCleanup(t) \/ ReplayEnqueue(t) \/ ReplayRemove(t)
                \/ \E n \in 0..MaxRetries : DiscardRevoked(t, n)
         PROVE  Goal
    BY <1>1, <1>10
    DEF Submit, CancelRead, SweepProcessing, SweepPending, UploadsAge, TtlCleanup,
        ReplayEnqueue, ReplayRemove, DiscardRevoked
  <1>11. CASE UNCHANGED vars \/ PurgeDlq
    BY <1>1, <1>11 DEF vars, PurgeDlq, Goal
  <1>12. Goal
    BY <1>2, <1>3, <1>4, <1>5, <1>6, <1>7, <1>8, <1>9, <1>10, <1>11 DEF Next, Goal
  <1> QED BY <1>12 DEF Goal

(* The workers look for a cancellation before they start; only attempts    *)
(* that share the event loop of the API process may skip the look.         *)
LEMMA CancelledIsLeft ==
  ASSUME TypeInv, [Next]_vars, NEW t \in Tasks, task[t].status = "CANCELLED",
         ~Grading(t)
  PROVE  ~Grading(t)'
  <1> SUFFICES ASSUME NEW w \in Workers, run'[w].task = t,
                      run'[w].pc \in BodyPcs \ {"precheck"}
               PROVE  FALSE
    BY DEF Grading
  <1>0. w \in Runners /\ AttemptEffect(w)
    BY AttemptEffectHolds DEF Runners
  <1>1. ~(run[w].task = t /\ run[w].pc \in BodyPcs \ {"precheck"})
    BY DEF Grading
  <1>2. run'[w] # run[w] /\ run'[w].pc \in Owing /\ ~Begins(w)
    BY <1>1 DEF Owing, Begins
  <1>3. ~GoesOn(w)
    <2> SUFFICES ASSUME GoesOn(w) PROVE FALSE
      OBVIOUS
    <2>1. run[w].task = t /\ PreCheck(w)
      BY <1>1 DEF GoesOn, SameWork
    <2>2. ~LoopBusy(w)
      BY LifecycleAssumption DEF LifecycleAssumption, LoopBusy
    <2>3. Goto(w, "ack") /\ "ack" \in RunPcs
      BY <2>1, <2>2 DEF PreCheck, RunPcs
    <2>4. run'[w].pc = "ack"
      BY <1>0, <2>3, GotoWork
    <2> QED BY <2>4 DEF BodyPcs
  <1>4. ~Grades(w)
    <2> SUFFICES ASSUME Grades(w) PROVE FALSE
      OBVIOUS
    <2>1. run[w].pc = "grade" /\ run[w] \in Attempts
      BY <1>0 DEF Grades, GradeSingle, GradeItem, TypeInv, TypeOK
    <2>2. ASSUME NEW v \in Outcomes, GradeSingle(w, v)
          PROVE  run'[w].task = run[w].task
      BY <1>0, <2>1, <2>2 DEF GradeSingle, TypeInv, TypeOK, Attempts
    <2>3. ASSUME NEW i \in 1..BatchSize, NEW v \in Outcomes, GradeItem(w, i, v)
          PROVE  run'[w].task = run[w].task
      BY <1>0, <2>1, <2>3 DEF GradeItem, TypeInv, TypeOK, Attempts
    <2> QED BY <1>1, <2>1, <2>2, <2>3 DEF Grades, BodyPcs
  <1>5. /\ ~(CheckCancelled(w) /\ SameWork(w))
        /\ ~(LogRejection(w) /\ SameWork(w))
    BY <1>1 DEF CheckCancelled, LogRejection, SameWork, BodyPcs
  <1>6. run'[w].pc # "reject_save" /\ run'[w].pc # "reject_commit"
    BY DEF BodyPcs
  <1> QED BY <1>0, <1>2, <1>3, <1>4, <1>5, <1>6 DEF AttemptEffect

(* Once a task is cancelled and no worker has begun to grade it, none ever *)
(* does: the pre-check of grade_homework_task turns away every redelivery, *)
(* retry and replay.                                                       *)
THEOREM CancellationHolds == Spec => CancelHolds
  <1>1. TypeInv /\ [Next]_vars =>
          [\A t \in Tasks :
             task[t].status = "CANCELLED" /\ ~Grading(t) => ~Grading(t)']_vars
    BY CancelledIsLeft
  <1> QED BY <1>1, InitTypeInv, TypeInvStep, PTL DEF Spec, CancelHolds
-----------------------------------------------------------------------------
(***************************************************************************)
(* Results and hygiene records of completed tasks.                         *)
(***************************************************************************)

(* An attempt that has seen a rejection and goes on to commit has logged   *)
(* it.                                                                     *)
Logged ==
  \A r \in Runners :
    /\ run[r].pc \in BodyPcs \ {"hygiene"} /\ "rejected" \in run[r].verdicts
         => hygiene[run[r].task]
    /\ run[r].pc \in {"reject_save", "reject_commit"} => hygiene[run[r].task]

(* What an attempt counts as done is stored, and it commits when all items *)
(* are done, or when it has found the task cancelled: a status no commit   *)
(* can outrank.                                                            *)
Stored ==
  \A r \in Runners :
    /\ run[r].pc \in BodyPcs => \A i \in run[r].done : HasResult(run[r].task, i)
    /\ run[r].pc = "hygiene" => Items(run[r].task) \subseteq run[r].done
    /\ run[r].pc = "commit" =>
         \/ Items(run[r].task) \subseteq run[r].done
         \/ task[run[r].task].status = "CANCELLED"

ResultInv == SafeInv /\ Logged /\ Stored /\ CompletedHasResults /\ RejectionIsLogged

LEMMA InitResultInv == Init => ResultInv
  <1> SUFFICES ASSUME Init PROVE ResultInv
    OBVIOUS
  <1>1. Logged /\ Stored
    BY DEF Init, Idle, Logged, Stored, BodyPcs
  <1>2. CompletedHasResults /\ RejectionIsLogged
    BY DEF Init, NoRow, Absent, CompletedHasResults, RejectionIsLogged
  <1> QED BY <1>1, <1>2, InitSafeInv DEF ResultInv

LEMMA LoggedStep == ResultInv /\ [Next]_vars => Logged'
  <1> SUFFICES ASSUME ResultInv, [Next]_vars, NEW r \in Runners, run'[r].pc \in Owing,
                      run'[r].pc # "hygiene",
                      run'[r].pc \in BodyPcs => "rejected" \in run'[r].verdicts
               PROVE  hygiene'[run'[r].task]
    BY DEF Logged, Owing, BodyPcs
  <1>0. /\ TypeInv /\ Logged /\ AttemptEffect(r)
        /\ \A t \in Tasks : hygiene[t] => hygiene'[t]
        /\ run[r].pc # "idle" => run[r].task \in Tasks
        /\ hygiene \in [Tasks -> BOOLEAN]
        /\ "idle" \notin Owing
    BY AttemptEffectHolds, KeepsHolds
    DEF ResultInv, SafeInv, Keeps, TypeInv, TypeOK, Placed, Owing, BodyPcs
  <1>1. CASE run'[r] = run[r]
    BY <1>0, <1>1 DEF Logged, Owing
  <1>2. ~Begins(r)
    BY DEF Begins, BodyPcs
  <1>3. CASE GoesOn(r)
    BY <1>0, <1>3 DEF Logged, GoesOn, SameWork, BodyPcs
  <1>4. ASSUME NEW v \in Outcomes, GradeSingle(r, v) PROVE FALSE
    BY <1>0, <1>4
    DEF GradeSingle, TypeInv, TypeOK, Attempts, BodyPcs
  <1>5. ASSUME NEW i \in 1..BatchSize, NEW v \in Outcomes, GradeItem(r, i, v)
        PROVE  hygiene'[run'[r].task]
    <2> DEFINE t == run[r].task
    <2>1. /\ run[r].pc = "grade" /\ t \in Tasks
          /\ run'[r].task = t
          /\ run'[r].verdicts = run[r].verdicts \cup {v}
          /\ run'[r].pc \in BodyPcs
      BY <1>0, <1>5 DEF GradeItem, TypeInv, TypeOK, Attempts, BodyPcs
    <2>2. hygiene'[t] = (hygiene[t] \/ v = "rejected")
      BY <1>0, <1>5, <2>1 DEF GradeItem, LogIfRejected
    <2>3. "rejected" \in run[r].verdicts => hygiene[t]
      BY <1>0, <2>1 DEF Logged, BodyPcs
    <2> QED BY <2>1, <2>2, <2>3
  <1>6. CASE CheckCancelled(r) /\ SameWork(r)
    <2>2. run'[r].pc \in BodyPcs
      BY <1>0, <1>6, GotoWork DEF CheckCancelled, RunPcs, BodyPcs
    <2>3. "rejected" \in run[r].verdicts /\ run[r].pc = "check"
      BY <1>6, <2>2 DEF SameWork, CheckCancelled
    <2> QED BY <1>0, <1>6, <2>3 DEF Logged, SameWork, BodyPcs
  <1>7. CASE (LogRejection(r) \/ RejectLog(r)) /\ SameWork(r)
    BY <1>0, <1>7 DEF LogRejection, RejectLog, SameWork
  <1>8. CASE RejectSave(r) /\ SameWork(r)
    BY <1>0, <1>8 DEF RejectSave, SameWork, Logged
  <1> QED
    BY <1>0, <1>1, <1>2, <1>3, <1>4, <1>5, <1>6, <1>7, <1>8 DEF AttemptEffect, Grades

(* Nothing outranks a cancellation.                                        *)
LEMMA CancelledStays ==
  ASSUME TypeInv, Begun, [Next]_vars, NEW t \in Tasks, task[t].status = "CANCELLED"
  PROVE  task'[t].status = "CANCELLED"
  <1>1. ~Submit(t)
    BY DEF Submit, Begun, Absent
  <1>2. \A s \in Statuses : ~Outranks(s, "CANCELLED")
    BY DEF Outranks, Weight, Statuses
  <1>3. task'[t].status = task[t].status \/ Moves(t)
    BY StatusStepHolds DEF StatusStep, Moves
  <1> QED BY <1>1, <1>2, <1>3 DEF Moves

LEMMA StoredStep == ResultInv /\ [Next]_vars => Stored'
  <1> DEFINE Kept(r) ==
        /\ run'[r].pc \in BodyPcs => \A i \in run'[r].done : Holds(run'[r].task, i)
        /\ run'[r].pc = "hygiene" => Items(run'[r].task) \subseteq run'[r].done
        /\ run'[r].pc = "commit" =>
             \/ Items(run'[r].task) \subseteq run'[r].done
             \/ task'[run'[r].task].status = "CANCELLED"
  <1> SUFFICES ASSUME ResultInv, [Next]_vars, NEW r \in Runners PROVE Kept(r)
    BY DEF Stored, Holds, HasResult, Items
  <1>0. /\ TypeInv /\ Begun /\ Stored /\ AttemptEffect(r)
        /\ run[r].pc # "idle" => run[r].task \in Tasks
        /\ run[r] \in Attempts /\ run[r].done \subseteq 1..BatchSize
        /\ rows \in Counters
        /\ "idle" \notin BodyPcs /\ BodyPcs \subseteq Owing
    BY AttemptEffectHolds
    DEF ResultInv, SafeInv, TypeInv, TypeOK, Placed, Attempts, Owing, BodyPcs
  <1>a. ASSUME NEW i \in run[r].done, HasResult(run[r].task, i), run[r].pc # "idle"
        PROVE  Holds(run[r].task, i)
    BY <1>0, <1>a, KeepsHolds DEF Keeps
  <1>b. ASSUME run[r].pc \in BodyPcs, SameWork(r)
        PROVE  \A i \in run'[r].done : Holds(run'[r].task, i)
    BY <1>0, <1>a, <1>b DEF Stored, SameWork
  <1>1. CASE run'[r] = run[r]
    <2>1. run'[r].pc \in BodyPcs => \A i \in run'[r].done : Holds(run'[r].task, i)
      BY <1>1, <1>b DEF SameWork
    <2>2. run[r].pc = "commit" /\ task[run[r].task].status = "CANCELLED"
            => task'[run[r].task].status = "CANCELLED"
      BY <1>0, CancelledStays
    <2> QED BY <1>0, <1>1, <2>1, <2>2 DEF Stored
  <1>2. CASE run'[r].pc \notin Owing \/ Begins(r)
    BY <1>0, <1>2 DEF Begins, Owing, BodyPcs
  <1>3. CASE GoesOn(r)
    BY <1>3, <1>b DEF GoesOn
  <1>4. ASSUME NEW v \in Outcomes, GradeSingle(r, v) PROVE Kept(r)
    <2> DEFINE t == run[r].task
    <2>1. /\ run[r].pc = "grade" /\ t \in Tasks /\ t \notin BatchTasks
          /\ v \in Verdicts /\ 1 \in 1..BatchSize
      BY <1>0, <1>4, LifecycleAssumption DEF LifecycleAssumption, GradeSingle
    <2>2. /\ run'[r].task = t
          /\ run'[r].done = {1}
      BY <1>0, <1>4 DEF GradeSingle, TypeInv, TypeOK, Attempts
    <2>3. Holds(t, 1)
      BY <1>0, <1>4, <2>1, StoreResultKeeps DEF GradeSingle
    <2>4. Items(t) = {1}
      BY <2>1 DEF Items
    <2> QED BY <2>2, <2>3, <2>4
  <1>5. ASSUME NEW i \in 1..BatchSize, NEW v \in Outcomes, GradeItem(r, i, v)
        PROVE  Kept(r)
    <2> DEFINE t    == run[r].task
               done == run[r].done \cup {i}
    <2>1. run[r].pc = "grade" /\ t \in Tasks /\ v \in Verdicts
      BY <1>0, <1>5, LifecycleAssumption DEF LifecycleAssumption, GradeItem
    <2>2. /\ run'[r].task = t
          /\ run'[r].done = done
          /\ run'[r].pc \in {"commit", "check", "grade"}
          /\ run'[r].pc = "commit" => done = Items(t)
      BY <1>0, <1>5 DEF GradeItem, TypeInv, TypeOK, Attempts
    <2>3. Holds(t, i)
      BY <1>0, <1>5, <2>1, StoreResultKeeps DEF GradeItem
    <2>4. \A j \in run[r].done : Holds(t, j)
      BY <1>0, <1>a, <2>1 DEF Stored, BodyPcs
    <2> QED BY <2>2, <2>3, <2>4
  <1>6. CASE /\ CheckCancelled(r)
             /\ task[run[r].task].status = "CANCELLED"
             /\ SameWork(r)
    <2>1. run[r].pc = "check" /\ UNCHANGED task
      BY <1>6 DEF CheckCancelled, store
    <2>2. run'[r].pc # "hygiene"
      BY <1>0, <1>6, GotoWork DEF CheckCancelled, RunPcs, BodyPcs
    <2> QED BY <1>6, <1>b, <2>1, <2>2 DEF SameWork, BodyPcs
  <1>7. CASE LogRejection(r) /\ SameWork(r)
    <2>1. run[r].pc = "hygiene" /\ Items(run[r].task) \subseteq run[r].done
      BY <1>0, <1>7 DEF LogRejection, Stored
    <2> QED BY <1>7, <1>b, <2>1 DEF SameWork, BodyPcs
  <1>8. run'[r].pc \in {"reject_save", "reject_commit"} => Kept(r)
    BY DEF BodyPcs
  <1> HIDE DEF Kept
  <1> QED
    BY <1>0, <1>1, <1>2, <1>3, <1>4, <1>5, <1>6, <1>7, <1>8 DEF AttemptEffect, Grades

LEMMA CompletedStep == ResultInv /\ [Next]_vars => CompletedHasResults'
  <1> SUFFICES ASSUME ResultInv, [Next]_vars,
                      NEW t \in Tasks, task'[t].status = "COMPLETED"
               PROVE  \/ \A i \in Items(t) : Holds(t, i)
                      \/ /\ task'[t].fallback = "PERCEPTION_SHORT_CIRCUIT"
                         /\ hygiene'[t]
    BY DEF CompletedHasResults, Holds, HasResult, Items
  <1>0. /\ TypeInv /\ Logged /\ Stored /\ CompletedHasResults /\ RowEffect(t)
        /\ task \in [Tasks -> Columns]
        /\ hygiene[t] => hygiene'[t]
        /\ Items(t) \subseteq 1..BatchSize
        /\ \A i \in Items(t) : HasResult(t, i) => Holds(t, i)
    <2>1. Items(t) \subseteq 1..BatchSize
      BY LifecycleAssumption DEF LifecycleAssumption, Items
    <2>2. TypeInv /\ Keeps
      BY KeepsHolds DEF ResultInv, SafeInv
    <2> QED
      BY <2>1, <2>2, RowEffectHolds DEF ResultInv, Keeps, TypeInv, TypeOK
  <1>1. CASE /\ task[t].status = "COMPLETED"
             /\ task'[t].fallback = task[t].fallback
    BY <1>0, <1>1 DEF CompletedHasResults
  <1>2. CASE Completes(t)
    <2>1. PICK r \in Runners :
            /\ run[r].task = t
            /\ Outranks("COMPLETED", task[t].status)
            /\ Commit(r) \/ RejectCommit(r)
      BY <1>2 DEF Completes
    <2>2. task[t].status # "CANCELLED"
      BY <2>1 DEF Outranks, Weight, Statuses
    <2>3. CASE Commit(r)
      <3>1. run[r].pc = "commit" /\ run[r].pc \in BodyPcs
        BY <2>3 DEF Commit, BodyPcs
      <3>2. Items(t) \subseteq run[r].done
        BY <1>0, <2>1, <2>2, <3>1 DEF Stored
      <3>3. \A i \in Items(t) : HasResult(t, i)
        BY <1>0, <2>1, <3>1, <3>2 DEF Stored
      <3> QED BY <1>0, <3>3
    <2>4. CASE RejectCommit(r)
      <3>1. hygiene[t]
        BY <1>0, <2>1, <2>4 DEF RejectCommit, Logged
      <3>2. Rejected(t).fallback = "PERCEPTION_SHORT_CIRCUIT" /\ Rejected(t) \in Columns
        BY <1>0, NewColumns, RowType
      <3>3. task' = [task EXCEPT ![t] = Rejected(t)]
        BY <1>0, <2>1, <2>4, NewStatus DEF RejectCommit, UpdateTaskStatus
      <3> QED BY <1>0, <3>1, <3>2, <3>3
    <2> QED BY <2>1, <2>3, <2>4
  <1> QED BY <1>0, <1>1, <1>2 DEF RowEffect

LEMMA RejectionStep == ResultInv /\ [Next]_vars => RejectionIsLogged'
  <1> SUFFICES ASSUME ResultInv, [Next]_vars,
                      NEW t \in Tasks, task'[t].status = "COMPLETED",
                      task'[t].grading = "REJECTED_UNREADABLE"
               PROVE  hygiene'[t]
    BY DEF RejectionIsLogged
  <1>0. /\ TypeInv /\ Logged /\ RejectionIsLogged /\ RowEffect(t)
        /\ task \in [Tasks -> Columns]
        /\ hygiene[t] => hygiene'[t]
    <2>1. TypeInv /\ Keeps
      BY KeepsHolds DEF ResultInv, SafeInv
    <2> QED
      BY <2>1, RowEffectHolds DEF ResultInv, Keeps, TypeInv, TypeOK
  <1>1. CASE /\ task[t].status = "COMPLETED"
             /\ task'[t].grading = task[t].grading
    BY <1>0, <1>1 DEF RejectionIsLogged
  <1>2. CASE Completes(t)
    <2>1. PICK r \in Runners :
            /\ run[r].task = t
            /\ \/ Commit(r) /\ task'[t] = Completed(t, run[r].verdicts)
               \/ RejectCommit(r)
      BY <1>2 DEF Completes
    <2>2. CASE Commit(r) /\ task'[t] = Completed(t, run[r].verdicts)
      <3>1. run[r].pc = "commit" /\ run[r].verdicts \in SUBSET Verdicts
        BY <1>0, <2>2 DEF Commit, TypeInv, TypeOK, Attempts
      <3>2. task'[t].grading = GradingOf(run[r].verdicts)
        BY <1>0, <2>2, <3>1, NewColumns
      <3>3. "rejected" \in run[r].verdicts
        BY <3>2 DEF GradingOf
      <3> QED BY <1>0, <2>1, <3>1, <3>3 DEF Logged, BodyPcs
    <2>3. CASE RejectCommit(r)
      BY <1>0, <2>1, <2>3 DEF RejectCommit, Logged
    <2> QED BY <2>1, <2>2, <2>3
  <1> QED BY <1>0, <1>1, <1>2 DEF RowEffect

LEMMA ResultInvStep == ResultInv /\ [Next]_vars => ResultInv'
  BY SafeInvStep, LoggedStep, StoredStep, CompletedStep, RejectionStep DEF ResultInv

(* GET /results never serves a COMPLETED task with an item missing: each   *)
(* item has a stored result, whatever attempts overlapped, crashed or were *)
(* cancelled on the way, or the paper was rejected before grading and the  *)
(* hygiene log says so.                                                    *)
THEOREM CompletedTasksHaveResults == Spec => []CompletedHasResults
  <1>1. ResultInv => CompletedHasResults
    BY DEF ResultInv
  <1> QED BY <1>1, InitResultInv, ResultInvStep, PTL DEF Spec

(* No task is shown as unreadable without its hygiene record, on any of    *)
(* the three rejection paths of grade_homework_task.                       *)
THEOREM RejectionsAreLogged == Spec => []RejectionIsLogged
  <1>1. ResultInv => RejectionIsLogged
    BY DEF ResultInv
  <1> QED BY <1>1, InitResultInv, ResultInvStep, PTL DEF Spec
-----------------------------------------------------------------------------
(***************************************************************************)
(* Orphans.                                                                *)
(***************************************************************************)

(* A task whose message has not been sent, or never will be: its row has   *)
(* no celery id and its submission has not reached the broker.  Nothing of *)
(* it is in the system yet.                                                *)
Unsent(t) == \/ api[t] \in {"none", "created"}
             \/ api[t] = "done" /\ task[t].celeryId = "null"

Untouched ==
  \A t \in Tasks :
    Unsent(t) => /\ ~Queued(t)
                 /\ dlq[t] = 0
                 /\ \A r \in Runners : run[r].pc # "idle" => run[r].task # t

(* What the sweeper saw of the task it gave up is still true of it.        *)
OrphanOrphaned ==
  \A t \in Tasks :
    task[t].fallback = "QUEUE_STALE_ORPHAN" =>
      \/ api[t] = "dead"
      \/ api[t] = "done" /\ task[t].celeryId \in {"null", "local"}

OrphanInv == SafeInv /\ Untouched /\ OrphanOrphaned

LEMMA InitOrphanInv == Init => OrphanInv
  <1> SUFFICES ASSUME Init PROVE OrphanInv
    OBVIOUS
  <1>1. Untouched
    BY LifecycleAssumption DEF LifecycleAssumption, Init, Idle, Untouched, Queued
  <1>2. OrphanOrphaned
    BY DEF Init, NoRow, OrphanOrphaned
  <1> QED BY <1>1, <1>2, InitSafeInv DEF OrphanInv

(* How the submission of t and its row move together.                      *)
LEMMA SubmissionStep ==
  ASSUME TypeInv, Begun, [Next]_vars, NEW t \in Tasks
  PROVE  /\ Unsent(t)' => Unsent(t)
         /\ api[t] = "dead" => api'[t] = "dead"
         /\ api[t] = "done" => api'[t] = "done"
         /\ api[t] = "done" => task'[t].celeryId = task[t].celeryId
  <1>0. /\ api \in [Tasks -> {"none", "created", "queued", "deferred", "done", "dead"}]
        /\ task \in [Tasks -> Columns]
        /\ RowEffect(t)
    BY RowEffectHolds DEF TypeInv, TypeOK
  <1>1. \/ api'[t] = api[t]
        \/ Submit(t) \/ SubmitStep(t)
        \/ ApiCrash
    <2>1. ASSUME NEW u \in Tasks \ {t}, Submit(u) \/ SubmitStep(u)
          PROVE  api'[t] = api[t]
      BY <1>0, <2>1
      DEF Submit, SubmitStep, RubricMissing, DispatchToBroker, DispatchLocally,
          RecordCeleryId
    <2> QED BY <2>1, ApiFrame DEF ApiWriter
  <1>2. /\ Submit(t) => api[t] = "none" /\ api'[t] = "created"
        /\ RubricMissing(t) => api[t] = "created" /\ api'[t] = "done"
        /\ DispatchToBroker(t) => api[t] = "created" /\ api'[t] = "queued"
        /\ DispatchLocally(t) => api[t] = "created" /\ api'[t] = "deferred"
        /\ ApiCrash => IF api[t] \in {"none", "done"} THEN api'[t] = api[t]
                                                    ELSE api'[t] = "dead"
    BY <1>0
    DEF Submit, RubricMissing, DispatchToBroker, DispatchLocally, ApiCrash
  <1>3. RecordCeleryId(t) => /\ api[t] \in {"queued", "deferred"} /\ api'[t] = "done"
                             /\ task'[t].celeryId \in {"celery", "local"}
    BY <1>0 DEF RecordCeleryId, Columns
  <1>4. \/ task'[t].celeryId = task[t].celeryId
        \/ Submit(t) \/ RecordCeleryId(t)
    BY <1>0 DEF RowEffect
  <1> QED BY <1>1, <1>2, <1>3, <1>4 DEF SubmitStep, Unsent

LEMMA UntouchedStep == OrphanInv /\ [Next]_vars => Untouched'
  <1> SUFFICES ASSUME OrphanInv, [Next]_vars, NEW t \in Tasks, Unsent(t)'
               PROVE  /\ ~Queued(t)'
                      /\ dlq'[t] = 0
                      /\ \A r \in Runners : run'[r].pc # "idle" => run'[r].task # t
    BY DEF Untouched
  <1>0. /\ TypeInv /\ Begun /\ Unsent(t)
        /\ ~Queued(t) /\ dlq[t] = 0
        /\ \A r \in Runners : run[r].pc # "idle" => run[r].task # t
        /\ dlq \in [Tasks -> Nat]
    BY SubmissionStep DEF OrphanInv, SafeInv, Untouched, TypeInv, TypeOK
  <1>1. ~Queued(t)'
    <2>1. ~Enqueues(t)
      BY <1>0 DEF Enqueues, Unsent
    <2> QED BY <1>0, <2>1, QueueEffectHolds DEF QueueEffect
  <1>2. dlq'[t] = 0
    <2>1. ASSUME NEW r \in Runners, RouteToDlq(r) PROVE dlq'[t] = 0
      <3>1. run[r].task # t
        BY <1>0, <2>1 DEF RouteToDlq
      <3> QED BY <1>0, <2>1, <3>1 DEF RouteToDlq
    <2>2. ASSUME NEW u \in Tasks, ReplayRemove(u) PROVE dlq'[t] = 0
      BY <1>0, <2>2 DEF ReplayRemove
    <2>3. PurgeDlq => dlq'[t] = 0
      BY DEF PurgeDlq
    <2> QED BY <1>0, <2>1, <2>2, <2>3, DlqFrame DEF DlqWriter
  <1>3. ASSUME NEW r \in Runners, run'[r].pc # "idle", run'[r].task = t PROVE FALSE
    <2>1. RunEffect(r)
      BY <1>0, RunEffectHolds
    <2>2. ~TakesUp(r)
      BY <1>0, <1>3 DEF TakesUp, Unsent
    <2> QED BY <1>0, <1>3, <2>1, <2>2 DEF RunEffect, KeepsTask
  <1> QED BY <1>1, <1>2, <1>3

LEMMA OrphanedStep == OrphanInv /\ [Next]_vars => OrphanOrphaned'
  <1> SUFFICES ASSUME OrphanInv, [Next]_vars,
                      NEW t \in Tasks, task'[t].fallback = "QUEUE_STALE_ORPHAN"
               PROVE  \/ api'[t] = "dead"
                      \/ api'[t] = "done" /\ task'[t].celeryId \in {"null", "local"}
    BY DEF OrphanOrphaned
  <1>0. TypeInv /\ Begun /\ OrphanOrphaned /\ RowEffect(t)
    BY RowEffectHolds DEF OrphanInv, SafeInv
  <1>1. \/ api[t] = "dead"
        \/ api[t] = "done" /\ task[t].celeryId \in {"null", "local"}
    BY <1>0 DEF RowEffect, SweepPending, OrphanOrphaned
  <1> QED BY <1>0, <1>1, SubmissionStep

LEMMA OrphanInvStep == OrphanInv /\ [Next]_vars => OrphanInv'
  BY SafeInvStep, UntouchedStep, OrphanedStep DEF OrphanInv

(* The orphan sweeper never gives up a task whose message still waits,     *)
(* replayed ones included, unless the API died before it wrote the celery  *)
(* id or took a message it had sent for lost.                              *)
THEOREM OrphansAreOrphans == Spec => []OrphanSweepSparesQueued
  <1>1. OrphanInv => OrphanSweepSparesQueued
    BY DEF OrphanInv, OrphanOrphaned, Untouched, Unsent, OrphanSweepSparesQueued
  <1> QED BY <1>1, InitOrphanInv, OrphanInvStep, PTL DEF Spec
-----------------------------------------------------------------------------
(***************************************************************************)
(* The contract with the readers of a task.                                *)
(***************************************************************************)
ResultWriter ==
  \E r \in Runners :
    \/ \E v \in Outcomes : GradeSingle(r, v)
    \/ \E i \in 1..BatchSize, v \in Outcomes : GradeItem(r, i, v)
    \/ LogRejection(r) \/ RejectLog(r) \/ RejectSave(r)

LEMMA ResultFrame == [Next]_vars => UNCHANGED <<rows, hygiene>> \/ ResultWriter
  <1> SUFFICES ASSUME [Next]_vars, ~UNCHANGED <<rows, hygiene>> PROVE ResultWriter
    OBVIOUS
  <1>1. CASE UNCHANGED vars
    BY <1>1 DEF vars, store
  <1>2. ASSUME NEW t \in Tasks, SubmitStep(t) PROVE ResultWriter
    BY <1>2
    DEF SubmitStep, RubricMissing, DispatchToBroker, DispatchLocally, RecordCeleryId,
        store
  <1>3. ASSUME NEW t \in Tasks, CancelStep(t) PROVE ResultWriter
    BY <1>3
    DEF CancelStep, CancelRevoke, CancelRemove, CancelCommit, CancelPublish, store
  <1>4. ASSUME NEW r \in Runners, BodyStep(r) PROVE ResultWriter
    BY <1>4
    DEF BodyStep, PreCheck, MarkProcessing, FetchFiles, CheckCancelled, Commit, Publish,
        Ack, store, ResultWriter
  <1>5. ASSUME NEW r \in Runners, HandlerStep(r) PROVE ResultWriter
    BY <1>5
    DEF HandlerStep, RejectCommit, MarkFailed, ScheduleRetry, CleanUpFiles, RouteToDlq,
        store, ResultWriter
  <1>6. ASSUME NEW r \in Runners, Disturbance(r) PROVE ResultWriter
    BY <1>6 DEF Disturbance, ShortCircuit, StepRaises, HandlerRaises, store
  <1>7. ASSUME NEW w \in Workers, WorkerFault(w) PROVE ResultWriter
    BY <1>7 DEF WorkerFault, SoftTimeLimit, HardTimeLimit, WorkerCrash, store
  <1> QED
    BY <1>1, <1>2, <1>3, <1>4, <1>5, <1>6, <1>7
    DEF Next, Submit, CancelRead, SweepProcessing, SweepPending, UploadsAge, TtlCleanup,
        ReplayEnqueue, ReplayRemove, DiscardRevoked, Deliver, ApiCrash, PurgeDlq, store

ContractMoves == [Contract!Next]_(Contract!gradedVars)

(* A new row, as the readers see it.                                       *)
LEMMA RowSeen ==
  ASSUME task \in [Tasks -> Columns], NEW t \in Tasks, NEW new \in Columns,
         task' = [task EXCEPT ![t] = new]
  PROVE  /\ statusOf' = [statusOf EXCEPT ![t] = new.status]
         /\ shownOf' = [shownOf EXCEPT ![t] = ShownOf(new)]
  <1>1. \A u \in Tasks : task'[u] = IF u = t THEN new ELSE task[u]
    OBVIOUS
  <1> QED BY <1>1 DEF statusOf, shownOf

LEMMA RowsSeen ==
  UNCHANGED rows => UNCHANGED resultOf
  BY DEF resultOf, HasResult, Items

LEMMA SameOrder ==
  ASSUME NEW s, NEW old, Outranks(s, old)
  PROVE  Contract!Outranks(s, old)
  BY DEF Outranks, Contract!Outranks, Weight, Contract!Weight, Statuses, Contract!Statuses

(* A write of any status but COMPLETED.                                    *)
LEMMA AdvanceMoves ==
  ASSUME TypeInv, NEW t \in Tasks, NEW new \in Columns,
         task' = [task EXCEPT ![t] = new],
         new.status \in Statuses \ {"COMPLETED"}, Outranks(new.status, task[t].status),
         UNCHANGED <<rows, hygiene, files, aged>>
  PROVE  ContractMoves
  <1>1. task \in [Tasks -> Columns]
    BY DEF TypeInv, TypeOK
  <1>2. /\ statusOf' = [statusOf EXCEPT ![t] = new.status]
        /\ shownOf' = [shownOf EXCEPT ![t] = ShownOf(new)]
    BY <1>1, RowSeen
  <1>3. ShownOf(new) = Contract!Nothing
    BY DEF ShownOf, Contract!Nothing
  <1>4. Contract!Outranks(new.status, statusOf[t])
    BY SameOrder DEF statusOf
  <1>5. Contract!Advance(t, new.status)
    BY <1>2, <1>3, <1>4, RowsSeen DEF Contract!Advance
  <1> QED BY <1>5 DEF ContractMoves, Contract!Next, Contract!Statuses, Statuses

LEMMA UpdateAdvances ==
  ASSUME TypeInv, NEW t \in Tasks, NEW new \in Columns,
         UpdateTaskStatus(t, new), new.status \in Statuses \ {"COMPLETED"},
         UNCHANGED <<rows, hygiene, files, aged>>
  PROVE  ContractMoves
  <1>1. CASE Outranks(new.status, task[t].status)
    BY <1>1, AdvanceMoves DEF UpdateTaskStatus
  <1>2. CASE ~Outranks(new.status, task[t].status)
    BY <1>2, RowsSeen
    DEF UpdateTaskStatus, ContractMoves, Contract!gradedVars, statusOf, shownOf
  <1> QED BY <1>1, <1>2

(* A row that turns COMPLETED.                                             *)
LEMMA CompleteMoves ==
  ASSUME TypeInv, NEW t \in Tasks, NEW new \in Columns,
         UpdateTaskStatus(t, new), new.status = "COMPLETED",
         Outranks("COMPLETED", task[t].status) =>
           /\ files[t] \/ aged[t]
           /\ ShownOf(new) # "unread" => \A i \in Items(t) : HasResult(t, i)
           /\ ShownOf(new) # "graded" => hygiene[t],
         UNCHANGED <<rows, hygiene, files, aged>>
  PROVE  ContractMoves
  <1>0. task \in [Tasks -> Columns]
    BY DEF TypeInv, TypeOK
  <1>1. CASE Outranks("COMPLETED", task[t].status)
    <2> DEFINE g == ShownOf(new)
    <2>1. task' = [task EXCEPT ![t] = new]
      BY <1>1 DEF UpdateTaskStatus
    <2>2. /\ statusOf' = [statusOf EXCEPT ![t] = "COMPLETED"]
          /\ shownOf' = [shownOf EXCEPT ![t] = g]
      BY <1>0, <2>1, RowSeen
    <2>3. g \in Contract!Gradings
      BY DEF ShownOf, Contract!Gradings
    <2> HIDE DEF g
    <2>4. Contract!Outranks("COMPLETED", statusOf[t])
      BY <1>1, SameOrder DEF statusOf
    <2>5. g # "unread" => resultOf[t] = itemsOf[t]
      BY <1>1 DEF resultOf, itemsOf, g
    <2>6. Contract!Earned(t, g)
      BY <1>1, <2>5 DEF Contract!Earned, g
    <2>7. Contract!Complete(t, g)
      BY <2>2, <2>4, <2>6, RowsSeen DEF Contract!Complete
    <2> QED BY <2>3, <2>7 DEF ContractMoves, Contract!Next
  <1>2. CASE ~Outranks("COMPLETED", task[t].status)
    BY <1>2, RowsSeen
    DEF UpdateTaskStatus, ContractMoves, Contract!gradedVars, statusOf, shownOf
  <1> QED BY <1>1, <1>2

(* A result stored, a record made, or both.                                *)
LEMMA ResultSeen ==
  ASSUME rows \in Counters, NEW t \in Tasks, NEW i \in Items(t),
         Items(t) \subseteq 1..BatchSize, NEW v \in Verdicts, StoreResult(t, i, v)
  PROVE  resultOf' = [resultOf EXCEPT ![t] = @ \cup {i}]
  <1>1. Holds(t, i) /\ \A u \in Tasks, j \in 1..BatchSize : HasResult(u, j) => Holds(u, j)
    BY StoreResultKeeps
  <1>2. ASSUME NEW u \in Tasks, NEW j \in Items(u), ~(u = t /\ j = i), Holds(u, j)
        PROVE  HasResult(u, j)
    BY <1>2, LifecycleAssumption
    DEF StoreResult, Counters, Holds, HasResult, Items, LifecycleAssumption
  <1>3. ASSUME NEW u \in Tasks
        PROVE  Items(u) \subseteq 1..BatchSize
    BY LifecycleAssumption DEF Items, LifecycleAssumption
  <1>4. resultOf' = [u \in Tasks |-> {j \in Items(u) : Holds(u, j)}]
    BY DEF resultOf, HasResult, Holds, Items
  <1>5. ASSUME NEW u \in Tasks
        PROVE  {j \in Items(u) : Holds(u, j)} =
                 IF u = t THEN {j \in Items(u) : HasResult(u, j)} \cup {i}
                 ELSE {j \in Items(u) : HasResult(u, j)}
    BY <1>1, <1>2, <1>3
  <1> QED BY <1>4, <1>5 DEF resultOf

LEMMA ResultMoves ==
  ASSUME ResultInv, [Next]_vars, ResultWriter
  PROVE  ContractMoves
  <1>0. /\ TypeInv /\ Begun /\ rows \in Counters /\ hygiene \in [Tasks -> BOOLEAN]
        /\ \A t \in Tasks : Items(t) \subseteq 1..BatchSize
    BY LifecycleAssumption
    DEF ResultInv, SafeInv, TypeInv, TypeOK, Items, LifecycleAssumption
  <1>1. PICK r \in Runners :
          \/ \E v \in Outcomes : GradeSingle(r, v)
          \/ \E i \in 1..BatchSize, v \in Outcomes : GradeItem(r, i, v)
          \/ LogRejection(r) \/ RejectLog(r) \/ RejectSave(r)
    BY DEF ResultWriter
  <1> DEFINE t == run[r].task
  <1>2. /\ t \in Tasks /\ statusOf[t] # Contract!Absent
        /\ UNCHANGED <<task, files, aged>>
    <2>1. run[r].pc # "idle"
      BY <1>1 DEF GradeSingle, GradeItem, LogRejection, RejectLog, RejectSave
    <2>2. t \in Tasks /\ task[t].status # Absent
      BY <1>0, <2>1 DEF TypeInv, Placed, Begun
    <2>3. UNCHANGED <<task, files, aged>>
      BY <1>1 DEF GradeSingle, GradeItem, LogRejection, RejectLog, RejectSave
    <2> QED BY <2>2, <2>3 DEF statusOf, Absent, Contract!Absent
  <1>3. UNCHANGED <<statusOf, shownOf, files, aged>>
    BY <1>2 DEF statusOf, shownOf
  <1> HIDE DEF t
  <1>4. ASSUME NEW i \in Items(t), NEW v \in Verdicts, StoreResult(t, i, v),
               hygiene' \in {hygiene, [hygiene EXCEPT ![t] = TRUE]}
        PROVE  ContractMoves
    <2>1. resultOf' = [resultOf EXCEPT ![t] = @ \cup {i}]
      BY <1>0, <1>2, <1>4, ResultSeen
    <2>2. i \in itemsOf[t]
      BY <1>2 DEF itemsOf
    <2>3. Contract!StoreResult(t, i)
      BY <1>2, <1>3, <1>4, <2>1 DEF Contract!StoreResult
    <2> QED BY <1>2, <2>2, <2>3 DEF ContractMoves, Contract!Next
  <1>5. ASSUME hygiene' = [hygiene EXCEPT ![t] = TRUE], UNCHANGED rows
        PROVE  ContractMoves
    <2>1. Contract!Log(t)
      BY <1>2, <1>3, <1>5, RowsSeen DEF Contract!Log
    <2> QED BY <1>2, <2>1 DEF ContractMoves, Contract!Next
  <1>6. ASSUME NEW v \in Outcomes, GradeSingle(r, v) PROVE ContractMoves
    <2>1. v \in Verdicts /\ 1 \in Items(t) /\ StoreResult(t, 1, v) /\ hygiene' = hygiene
      BY <1>6, LifecycleAssumption DEF GradeSingle, Items, LifecycleAssumption, t
    <2> QED BY <1>4, <2>1
  <1>7. ASSUME NEW i \in 1..BatchSize, NEW v \in Outcomes, GradeItem(r, i, v)
        PROVE  ContractMoves
    <2>1. v \in Verdicts /\ i \in Items(t) /\ StoreResult(t, i, v)
      BY <1>7, LifecycleAssumption DEF GradeItem, LifecycleAssumption, t
    <2>2. hygiene' = [hygiene EXCEPT ![t] = hygiene[t] \/ v = "rejected"]
      BY <1>7 DEF GradeItem, LogIfRejected, t
    <2>3. hygiene' \in {hygiene, [hygiene EXCEPT ![t] = TRUE]}
      <3>1. CASE v = "rejected"
        BY <1>0, <1>2, <2>2, <3>1
      <3>2. CASE v # "rejected"
        BY <1>0, <1>2, <2>2, <3>2
      <3> QED BY <3>1, <3>2
    <2> QED BY <1>4, <2>1, <2>3
  <1>8. CASE LogRejection(r) \/ RejectLog(r)
    BY <1>5, <1>8 DEF LogRejection, RejectLog, t
  <1>9. CASE RejectSave(r)
    <2>1. hygiene' = hygiene /\ "rejected" \in Verdicts
      BY <1>9 DEF RejectSave, Verdicts
    <2>2. CASE UNCHANGED rows
      BY <1>3, <2>1, <2>2, RowsSeen DEF ContractMoves, Contract!gradedVars
    <2>3. CASE StoreResult(t, 1, "rejected") /\ t \notin BatchTasks
      BY <1>4, <2>1, <2>3 DEF Items
    <2>4. CASE StoreResult(t, 1, "rejected") /\ t \in BatchTasks
      BY <1>4, <2>1, <2>4, LifecycleAssumption DEF Items, LifecycleAssumption
    <2> QED BY <1>9, <2>2, <2>3, <2>4 DEF RejectSave, t
  <1> QED BY <1>1, <1>6, <1>7, <1>8, <1>9

LEMMA FilesMove ==
  ASSUME ResultInv, NEW r \in Runners, CleanUpFiles(r)
  PROVE  ContractMoves
  <1> DEFINE t == run[r].task
  <1>1. t \in Tasks /\ task[t].status \in Final
    BY DEF CleanUpFiles, ResultInv, SafeInv, TypeInv, Placed, Doomed, DoomedPcs
  <1>2. UNCHANGED <<statusOf, shownOf, resultOf, hygiene, aged>>
    BY RowsSeen DEF CleanUpFiles, statusOf, shownOf
  <1>3. files' \in {files, [files EXCEPT ![t] = FALSE]}
    BY DEF CleanUpFiles
  <1>4. CASE files' = files
    BY <1>2, <1>4 DEF ContractMoves, Contract!gradedVars
  <1>5. CASE files' = [files EXCEPT ![t] = FALSE]
    <2>1. Contract!Discard(t)
      BY <1>1, <1>2, <1>5 DEF Contract!Discard, Contract!Final, Final, statusOf
    <2> QED BY <1>1, <2>1 DEF ContractMoves, Contract!Next
  <1> QED BY <1>3, <1>4, <1>5

(* Uploads that have been kept for their time, and go.                     *)
LEMMA AgedMove ==
  ASSUME ResultInv, NEW t \in Tasks, UploadsAge(t) \/ TtlCleanup(t)
  PROVE  ContractMoves
  <1>1. UNCHANGED <<statusOf, shownOf, resultOf, hygiene>>
    BY RowsSeen DEF UploadsAge, TtlCleanup, statusOf, shownOf
  <1>2. CASE UploadsAge(t)
    <2>1. task[t].status # Absent
      BY <1>2 DEF UploadsAge, ResultInv, SafeInv, Begun
    <2>2. aged' = [aged EXCEPT ![t] = TRUE] /\ UNCHANGED files
      BY <1>2 DEF UploadsAge
    <2>3. Contract!Age(t)
      BY <1>1, <2>1, <2>2 DEF Contract!Age, statusOf, Absent, Contract!Absent
    <2> QED BY <2>3 DEF ContractMoves, Contract!Next
  <1>3. CASE TtlCleanup(t)
    <2>1. aged[t] /\ files' = [files EXCEPT ![t] = FALSE] /\ UNCHANGED aged
      BY <1>3 DEF TtlCleanup
    <2>2. Contract!Discard(t)
      BY <1>1, <2>1 DEF Contract!Discard
    <2> QED BY <2>2 DEF ContractMoves, Contract!Next
  <1> QED BY <1>2, <1>3

(* What a commit has earned: the attempt has stored its items or lost them *)
(* to a cancellation, it has logged a rejection, and the task has files or *)
(* has had them for their time.                                            *)
LEMMA CommitMoves ==
  ASSUME ResultInv, NEW r \in Runners, Commit(r) \/ RejectCommit(r)
  PROVE  ContractMoves
  <1> DEFINE t == run[r].task
             V == run[r].verdicts
  <1>0. /\ TypeInv /\ Begun /\ FilesKept /\ Logged /\ Stored
        /\ task \in [Tasks -> Columns]
    BY DEF ResultInv, SafeInv, TypeInv, TypeOK
  <1>1. /\ t \in Tasks /\ V \in SUBSET Verdicts
        /\ UNCHANGED <<rows, hygiene, files, aged>>
        /\ api[t] # "none"
    BY <1>0 DEF TypeInv, TypeOK, Placed, Attempts, Begun, Commit, RejectCommit
  <1>2. ASSUME Outranks("COMPLETED", task[t].status)
        PROVE  (files[t] \/ aged[t]) /\ task[t].status # "CANCELLED"
    BY <1>0, <1>1, <1>2 DEF FilesKept, Outranks, Weight, Statuses, Final
  <1>3. CASE Commit(r)
    <2> DEFINE new == Completed(t, V)
    <2>1. /\ new \in Columns /\ new.status = "COMPLETED"
          /\ new.grading = GradingOf(V)
      BY <1>0, <1>1, RowType, NewStatus, NewColumns
    <2>2. UpdateTaskStatus(t, new) /\ run[r].pc = "commit"
      BY <1>3, Zenon DEF Commit
    <2>3. Outranks("COMPLETED", task[t].status) => \A i \in Items(t) : HasResult(t, i)
      BY <1>0, <1>2, <2>2 DEF Stored, BodyPcs
    <2>4. "rejected" \in V => hygiene[t]
      BY <1>0, <2>2 DEF Logged, BodyPcs
    <2>5. ShownOf(new) # "graded" => "rejected" \in V
      BY <2>1 DEF ShownOf, GradingOf
    <2> HIDE DEF new, t, V
    <2> QED BY <1>0, <1>1, <1>2, <2>1, <2>2, <2>3, <2>4, <2>5, CompleteMoves
  <1>4. CASE RejectCommit(r)
    <2> DEFINE new == Rejected(t)
    <2>1. /\ new \in Columns /\ new.status = "COMPLETED"
          /\ new.fallback = "PERCEPTION_SHORT_CIRCUIT"
          /\ new.grading = "REJECTED_UNREADABLE"
      <3>1. new.grading = GradingOf({"rejected"})
        BY <1>0, <1>1 DEF Rejected, Completed, Columns
      <3> QED BY <1>0, <1>1, <3>1, RowType, NewStatus, NewColumns DEF GradingOf
    <2>2. UpdateTaskStatus(t, new) /\ run[r].pc = "reject_commit"
      BY <1>4, Zenon DEF RejectCommit
    <2>3. hygiene[t]
      BY <1>0, <2>2 DEF Logged
    <2>4. ShownOf(new) = "unread"
      BY <2>1 DEF ShownOf
    <2> HIDE DEF new, t, V
    <2> QED BY <1>0, <1>1, <1>2, <2>1, <2>2, <2>3, <2>4, CompleteMoves
  <1> QED BY <1>3, <1>4

LEMMA RowMoves ==
  ASSUME ResultInv, [Next]_vars, TaskWriter
  PROVE  ContractMoves
  <1>0. /\ TypeInv /\ Begun /\ task \in [Tasks -> Columns]
    BY DEF ResultInv, SafeInv, TypeInv, TypeOK
  <1>1. ASSUME NEW t \in Tasks, Submit(t) PROVE ContractMoves
    <2> DEFINE new == [NoRow EXCEPT !.status = "PENDING"]
    <2>1. /\ task' = [task EXCEPT ![t] = new] /\ files' = [files EXCEPT ![t] = TRUE]
          /\ UNCHANGED <<rows, hygiene, aged>> /\ task[t].status = Absent
      BY <1>0, <1>1 DEF Submit, Begun
    <2>2. new \in Columns /\ new.status = "PENDING"
      BY DEF NoRow, Columns, Statuses
    <2> HIDE DEF new
    <2>3. /\ statusOf' = [statusOf EXCEPT ![t] = "PENDING"]
          /\ shownOf' = [shownOf EXCEPT ![t] = "nothing"]
      BY <1>0, <2>1, <2>2, RowSeen DEF ShownOf
    <2>4. shownOf[t] = "nothing" /\ statusOf[t] = Contract!Absent
      BY <2>1 DEF shownOf, statusOf, ShownOf, Absent, Contract!Absent
    <2>5. UNCHANGED shownOf
      BY <2>3, <2>4 DEF shownOf
    <2>6. Contract!Create(t)
      BY <2>1, <2>3, <2>4, <2>5, RowsSeen DEF Contract!Create
    <2> QED BY <2>6 DEF ContractMoves, Contract!Next
  <1>2. ASSUME NEW t \in Tasks, RecordCeleryId(t) PROVE ContractMoves
    <2>1. \A u \in Tasks : /\ task'[u].status = task[u].status
                          /\ task'[u].grading = task[u].grading
                          /\ task'[u].fallback = task[u].fallback
      BY <1>0, <1>2 DEF RecordCeleryId, Columns
    <2>2. UNCHANGED <<statusOf, shownOf>>
      BY <2>1 DEF statusOf, shownOf, ShownOf
    <2>3. UNCHANGED <<rows, hygiene, files, aged>>
      BY <1>2 DEF RecordCeleryId
    <2> QED BY <2>2, <2>3, RowsSeen DEF ContractMoves, Contract!gradedVars
  <1>3. ASSUME NEW t \in Tasks, CancelCommit(t) PROVE ContractMoves
    <2>1. UpdateTaskStatus(t, Cancelled(t)) /\ UNCHANGED <<rows, hygiene, files, aged>>
      BY <1>3 DEF CancelCommit
    <2> QED BY <1>0, <2>1, RowType, NewStatus, UpdateAdvances DEF Statuses
  <1>4. ASSUME NEW t \in Tasks, SweepProcessing(t) \/ SweepPending(t)
        PROVE  ContractMoves
    <2>1. PICK new \in Columns :
            new.status = "FAILED" /\ task' = [task EXCEPT ![t] = new]
      <3> DEFINE Given(reason) == [task[t] EXCEPT !.status = "FAILED",
                                                  !.fallback = reason]
      <3>1. \A reason \in {"WORKER_TIMEOUT", "QUEUE_STALE_ORPHAN"} :
              Given(reason) \in Columns /\ Given(reason).status = "FAILED"
        BY <1>0 DEF Columns, Statuses
      <3>2. \E reason \in {"WORKER_TIMEOUT", "QUEUE_STALE_ORPHAN"} :
              task' = [task EXCEPT ![t] = Given(reason)]
        BY <1>4, Zenon DEF SweepProcessing, SweepPending
      <3> HIDE DEF Given
      <3> QED BY <3>1, <3>2
    <2>2. task[t].status \in Live /\ UNCHANGED <<rows, hygiene, files, aged>>
      BY <1>4 DEF SweepProcessing, SweepPending, Live
    <2>3. Outranks("FAILED", task[t].status)
      BY <2>2 DEF Outranks, Weight, Statuses, Live
    <2> QED BY <1>0, <2>1, <2>2, <2>3, AdvanceMoves DEF Statuses
  <1>5. ASSUME NEW r \in Runners, MarkProcessing(r) PROVE ContractMoves
    <2> DEFINE t == run[r].task
               new == [task[t] EXCEPT !.status = "PROCESSING"]
    <2>1. t \in Tasks /\ UNCHANGED <<rows, hygiene, files, aged>>
      BY <1>0, <1>5 DEF TypeInv, Placed, MarkProcessing
    <2>2. UpdateTaskStatus(t, new)
      BY <1>5, Zenon DEF MarkProcessing
    <2>3. new \in Columns /\ new.status = "PROCESSING"
      BY <1>0, <2>1, RowType, NewStatus
    <2> HIDE DEF new, t
    <2> QED BY <1>0, <2>1, <2>2, <2>3, UpdateAdvances DEF Statuses
  <1>6. ASSUME NEW r \in Runners, MarkFailed(r) PROVE ContractMoves
    <2> DEFINE t == run[r].task
    <2>1. t \in Tasks /\ UNCHANGED <<rows, hygiene, files, aged>>
      BY <1>0, <1>6 DEF TypeInv, Placed, MarkFailed
    <2>2. UpdateTaskStatus(t, Failed(t))
      BY <1>6, Zenon DEF MarkFailed
    <2> QED BY <1>0, <2>1, <2>2, RowType, NewStatus, UpdateAdvances DEF Statuses
  <1> QED BY <1>1, <1>2, <1>3, <1>4, <1>5, <1>6, CommitMoves DEF TaskWriter

LEMMA ContractStep == ResultInv /\ [Next]_vars => ContractMoves
  <1> SUFFICES ASSUME ResultInv, [Next]_vars PROVE ContractMoves
    OBVIOUS
  <1>1. CASE TaskWriter
    BY <1>1, RowMoves
  <1>2. CASE ResultWriter
    BY <1>2, ResultMoves
  <1>3. CASE FilesWriter
    BY <1>3, RowMoves, FilesMove, AgedMove DEF FilesWriter, TaskWriter
  <1>5. CASE \E t \in Tasks : UploadsAge(t)
    BY <1>5, AgedMove
  <1>4. CASE UNCHANGED <<task, rows, hygiene, files, aged>>
    BY <1>4, RowsSeen DEF ContractMoves, Contract!gradedVars, statusOf, shownOf
  <1> QED
    BY <1>1, <1>2, <1>3, <1>4, <1>5, TaskFrame, ResultFrame, FilesFrame, AgedFrame

(* Whatever attempts, cancellations, sweeps, retries, crashes and replays  *)
(* do to a task between them, its readers see only what GradedTask allows: *)
(* the workers' steps on the tasks, results and hygiene tables and on the  *)
(* upload directory implement that contract.                               *)
THEOREM ContractImplemented == Spec => ContractSpec
  <1>1. Init => Contract!Init
    <2> SUFFICES ASSUME Init PROVE Contract!Init
      OBVIOUS
    <2>1. statusOf = [t \in Tasks |-> Contract!Absent]
      BY DEF Init, NoRow, statusOf, Absent, Contract!Absent
    <2>2. shownOf = [t \in Tasks |-> Contract!Nothing]
      BY DEF Init, NoRow, shownOf, ShownOf, Absent, Contract!Nothing
    <2>3. resultOf = [t \in Tasks |-> {}]
      BY LifecycleAssumption DEF Init, resultOf, HasResult, Items, LifecycleAssumption
    <2> QED BY <2>1, <2>2, <2>3 DEF Init, Contract!Init
  <1> QED
    BY <1>1, InitResultInv, ResultInvStep, ContractStep, PTL
    DEF Spec, ContractSpec, Contract!Spec, ContractMoves
=============================================================================
