---------------------- MODULE TaskLifecycleType_proofs ----------------------
(***************************************************************************)
(* Type correctness of TaskLifecycle, for any sets of tasks and workers,   *)
(* any batch size, any number of retries and any bounds on the faults.     *)
(***************************************************************************)
EXTENDS TaskLifecycle, TLAPS

(***************************************************************************)
(* Types of the values the actions build.                                  *)
(***************************************************************************)
LEMMA IdleType == Idle \in Attempts /\ Idle.pc = "idle"
  BY LifecycleAssumption
  DEF LifecycleAssumption, Idle, Attempts, RunPcs, Nobody

LEMMA AttemptType ==
  ASSUME NEW t \in Tasks, NEW n \in 0..MaxRetries
  PROVE  /\ Attempt(t, n) \in Attempts
         /\ Attempt(t, n).pc = "precheck"
         /\ Attempt(t, n).task = t
         /\ Attempt(t, n).retries = n
         /\ Attempt(t, n).verdicts = {}
         /\ Attempt(t, n).done = {}
  BY IdleType DEF Attempt, Attempts, RunPcs, BodyPcs, Idle

LEMMA FunUpdate ==
  ASSUME NEW S, NEW R, NEW f \in [S -> R], NEW x \in S, NEW y \in R
  PROVE  [f EXCEPT ![x] = y] \in [S -> R]
  OBVIOUS

LEMMA EnqueueType ==
  ASSUME queue \in Queues, NEW t \in Tasks, NEW n \in 0..MaxRetries, Enqueue(t, n)
  PROVE  queue' \in Queues
  <1> queue[t] \in [0..MaxRetries -> Nat]
    BY DEF Queues
  <1> queue[t][n] \in Nat
    OBVIOUS
  <1>1. queue[t][n] + 1 \in Nat
    OBVIOUS
  <1>2. [queue[t] EXCEPT ![n] = queue[t][n] + 1] \in [0..MaxRetries -> Nat]
    BY <1>1
  <1>3. queue' = [queue EXCEPT ![t] = [queue[t] EXCEPT ![n] = queue[t][n] + 1]]
    BY Zenon DEF Enqueue
  <1> QED BY <1>2, <1>3, FunUpdate, Zenon DEF Queues

LEMMA DequeueType ==
  ASSUME queue \in Queues, NEW t \in Tasks, NEW n \in 0..MaxRetries, Dequeue(t, n)
  PROVE  queue' \in Queues
  <1> queue[t] \in [0..MaxRetries -> Nat]
    BY DEF Queues
  <1>1. queue[t][n] \in Nat
    OBVIOUS
  <1>2. queue[t][n] - 1 \in Nat
    BY <1>1 DEF Dequeue
  <1>3. [queue[t] EXCEPT ![n] = queue[t][n] - 1] \in [0..MaxRetries -> Nat]
    BY <1>1, <1>2
  <1>4. queue' = [queue EXCEPT ![t] = [queue[t] EXCEPT ![n] = queue[t][n] - 1]]
    BY Zenon DEF Dequeue
  <1> QED BY <1>3, <1>4, FunUpdate, Zenon DEF Queues

LEMMA StoreResultType ==
  ASSUME rows \in Counters, NEW t \in Tasks, NEW i \in 1..BatchSize,
         NEW v \in Verdicts, StoreResult(t, i, v)
  PROVE  rows' \in Counters
  <1> DEFINE page == [rows[t][i] EXCEPT ![v] = rows[t][i][v] + 1]
  <1> rows[t] \in [1..BatchSize -> [Verdicts -> Nat]]
    BY DEF Counters
  <1> rows[t][i] \in [Verdicts -> Nat]
    OBVIOUS
  <1>1. rows[t][i][v] + 1 \in Nat
    OBVIOUS
  <1>2. page \in [Verdicts -> Nat]
    BY <1>1, FunUpdate, Zenon
  <1>3. [rows[t] EXCEPT ![i] = page] \in [1..BatchSize -> [Verdicts -> Nat]]
    BY <1>1, <1>2
  <1>4. rows' = [rows EXCEPT ![t] = [rows[t] EXCEPT ![i] = page]]
    BY Zenon DEF StoreResult
  <1> QED BY <1>3, <1>4, FunUpdate, Zenon DEF Counters

LEMMA RowType ==
  ASSUME task \in [Tasks -> Columns], NEW t \in Tasks
  PROVE  /\ NoRow \in Columns
         /\ [NoRow EXCEPT !.status = "PENDING"] \in Columns
         /\ [task[t] EXCEPT !.status = "PROCESSING"] \in Columns
         /\ Failed(t) \in Columns
         /\ \A V \in SUBSET Verdicts : Completed(t, V) \in Columns
         /\ Rejected(t) \in Columns
         /\ Cancelled(t) \in Columns
         /\ [task[t] EXCEPT !.celeryId = "celery"] \in Columns
         /\ [task[t] EXCEPT !.celeryId = "local"] \in Columns
         /\ [task[t] EXCEPT !.status = "FAILED", !.fallback = "WORKER_TIMEOUT"]
              \in Columns
         /\ [task[t] EXCEPT !.status = "FAILED", !.fallback = "QUEUE_STALE_ORPHAN"]
              \in Columns
  BY DEF Columns, NoRow, Statuses, Failed, Completed, Rejected, Cancelled,
     GradingOf, ReviewOf

LEMMA UpdateType ==
  ASSUME task \in [Tasks -> Columns], NEW t \in Tasks, NEW new \in Columns,
         UpdateTaskStatus(t, new)
  PROVE  task' \in [Tasks -> Columns]
  BY DEF UpdateTaskStatus

LEMMA GotoType ==
  ASSUME run \in [Runners -> Attempts], NEW r \in Runners, NEW pc \in RunPcs,
         Goto(r, pc)
  PROVE  /\ run' \in [Runners -> Attempts]
         /\ \A q \in Runners :
              /\ q # r => run'[q] = run[q]
              /\ run'[q].task = run[q].task
              /\ run'[q].retries = run[q].retries
              /\ run'[q].verdicts = run[q].verdicts
              /\ run'[q].done = run[q].done
         /\ run'[r].pc = pc
  BY DEF Goto, Attempts
-----------------------------------------------------------------------------
(***************************************************************************)
(* Type correctness.                                                       *)
(***************************************************************************)

(* An attempt works on a task, and one about to retry has a retry left.    *)
Placed ==
  \A r \in Runners :
    run[r].pc # "idle" =>
      /\ run[r].task \in Tasks
      /\ run[r].pc = "retry" => run[r].retries < MaxRetries

TypeInv == TypeOK /\ Placed

LEMMA InitTypeInv == Init => TypeInv
  <1> SUFFICES ASSUME Init PROVE TypeInv
    OBVIOUS
  <1>1. task \in [Tasks -> Columns]
    BY DEF Init, Columns, NoRow
  <1>2. queue \in Queues /\ rows \in Counters
    BY LifecycleAssumption DEF LifecycleAssumption, Init, Queues, Counters
  <1>3. run \in [Runners -> Attempts] /\ Placed
    BY IdleType DEF Init, Placed
  <1> QED
    BY <1>1, <1>2, <1>3, LifecycleAssumption
    DEF LifecycleAssumption, Init, TypeInv, TypeOK

(* A runner that moves within its attempt, short of a retry.               *)
LEMMA GotoPlaced ==
  ASSUME TypeInv, NEW r \in Runners, run[r].pc # "idle",
         NEW pc \in RunPcs, pc # "retry" \/ run[r].retries < MaxRetries,
         Goto(r, pc)
  PROVE  run' \in [Runners -> Attempts] /\ Placed'
  <1>1. run \in [Runners -> Attempts] /\ Placed
    BY DEF TypeInv, TypeOK
  <1> QED BY <1>1, GotoType DEF Placed

(* A runner that drops its attempt or takes another one.                   *)
LEMMA SwitchPlaced ==
  ASSUME TypeInv, NEW r \in Runners, NEW a \in Attempts,
         a = Idle \/ \E t \in Tasks, n \in 0..MaxRetries : a = Attempt(t, n),
         run' = [run EXCEPT ![r] = a]
  PROVE  run' \in [Runners -> Attempts] /\ Placed'
  <1>1. run \in [Runners -> Attempts] /\ Placed
    BY DEF TypeInv, TypeOK
  <1>2. a.pc = "idle" \/ (a.task \in Tasks /\ a.pc = "precheck")
    BY IdleType, AttemptType
  <1> QED BY <1>1, <1>2 DEF Placed

LEMMA SubmitTypeInv ==
  ASSUME TypeInv, NEW t \in Tasks, Submit(t) \/ SubmitStep(t)
  PROVE  TypeInv'
  <1>1. CASE Submit(t)
    <2>1. task' \in [Tasks -> Columns]
      BY <1>1, RowType DEF Submit, TypeInv, TypeOK
    <2> QED
      BY <1>1, <2>1 DEF Submit, TypeInv, TypeOK, Placed, broker, counts
  <1>2. CASE RubricMissing(t)
    BY <1>2 DEF RubricMissing, TypeInv, TypeOK, Placed, store, broker, counts
  <1>3. CASE DispatchToBroker(t)
    <2>1. queue' \in Queues
      BY <1>3, EnqueueType, LifecycleAssumption
      DEF LifecycleAssumption, DispatchToBroker, TypeInv, TypeOK
    <2> QED
      BY <1>3, <2>1 DEF DispatchToBroker, TypeInv, TypeOK, Placed, store, counts
  <1>4. CASE DispatchLocally(t)
    <2>1. queue' \in Queues
      BY <1>4, EnqueueType, LifecycleAssumption
      DEF LifecycleAssumption, DispatchLocally, TypeInv, TypeOK
    <2>2. faults' \in 0..MaxFaults
      BY <1>4, LifecycleAssumption
      DEF LifecycleAssumption, DispatchLocally, TypeInv, TypeOK
    <2> QED
      BY <1>4, <2>1, <2>2
      DEF DispatchLocally, TypeInv, TypeOK, Placed, store
  <1>5. CASE RecordCeleryId(t)
    <2>1. task' \in [Tasks -> Columns]
      <3>1. \/ task' = [task EXCEPT ![t] = [task[t] EXCEPT !.celeryId = "celery"]]
            \/ task' = [task EXCEPT ![t] = [task[t] EXCEPT !.celeryId = "local"]]
        BY <1>5, Zenon DEF RecordCeleryId
      <3>2. task \in [Tasks -> Columns]
        BY DEF TypeInv, TypeOK
      <3>3. /\ [task[t] EXCEPT !.celeryId = "celery"] \in Columns
            /\ [task[t] EXCEPT !.celeryId = "local"] \in Columns
        BY <3>2, RowType
      <3> QED BY <3>1, <3>2, <3>3, FunUpdate, Zenon
    <2>2. 0 \in 0..MaxRetries /\ t \in Runners
      BY LifecycleAssumption DEF LifecycleAssumption, Runners
    <2>3. Attempt(t, 0) \in Attempts
      BY <2>2, AttemptType
    <2>4. \E u \in Tasks, n \in 0..MaxRetries : Attempt(t, 0) = Attempt(u, n)
      BY <2>2, Zenon
    <2>5. run' \in [Runners -> Attempts] /\ Placed'
      <3>1. CASE run' = [run EXCEPT ![t] = Attempt(t, 0)]
        BY <2>2, <2>3, <2>4, <3>1, SwitchPlaced
      <3>2. CASE UNCHANGED run
        BY <3>2 DEF TypeInv, TypeOK, Placed
      <3> QED BY <1>5, <3>1, <3>2 DEF RecordCeleryId
    <2> QED
      BY <1>5, <2>1, <2>5
      DEF RecordCeleryId, TypeInv, TypeOK, broker, counts
  <1> QED BY <1>1, <1>2, <1>3, <1>4, <1>5 DEF SubmitStep

LEMMA DeliverTypeInv ==
  ASSUME TypeInv, NEW w \in Workers, NEW t \in Tasks, NEW n \in 0..MaxRetries,
         Deliver(w, t, n)
  PROVE  TypeInv'
  <1>1. w \in Runners /\ run \in [Runners -> Attempts] /\ queue \in Queues
    BY DEF TypeInv, TypeOK, Runners
  <1>2. queue' \in Queues
    BY <1>1, DequeueType DEF Deliver, Dequeue
  <1>3. run' \in [Runners -> Attempts] /\ Placed'
    BY <1>1, AttemptType, SwitchPlaced DEF Deliver
  <1> QED
    BY <1>2, <1>3 DEF Deliver, TypeInv, TypeOK, store, calls, counts

LEMMA DiscardTypeInv ==
  ASSUME TypeInv, NEW t \in Tasks, NEW n \in 0..MaxRetries, DiscardRevoked(t, n)
  PROVE  TypeInv'
  <1>1. queue' \in Queues
    BY DequeueType DEF DiscardRevoked, Dequeue, TypeInv, TypeOK
  <1> QED
    BY <1>1 DEF DiscardRevoked, TypeInv, TypeOK, Placed, store, calls, counts

LEMMA WorkerFaultTypeInv ==
  ASSUME TypeInv, NEW w \in Workers, WorkerFault(w)
  PROVE  TypeInv'
  <1>0. w \in Runners /\ run \in [Runners -> Attempts] /\ queue \in Queues
    BY DEF TypeInv, TypeOK, Runners
  <1>1. CASE WorkerCrash(w)
    <2>1. run[w].task \in Tasks /\ run[w].retries \in 0..MaxRetries
      BY <1>0, <1>1 DEF WorkerCrash, TypeInv, Placed, Attempts
    <2>2. queue' \in Queues
      BY <1>0, <1>1, <2>1, EnqueueType DEF WorkerCrash
    <2>3. run' \in [Runners -> Attempts] /\ Placed'
      BY <1>0, <1>1, IdleType, SwitchPlaced DEF WorkerCrash
    <2>4. faults' \in 0..MaxFaults
      BY <1>1, LifecycleAssumption
      DEF LifecycleAssumption, WorkerCrash, TypeInv, TypeOK
    <2> QED
      BY <1>1, <2>2, <2>3, <2>4 DEF WorkerCrash, TypeInv, TypeOK, store, calls
  <1>2. CASE HardTimeLimit(w)
    <2>1. run' \in [Runners -> Attempts] /\ Placed'
      BY <1>0, <1>2, IdleType, SwitchPlaced DEF HardTimeLimit
    <2> QED
      BY <1>2, <2>1
      DEF HardTimeLimit, TypeInv, TypeOK, store, broker, calls, counts
  <1>3. CASE SoftTimeLimit(w)
    <2>1. run[w].pc # "idle" /\ "timeout" \in RunPcs
      BY <1>3 DEF SoftTimeLimit, BodyPcs, RunPcs, HandlerPcs
    <2>2. run' \in [Runners -> Attempts] /\ Placed'
      BY <1>0, <1>3, <2>1, GotoPlaced DEF SoftTimeLimit
    <2> QED
      BY <1>3, <2>2
      DEF SoftTimeLimit, TypeInv, TypeOK, store, broker, calls, counts
  <1> QED BY <1>1, <1>2, <1>3 DEF WorkerFault

LEMMA ApiCrashTypeInv ==
  ASSUME TypeInv, ApiCrash
  PROVE  TypeInv'
  <1>1. run' \in [Runners -> Attempts] /\ Placed'
    BY IdleType DEF ApiCrash, TypeInv, TypeOK, Placed
  <1>2. faults' \in 0..MaxFaults
    BY LifecycleAssumption DEF LifecycleAssumption, ApiCrash, TypeInv, TypeOK
  <1>3. /\ api' \in [Tasks -> {"none", "created", "queued", "deferred", "done", "dead"}]
        /\ cancel' \in [Tasks -> {"none", "revoke", "remove", "commit", "publish"}]
    BY DEF ApiCrash, TypeInv, TypeOK
  <1> QED
    BY <1>1, <1>2, <1>3 DEF ApiCrash, TypeInv, TypeOK, store, broker

LEMMA BodyTypeInv ==
  ASSUME TypeInv, NEW r \in Runners, BodyStep(r)
  PROVE  TypeInv'
  <1> DEFINE t == run[r].task
  <1>0. /\ run \in [Runners -> Attempts]
        /\ task \in [Tasks -> Columns]
        /\ rows \in Counters
        /\ hygiene \in [Tasks -> BOOLEAN]
        /\ run[r] \in Attempts
        /\ run[r].verdicts \in SUBSET Verdicts
        /\ run[r].pc # "idle" => t \in Tasks
    BY DEF TypeInv, TypeOK, Placed, Attempts
  <1>1. CASE PreCheck(r)
    <2>1. run[r].pc # "idle" /\ {"ack", "mark"} \subseteq RunPcs
      BY <1>1 DEF PreCheck, RunPcs, BodyPcs
    <2>2. run' \in [Runners -> Attempts] /\ Placed'
      BY <1>1, <2>1, GotoPlaced DEF PreCheck
    <2> QED
      BY <1>1, <2>2 DEF PreCheck, TypeInv, TypeOK, store, broker, calls, counts
  <1>2. CASE MarkProcessing(r)
    <2>1. run[r].pc # "idle" /\ "fetch" \in RunPcs
      BY <1>2 DEF MarkProcessing, RunPcs, BodyPcs
    <2>2. run' \in [Runners -> Attempts] /\ Placed'
      BY <1>2, <2>1, GotoPlaced DEF MarkProcessing
    <2>3. task' \in [Tasks -> Columns]
      BY <1>0, <1>2, <2>1, RowType, UpdateType DEF MarkProcessing
    <2> QED
      BY <1>2, <2>2, <2>3 DEF MarkProcessing, TypeInv, TypeOK, calls, counts
  <1>3. CASE FetchFiles(r)
    <2>1. run[r].pc # "idle" /\ {"grade", "fail"} \subseteq RunPcs
      BY <1>3 DEF FetchFiles, RunPcs, BodyPcs, HandlerPcs
    <2>2. run' \in [Runners -> Attempts] /\ Placed'
      BY <1>3, <2>1, GotoPlaced DEF FetchFiles
    <2> QED
      BY <1>3, <2>2 DEF FetchFiles, TypeInv, TypeOK, store, broker, calls, counts
  <1>7. CASE CheckCancelled(r)
    <2>1. run[r].pc # "idle" /\ {"grade", "commit"} \subseteq RunPcs
      BY <1>7 DEF CheckCancelled, RunPcs, BodyPcs
    <2>2. run' \in [Runners -> Attempts] /\ Placed'
      BY <1>7, <2>1, GotoPlaced DEF CheckCancelled
    <2> QED
      BY <1>7, <2>2
      DEF CheckCancelled, TypeInv, TypeOK, store, broker, calls, counts
  <1>8. CASE Commit(r)
    <2>1. run[r].pc # "idle" /\ "publish" \in RunPcs
      BY <1>8 DEF Commit, RunPcs, BodyPcs
    <2>2. run' \in [Runners -> Attempts] /\ Placed'
      BY <1>8, <2>1, GotoPlaced DEF Commit
    <2>3. task' \in [Tasks -> Columns]
      BY <1>0, <1>8, <2>1, RowType, UpdateType DEF Commit
    <2> QED
      BY <1>8, <2>2, <2>3
      DEF Commit, TypeInv, TypeOK, broker, calls, counts
  <1>9. CASE Publish(r)
    <2>1. run[r].pc # "idle" /\ "ack" \in RunPcs
      BY <1>9 DEF Publish, RunPcs
    <2>2. run' \in [Runners -> Attempts] /\ Placed'
      BY <1>9, <2>1, GotoPlaced DEF Publish
    <2> QED
      BY <1>9, <2>2 DEF Publish, TypeInv, TypeOK, store, broker, calls, counts
  <1>10. CASE Ack(r)
    <2>1. run' \in [Runners -> Attempts] /\ Placed'
      BY <1>10, IdleType, SwitchPlaced DEF Ack
    <2> QED
      BY <1>10, <2>1 DEF Ack, TypeInv, TypeOK, store, broker, calls, counts
  <1>4. CASE \E v \in Outcomes : GradeSingle(r, v)
    <2>1. PICK v \in Outcomes : GradeSingle(r, v)
      BY <1>4
    <2>2. v \in Verdicts /\ 1 \in 1..BatchSize
      BY LifecycleAssumption DEF LifecycleAssumption
    <2>3. run[r].pc # "idle" /\ rows' \in Counters
      BY <1>0, <2>1, <2>2, StoreResultType DEF GradeSingle
    <2>4. run' \in [Runners -> Attempts] /\ Placed'
      BY <1>0, <2>1, <2>2, <2>3
      DEF GradeSingle, TypeInv, Placed, Attempts, RunPcs, BodyPcs
    <2> QED
      BY <2>1, <2>3, <2>4
      DEF GradeSingle, TypeInv, TypeOK, broker, calls, counts
  <1>5. CASE LogRejection(r)
    <2>1. run[r].pc # "idle" /\ "commit" \in RunPcs
      BY <1>5 DEF LogRejection, RunPcs, BodyPcs
    <2>2. run' \in [Runners -> Attempts] /\ Placed'
      BY <1>5, <2>1, GotoPlaced DEF LogRejection
    <2>3. hygiene' \in [Tasks -> BOOLEAN]
      BY <1>0, <1>5 DEF LogRejection
    <2> QED
      BY <1>5, <2>2, <2>3
      DEF LogRejection, TypeInv, TypeOK, broker, calls, counts
  <1>6. CASE \E i \in 1..BatchSize, v \in Outcomes : GradeItem(r, i, v)
    <2>1. PICK i \in 1..BatchSize, v \in Outcomes : GradeItem(r, i, v)
      BY <1>6
    <2>2. v \in Verdicts
      BY LifecycleAssumption DEF LifecycleAssumption
    <2>3. run[r].pc # "idle" /\ rows' \in Counters
      BY <1>0, <2>1, <2>2, StoreResultType DEF GradeItem
    <2>4. hygiene' \in [Tasks -> BOOLEAN]
      BY <1>0, <2>1 DEF GradeItem, LogIfRejected
    <2>5. run' \in [Runners -> Attempts] /\ Placed'
      BY <1>0, <2>1, <2>2, <2>3
      DEF GradeItem, TypeInv, Placed, Attempts, RunPcs, BodyPcs
    <2> QED
      BY <2>1, <2>3, <2>4, <2>5
      DEF GradeItem, TypeInv, TypeOK, calls, counts
  <1> QED
    BY <1>1, <1>2, <1>3, <1>4, <1>5, <1>6, <1>7, <1>8, <1>9, <1>10 DEF BodyStep
LEMMA DisturbanceTypeInv ==
  ASSUME TypeInv, NEW r \in Runners, Disturbance(r)
  PROVE  TypeInv'
  <1>1. run[r].pc # "idle" /\ {"reject_log", "fail", "ack"} \subseteq RunPcs
    BY DEF Disturbance, ShortCircuit, StepRaises, HandlerRaises, RunPcs, BodyPcs,
       HandlerPcs
  <1>2. run' \in [Runners -> Attempts] /\ Placed'
    BY <1>1, GotoPlaced DEF Disturbance, ShortCircuit, StepRaises, HandlerRaises
  <1> QED
    BY <1>2
    DEF Disturbance, ShortCircuit, StepRaises, HandlerRaises, TypeInv, TypeOK,
        store, broker, calls, counts

LEMMA HandlerTypeInv ==
  ASSUME TypeInv, NEW r \in Runners, HandlerStep(r)
  PROVE  TypeInv'
  <1> DEFINE t == run[r].task
  <1>0. /\ run \in [Runners -> Attempts]
        /\ task \in [Tasks -> Columns]
        /\ rows \in Counters
        /\ queue \in Queues
        /\ dlq \in [Tasks -> Nat]
        /\ hygiene \in [Tasks -> BOOLEAN]
        /\ files \in [Tasks -> BOOLEAN]
        /\ run[r].pc # "idle" => t \in Tasks
        /\ run[r].retries \in 0..MaxRetries
        /\ run[r].pc = "retry" => run[r].retries < MaxRetries
    BY DEF TypeInv, TypeOK, Placed, Attempts
  <1>1. CASE RejectLog(r)
    <2>1. run[r].pc # "idle" /\ "reject_save" \in RunPcs
      BY <1>1 DEF RejectLog, RunPcs, HandlerPcs
    <2>2. run' \in [Runners -> Attempts] /\ Placed'
      BY <1>1, <2>1, GotoPlaced DEF RejectLog
    <2>3. hygiene' \in [Tasks -> BOOLEAN]
      BY <1>0, <1>1 DEF RejectLog
    <2> QED
      BY <1>1, <2>2, <2>3 DEF RejectLog, TypeInv, TypeOK, broker, calls, counts
  <1>2. CASE RejectSave(r)
    <2>1. run[r].pc # "idle" /\ "reject_commit" \in RunPcs
      BY <1>2 DEF RejectSave, RunPcs, HandlerPcs
    <2>2. run' \in [Runners -> Attempts] /\ Placed'
      BY <1>2, <2>1, GotoPlaced DEF RejectSave
    <2>3. 1 \in 1..BatchSize /\ "rejected" \in Verdicts
      BY LifecycleAssumption DEF LifecycleAssumption, Verdicts
    <2>4. rows' \in Counters
      BY <1>0, <1>2, <2>1, <2>3, StoreResultType DEF RejectSave
    <2> QED
      BY <1>2, <2>2, <2>4 DEF RejectSave, TypeInv, TypeOK, broker, calls, counts
  <1>3. CASE RejectCommit(r)
    <2>1. run[r].pc # "idle" /\ "ack" \in RunPcs
      BY <1>3 DEF RejectCommit, RunPcs
    <2>2. run' \in [Runners -> Attempts] /\ Placed'
      BY <1>3, <2>1, GotoPlaced DEF RejectCommit
    <2>3. task' \in [Tasks -> Columns]
      BY <1>0, <1>3, <2>1, RowType, UpdateType DEF RejectCommit
    <2> QED
      BY <1>3, <2>2, <2>3
      DEF RejectCommit, TypeInv, TypeOK, broker, calls, counts
  <1>4. CASE MarkFailed(r)
    <2>1. run[r].pc # "idle" /\ {"retry", "cleanup"} \subseteq RunPcs
      BY <1>4 DEF MarkFailed, RunPcs, HandlerPcs
    <2>2. run' \in [Runners -> Attempts] /\ Placed'
      BY <1>4, <2>1, GotoPlaced DEF MarkFailed, RetriesLeft
    <2>3. task' \in [Tasks -> Columns]
      BY <1>0, <1>4, <2>1, RowType, UpdateType DEF MarkFailed
    <2> QED
      BY <1>4, <2>2, <2>3 DEF MarkFailed, TypeInv, TypeOK, calls, counts
  <1>5. CASE ScheduleRetry(r)
    <2> DEFINE n == NextRetry(r)
    <2>1. run[r].pc # "idle" /\ "ack" \in RunPcs
      BY <1>5 DEF ScheduleRetry, RunPcs
    <2>2. n \in 0..MaxRetries /\ t \in Tasks
      BY <1>0, <1>5, LifecycleAssumption
      DEF LifecycleAssumption, ScheduleRetry, NextRetry
    <2>3. CASE r \in Workers /\ Enqueue(t, n) /\ Goto(r, "ack")
      <3>1. queue' \in Queues
        BY <1>0, <2>2, <2>3, EnqueueType
      <3>2. run' \in [Runners -> Attempts] /\ Placed'
        BY <2>1, <2>3, GotoPlaced
      <3> QED
        BY <1>5, <3>1, <3>2 DEF ScheduleRetry, TypeInv, TypeOK, store, calls, counts
    <2>4. CASE run' = [run EXCEPT ![r] = Attempt(t, n)] /\ UNCHANGED queue
      <3>1. Attempt(t, n) \in Attempts
        BY <2>2, AttemptType
      <3>2. \E u \in Tasks, m \in 0..MaxRetries : Attempt(t, n) = Attempt(u, m)
        BY <2>2, Zenon
      <3>3. run' \in [Runners -> Attempts] /\ Placed'
        BY <2>4, <3>1, <3>2, SwitchPlaced
      <3> QED
        BY <1>5, <2>4, <3>3 DEF ScheduleRetry, TypeInv, TypeOK, store, calls, counts
    <2> QED BY <1>5, <2>3, <2>4 DEF ScheduleRetry
  <1>6. CASE CleanUpFiles(r)
    <2>1. run[r].pc # "idle" /\ "deadletter" \in RunPcs
      BY <1>6 DEF CleanUpFiles, RunPcs, HandlerPcs
    <2>2. run' \in [Runners -> Attempts] /\ Placed'
      BY <1>6, <2>1, GotoPlaced DEF CleanUpFiles
    <2>3. files' \in [Tasks -> BOOLEAN]
      BY <1>0, <1>6 DEF CleanUpFiles
    <2> QED
      BY <1>6, <2>2, <2>3
      DEF CleanUpFiles, TypeInv, TypeOK, broker, calls, counts
  <1>7. CASE RouteToDlq(r)
    <2>1. run[r].pc # "idle" /\ "ack" \in RunPcs
      BY <1>7 DEF RouteToDlq, RunPcs
    <2>2. run' \in [Runners -> Attempts] /\ Placed'
      BY <1>7, <2>1, GotoPlaced DEF RouteToDlq
    <2>3. dlq' \in [Tasks -> Nat]
      BY <1>0, <1>7 DEF RouteToDlq
    <2> QED
      BY <1>7, <2>2, <2>3 DEF RouteToDlq, TypeInv, TypeOK, store, calls, counts
  <1> QED BY <1>1, <1>2, <1>3, <1>4, <1>5, <1>6, <1>7 DEF HandlerStep
LEMMA CancelTypeInv ==
  ASSUME TypeInv, NEW t \in Tasks, CancelRead(t) \/ CancelStep(t)
  PROVE  TypeInv'
  <1>0. /\ run \in [Runners -> Attempts]
        /\ task \in [Tasks -> Columns]
        /\ queue \in Queues
    BY DEF TypeInv, TypeOK
  <1>1. CASE CancelRead(t)
    <2>1. cancels' \in 0..MaxCancels
      BY <1>1, LifecycleAssumption
      DEF LifecycleAssumption, CancelRead, TypeInv, TypeOK
    <2> QED
      BY <1>1, <2>1 DEF CancelRead, TypeInv, TypeOK, Placed, store, broker
  <1>2. CASE CancelRevoke(t)
    <2>1. run' \in [Runners -> Attempts] /\ Placed'
      BY <1>0, <1>2, IdleType DEF CancelRevoke, TypeInv, Placed
    <2>2. revoked' \subseteq Tasks
      BY <1>2 DEF CancelRevoke, TypeInv, TypeOK
    <2> QED
      BY <1>2, <2>1, <2>2 DEF CancelRevoke, TypeInv, TypeOK, store, counts
  <1>3. CASE CancelRemove(t)
    <2>1. PICK kept \in SUBSET (0..MaxRetries) :
            queue' = [queue EXCEPT ![t] =
                        [n \in 0..MaxRetries |->
                           IF n \in kept THEN queue[t][n] ELSE 0]]
      BY <1>3, Zenon DEF CancelRemove
    <2>2. queue[t] \in [0..MaxRetries -> Nat]
      BY <1>0 DEF Queues
    <2>3. [n \in 0..MaxRetries |-> IF n \in kept THEN queue[t][n] ELSE 0]
            \in [0..MaxRetries -> Nat]
      BY <2>2
    <2>4. queue' \in Queues
      BY <1>0, <2>1, <2>3, FunUpdate, Zenon DEF Queues
    <2> QED
      BY <1>3, <2>4 DEF CancelRemove, TypeInv, TypeOK, Placed, store, counts
  <1>4. CASE CancelCommit(t)
    <2>1. task' \in [Tasks -> Columns]
      BY <1>0, <1>4, RowType, UpdateType DEF CancelCommit
    <2> QED
      BY <1>4, <2>1 DEF CancelCommit, TypeInv, TypeOK, Placed, broker, counts
  <1>5. CASE CancelPublish(t)
    BY <1>5 DEF CancelPublish, TypeInv, TypeOK, Placed, store, counts
  <1> QED BY <1>1, <1>2, <1>3, <1>4, <1>5 DEF CancelStep

LEMMA OperatorTypeInv ==
  ASSUME TypeInv, NEW t \in Tasks,
         \/ SweepProcessing(t) \/ SweepPending(t)
         \/ ReplayEnqueue(t) \/ ReplayRemove(t)
  PROVE  TypeInv'
  <1>0. task \in [Tasks -> Columns] /\ queue \in Queues /\ dlq \in [Tasks -> Nat]
    BY DEF TypeInv, TypeOK
  <1>1. CASE SweepProcessing(t)
    <2>1. task' = [task EXCEPT ![t] = [task[t] EXCEPT !.status = "FAILED",
                                         !.fallback = "WORKER_TIMEOUT"]]
      BY <1>1, Zenon DEF SweepProcessing
    <2>2. task' \in [Tasks -> Columns]
      BY <1>0, <2>1, RowType
    <2> QED
      BY <1>1, <2>2
      DEF SweepProcessing, TypeInv, TypeOK, Placed, broker, calls, counts
  <1>2. CASE SweepPending(t)
    <2>1. task' = [task EXCEPT ![t] = [task[t] EXCEPT !.status = "FAILED",
                                         !.fallback = "QUEUE_STALE_ORPHAN"]]
      BY <1>2, Zenon DEF SweepPending
    <2>2. task' \in [Tasks -> Columns]
      BY <1>0, <2>1, RowType
    <2> QED
      BY <1>2, <2>2
      DEF SweepPending, TypeInv, TypeOK, Placed, broker, calls, counts
  <1>3. CASE ReplayEnqueue(t)
    <2>1. queue' \in Queues
      BY <1>0, <1>3, EnqueueType, LifecycleAssumption
      DEF LifecycleAssumption, ReplayEnqueue
    <2>2. replays' \in 0..MaxReplays
      BY <1>3, LifecycleAssumption
      DEF LifecycleAssumption, ReplayEnqueue, TypeInv, TypeOK
    <2> QED
      BY <1>3, <2>1, <2>2 DEF ReplayEnqueue, TypeInv, TypeOK, Placed, store
  <1>4. CASE ReplayRemove(t)
    <2>1. dlq' \in [Tasks -> Nat]
      BY <1>0, <1>4 DEF ReplayRemove
    <2> QED
      BY <1>4, <2>1 DEF ReplayRemove, TypeInv, TypeOK, Placed, store, counts
  <1> QED BY <1>1, <1>2, <1>3, <1>4

LEMMA UploadsTypeInv ==
  ASSUME TypeInv, NEW t \in Tasks, UploadsAge(t) \/ TtlCleanup(t)
  PROVE  TypeInv'
  <1>1. CASE UploadsAge(t)
    BY <1>1 DEF UploadsAge, TypeInv, TypeOK, Placed, broker, calls, counts
  <1>2. CASE TtlCleanup(t)
    BY <1>2 DEF TtlCleanup, TypeInv, TypeOK, Placed, broker, calls, counts
  <1> QED BY <1>1, <1>2

LEMMA TypeInvStep == TypeInv /\ [Next]_vars => TypeInv'
  <1> SUFFICES ASSUME TypeInv, [Next]_vars PROVE TypeInv'
    OBVIOUS
  <1>1. CASE UNCHANGED vars
    BY <1>1 DEF vars, store, broker, calls, counts, TypeInv, TypeOK, Placed
  <1>2. ASSUME NEW t \in Tasks, Submit(t) \/ SubmitStep(t) PROVE TypeInv'
    BY <1>2, SubmitTypeInv
  <1>3. ASSUME NEW t \in Tasks, CancelRead(t) \/ CancelStep(t) PROVE TypeInv'
    BY <1>3, CancelTypeInv
  <1>4. ASSUME NEW t \in Tasks,
               \/ SweepProcessing(t) \/ SweepPending(t)
               \/ ReplayEnqueue(t) \/ ReplayRemove(t)
        PROVE  TypeInv'
    BY <1>4, OperatorTypeInv
  <1>5. ASSUME NEW t \in Tasks, NEW n \in 0..MaxRetries, DiscardRevoked(t, n)
        PROVE  TypeInv'
    BY <1>5, DiscardTypeInv
  <1>6. ASSUME NEW t \in Tasks, NEW n \in 0..MaxRetries, NEW w \in Workers,
               Deliver(w, t, n)
        PROVE  TypeInv'
    BY <1>6, DeliverTypeInv
  <1>7. ASSUME NEW r \in Runners, BodyStep(r) \/ HandlerStep(r) \/ Disturbance(r)
        PROVE  TypeInv'
    BY <1>7, BodyTypeInv, HandlerTypeInv, DisturbanceTypeInv
  <1>8. ASSUME NEW w \in Workers, WorkerFault(w) PROVE TypeInv'
    BY <1>8, WorkerFaultTypeInv
  <1>9. CASE ApiCrash
    BY <1>9, ApiCrashTypeInv
  <1>10. CASE PurgeDlq
    BY <1>10 DEF PurgeDlq, TypeInv, TypeOK, Placed, store, calls, counts
  <1>11. ASSUME NEW t \in Tasks, UploadsAge(t) \/ TtlCleanup(t) PROVE TypeInv'
    BY <1>11, UploadsTypeInv
  <1> QED
    BY <1>1, <1>2, <1>3, <1>4, <1>5, <1>6, <1>7, <1>8, <1>9, <1>10, <1>11 DEF Next

(* The state stays within its declared values, and no attempt retries      *)
(* more often than MaxRetries: the retry condition of worker/main.py is    *)
(* what keeps the retries header of a message in range.                    *)
THEOREM TypeCorrect == Spec => []TypeOK
  <1>1. TypeInv => TypeOK
    BY DEF TypeInv
  <1> QED BY <1>1, InitTypeInv, TypeInvStep, PTL DEF Spec
=============================================================================
