------------------------------- MODULE BatchRun -------------------------------
(***************************************************************************)
(* The papers of a batch inside one attempt of the worker: a job per paper *)
(* under the batch semaphore, each with a perception call that shares the  *)
(* Qwen engine's keys and API semaphore, and the loop that takes the jobs  *)
(* as they complete.  When the loop is left early the jobs are not         *)
(* cancelled: they stand still with the worker's event loop and go on when *)
(* something else runs on it.                                              *)
(***************************************************************************)
EXTENDS KeyPool, TaskStates, FiniteSets

CONSTANTS
  BatchSize,   \* the papers of the batch
  BatchSlots,  \* batch_internal_concurrency
  ApiSlots,    \* the API semaphore, 3 in the code
  QwenRetries, \* qwen_max_retries
  NetErrors,   \* qwen_max_connection_errors
  CheckEvery   \* papers between two looks at the status, 3 in the code

ASSUME BatchAssumption ==
  /\ BatchSlots \in Nat \ {0} /\ ApiSlots \in Nat \ {0} /\ CheckEvery \in Nat \ {0}
  /\ QwenRetries \in Nat /\ NetErrors \in Nat
  /\ BatchSize \in Nat \ {0}

VARIABLES
  job,        \* where each paper is
  freeSlots,  \* the batch semaphore
  freeApi,    \* the API semaphore
  cooling,    \* keys in cooldown
  turn,       \* index of the key pool
  loop,       \* the as_completed loop
  rows,       \* papers with a result row
  records,    \* papers with a hygiene record
  revoked     \* the task has been cancelled

Papers == 1..BatchSize

batchVars == <<job, freeSlots, freeApi, cooling, turn, loop, rows, records, revoked>>

JobStates ==
  [pc : {"wait", "pick", "queue", "call", "sulk", "pause", "grade", "log", "done",
         "failed", "taken"},
   try : 0..QwenRetries, net : 0..NetErrors, key : ApiKeys \cup {NoKey},
   verdict : {"none", "scored", "rejected"}]

BatchTypeOK ==
  /\ job \in [Papers -> JobStates]
  /\ freeSlots \in 0..BatchSlots
  /\ freeApi \in 0..ApiSlots
  /\ cooling \subseteq ApiKeys
  /\ turn \in ApiKeys
  /\ loop \in [pc : {"next", "await", "insert", "report", "ended", "cancelled", "raised"},
               done : 0..Cardinality(Papers), got : SUBSET Papers]
  /\ rows \subseteq Papers
  /\ records \subseteq Papers
  /\ revoked \in BOOLEAN

Fresh == [pc |-> "wait", try |-> 0, net |-> 0, key |-> NoKey, verdict |-> "none"]

BatchInit ==
  /\ job = [i \in Papers |-> Fresh]
  /\ freeSlots = BatchSlots
  /\ freeApi = ApiSlots
  /\ cooling = {}
  /\ turn = 1
  /\ loop = [pc |-> "next", done |-> 0, got |-> {}]
  /\ rows = {}
  /\ records = {}
  /\ revoked = FALSE
-----------------------------------------------------------------------------
Enter(i) ==
  /\ job[i].pc = "wait" /\ freeSlots > 0
  /\ freeSlots' = freeSlots - 1
  /\ job' = [job EXCEPT ![i].pc = "pick"]
  /\ UNCHANGED <<freeApi, cooling, turn, loop, rows, records, revoked>>

(* The job is over, one way or the other, and leaves the batch semaphore.  *)
Leave(i, pc) ==
  /\ job' = [job EXCEPT ![i] = [Fresh EXCEPT !.pc = pc, !.verdict = job[i].verdict]]
  /\ freeSlots' = freeSlots + 1

(* An attempt of _call_qwen_json picks its key first and queues for the    *)
(* API after that; a key that starts to rest meanwhile is used all the     *)
(* same.                                                                   *)
PickKey(i) ==
  /\ job[i].pc = "pick"
  /\ LET k == Pick(turn, cooling) IN
     /\ turn' = IndexAfter(turn, k)
     /\ IF k = NoKey THEN Leave(i, "failed")
        ELSE job' = [job EXCEPT ![i].pc = "queue", ![i].key = k] /\ UNCHANGED freeSlots
  /\ UNCHANGED <<freeApi, cooling, loop, rows, records, revoked>>

EnterApi(i) ==
  /\ job[i].pc = "queue" /\ freeApi > 0
  /\ freeApi' = freeApi - 1
  /\ job' = [job EXCEPT ![i].pc = "call"]
  /\ UNCHANGED <<freeSlots, cooling, turn, loop, rows, records, revoked>>

LeaveApi == freeApi' = freeApi + 1

(* A readable page goes to the cognitive engine; an unreadable or a blank  *)
(* one is rejected without it.                                             *)
Perceived(i) ==
  /\ job[i].pc = "call"
  /\ LeaveApi
  /\ job' \in {[job EXCEPT ![i] = [Fresh EXCEPT !.pc = "grade"]],
              [job EXCEPT ![i] = [Fresh EXCEPT !.pc = "log", !.verdict = "rejected"]]}
  /\ UNCHANGED <<freeSlots, cooling, turn, loop, rows, records, revoked>>

(* An answer that is no JSON, but an answer: the count of network errors   *)
(* starts again, and the pause is taken inside the semaphore.              *)
Unparsable(i) ==
  /\ job[i].pc = "call"
  /\ job' = [job EXCEPT ![i].pc = "sulk", ![i].net = 0, ![i].key = NoKey]
  /\ UNCHANGED <<freeSlots, freeApi, cooling, turn, loop, rows, records, revoked>>

QwenRateLimited(i) ==
  /\ job[i].pc = "call"
  /\ LeaveApi
  /\ cooling' = cooling \cup {job[i].key}
  /\ job' = [job EXCEPT ![i].pc = "pause", ![i].net = 0, ![i].key = NoKey]
  /\ UNCHANGED <<freeSlots, turn, loop, rows, records, revoked>>

NetworkError(i) ==
  /\ job[i].pc = "call"
  /\ LeaveApi
  /\ IF job[i].net = NetErrors THEN Leave(i, "failed")
     ELSE /\ job' = [job EXCEPT ![i].pc = "pause", ![i].net = @ + 1, ![i].key = NoKey]
          /\ UNCHANGED freeSlots
  /\ UNCHANGED <<cooling, turn, loop, rows, records, revoked>>

(* An open breaker, an empty answer, a page that fails its schema.         *)
CallRaises(i) ==
  /\ job[i].pc = "call"
  /\ LeaveApi
  /\ Leave(i, "failed")
  /\ UNCHANGED <<cooling, turn, loop, rows, records, revoked>>

TryAgain(i) ==
  IF job[i].try = QwenRetries THEN Leave(i, "failed")
  ELSE /\ job' = [job EXCEPT ![i].pc = "pick", ![i].try = @ + 1]
       /\ UNCHANGED freeSlots

(* Mutant: the semaphore is not left after an answer without JSON.         *)
SulkOverSlotKept(i) ==
  /\ job[i].pc = "sulk"
  /\ TryAgain(i)
  /\ UNCHANGED <<freeApi, cooling, turn, loop, rows, records, revoked>>

SulkOver(i) ==
  /\ job[i].pc = "sulk"
  /\ LeaveApi
  /\ TryAgain(i)
  /\ UNCHANGED <<cooling, turn, loop, rows, records, revoked>>

PauseOver(i) ==
  /\ job[i].pc = "pause"
  /\ TryAgain(i)
  /\ UNCHANGED <<freeApi, cooling, turn, loop, rows, records, revoked>>

QwenKeyCools(k) ==
  /\ k \in cooling
  /\ cooling' = cooling \ {k}
  /\ UNCHANGED <<job, freeSlots, freeApi, turn, loop, rows, records, revoked>>

(* evaluate_logic, module CognitiveEngine.                                 *)
Graded(i) ==
  /\ job[i].pc = "grade"
  /\ \/ \E v \in {"scored", "rejected"} :
          job' = [job EXCEPT ![i].pc = "log", ![i].verdict = v] /\ UNCHANGED freeSlots
     \/ Leave(i, "failed")
  /\ UNCHANGED <<freeApi, cooling, turn, loop, rows, records, revoked>>

(* Mutant: the record is left to whoever stores the row.                   *)
LogRejectedUnlogged(i) ==
  /\ job[i].pc = "log"
  /\ Leave(i, "done")
  /\ UNCHANGED <<freeApi, cooling, turn, loop, rows, records, revoked>>

(* A rejected paper gets its hygiene record here, in the job.              *)
LogRejected(i) ==
  /\ job[i].pc = "log"
  /\ \/ /\ records' = IF job[i].verdict = "rejected" THEN records \cup {i} ELSE records
        /\ Leave(i, "done")
     \/ job[i].verdict = "rejected" /\ Leave(i, "failed") /\ UNCHANGED records
  /\ UNCHANGED <<freeApi, cooling, turn, loop, rows, revoked>>
-----------------------------------------------------------------------------
(* The loop.                                                               *)
Left == {"ended", "cancelled", "raised"}

(* Mutant: the first look is taken before any paper.                       *)
LooksNowAtOnce == loop.done % CheckEvery = 0

LooksNow == loop.done > 0 /\ loop.done % CheckEvery = 0

(* Between two papers: the end, or a look at the status every so often,    *)
(* which is skipped when the read fails.                                   *)
NextPaper ==
  /\ loop.pc = "next"
  /\ IF loop.done = Cardinality(Papers) THEN loop' = [loop EXCEPT !.pc = "ended"]
     ELSE \/ loop' = [loop EXCEPT !.pc = "await"]
          \/ LooksNow /\ revoked /\ loop' = [loop EXCEPT !.pc = "cancelled"]
  /\ UNCHANGED <<job, freeSlots, freeApi, cooling, turn, rows, records, revoked>>

(* await job: its result, or its exception, which leaves the loop.         *)
TakeResult(i) ==
  /\ loop.pc = "await" /\ job[i].pc \in {"done", "failed"}
  /\ job' = [job EXCEPT ![i].pc = "taken"]
  /\ loop' = IF job[i].pc = "done" THEN [loop EXCEPT !.pc = "insert", !.got = {i}]
             ELSE [loop EXCEPT !.pc = "raised"]
  /\ UNCHANGED <<freeSlots, freeApi, cooling, turn, rows, records, revoked>>

StoreRow ==
  /\ loop.pc = "insert"
  /\ \/ rows' = rows \cup loop.got /\ loop' = [loop EXCEPT !.pc = "report"]
     \/ rows' = rows /\ loop' = [loop EXCEPT !.pc = "raised", !.got = {}]
  /\ UNCHANGED <<job, freeSlots, freeApi, cooling, turn, records, revoked>>

(* Progress and heartbeat.                                                 *)
Report ==
  /\ loop.pc = "report"
  /\ loop' \in {[pc |-> "next", done |-> loop.done + 1, got |-> {}],
                [pc |-> "raised", done |-> loop.done + 1, got |-> {}]}
  /\ UNCHANGED <<job, freeSlots, freeApi, cooling, turn, rows, records, revoked>>

Revoke ==
  /\ ~revoked
  /\ revoked' = TRUE
  /\ UNCHANGED <<job, freeSlots, freeApi, cooling, turn, loop, rows, records>>
-----------------------------------------------------------------------------
JobStep(i) ==
  \/ Enter(i) \/ PickKey(i) \/ EnterApi(i)
  \/ Perceived(i) \/ Unparsable(i) \/ QwenRateLimited(i) \/ NetworkError(i) \/ CallRaises(i)
  \/ SulkOver(i) \/ PauseOver(i) \/ Graded(i) \/ LogRejected(i)

LoopStep == NextPaper \/ (\E i \in Papers : TakeResult(i)) \/ StoreRow \/ Report

BatchNext ==
  \/ \E i \in Papers : JobStep(i)
  \/ \E k \in ApiKeys : QwenKeyCools(k)
  \/ LoopStep \/ Revoke

(* The event loop runs as long as the loop below waits on it; calls time   *)
(* out.  A job that was left behind is owed nothing.                       *)
BatchFairness ==
  /\ \A i \in Papers : WF_batchVars(loop.pc \notin Left /\ JobStep(i))
  /\ WF_batchVars(LoopStep)

BatchSpec == BatchInit /\ [][BatchNext]_batchVars
FairBatchSpec == BatchSpec /\ BatchFairness
-----------------------------------------------------------------------------
(* An attempt that waits for its papers gets out of the loop, whichever of *)
(* them fail and however they fail: no way out of a job keeps a semaphore  *)
(* the others wait for.                                                    *)
BatchEnds == loop.pc = "await" ~> loop.pc \in Left

(* Records and rows are written by different tasks.  A rejected paper is   *)
(* on record before its row is there; a record without its row belongs to  *)
(* a paper whose result was not stored yet, and when the loop has ended    *)
(* there is none.                                                          *)
RecordsMatchRows ==
  /\ \A i \in rows : job[i].verdict = "rejected" <=> i \in records
  /\ loop.pc = "ended" => rows = Papers /\ records \subseteq rows

(***************************************************************************)
(* The jobs and the loop implement what TaskLifecycle has an attempt do    *)
(* while it grades a batch: an item there is a paper whose row is stored,  *)
(* and the record that its job made before counts from then on.  Whether   *)
(* to look at the status next is decided there with the row, here after    *)
(* the report.                                                             *)
(***************************************************************************)
gradingPc ==
  CASE loop.pc = "raised" -> "fail"
    [] loop.pc \in {"await", "insert"} -> "grade"
    [] loop.pc \in {"ended", "cancelled"} -> "commit"
    [] loop.pc \in {"next", "report"} ->
         IF rows = Papers THEN "commit"
         ELSE IF rows # {} /\ Cardinality(rows) % CheckEvery = 0 THEN "check"
         ELSE "grade"

attempt == [pc |-> gradingPc, task |-> "batch", retries |-> 0, done |-> rows,
            verdicts |-> {job[i].verdict : i \in rows}]

idle == [pc |-> "idle", task |-> "no task", retries |-> 0, done |-> {},
         verdicts |-> {}]

column == [status   |-> IF revoked THEN "CANCELLED" ELSE "PROCESSING",
           celeryId |-> "celery", grading |-> "null", review |-> "NOT_REQUIRED",
           fallback |-> IF revoked THEN "TEACHER_CANCELLED" ELSE "null"]

counted == [i \in Papers |-> [v \in Verdicts |->
              IF i \in rows /\ job[i].verdict = v THEN 1 ELSE 0]]

Of(x) == [t \in {"batch"} |-> x]

Lifecycle == INSTANCE TaskLifecycle WITH
  Tasks <- {"batch"}, Workers <- {"worker"}, BatchTasks <- {"batch"},
  MaxRetries <- 0, MaxFaults <- 0, MaxCancels <- 1, MaxReplays <- 0, MaxAged <- 0,
  Outcomes <- {"scored", "rejected"},
  task <- Of(column), rows <- Of(counted), hygiene <- Of(rows \cap records # {}),
  files <- Of(TRUE), aged <- Of(FALSE), queue <- Of([n \in {0} |-> 0]), revoked <- {},
  dlq <- Of(0),
  api <- Of("done"), cancel <- Of("none"), replay <- Of("none"),
  run <- [r \in {"worker", "batch"} |-> IF r = "worker" THEN attempt ELSE idle],
  faults <- 0, cancels <- 0, replays <- 0

GradingStep ==
  \/ \E i \in loop.got :
       /\ job[i].verdict \in {"scored", "rejected"}
       /\ Lifecycle!GradeItem("worker", i, job[i].verdict)
  \/ loop.pc = "next" /\ Lifecycle!CheckCancelled("worker")
  \/ loop'.pc = "raised" /\ Lifecycle!StepRaises("worker")

TeacherCancels ==
  /\ Revoke
  /\ Lifecycle!UpdateTaskStatus("batch", Lifecycle!Cancelled("batch"))

lifecycleVars == <<attempt, column, counted, rows \cap records # {}>>

GradesAsAttempt ==
  /\ gradingPc = "grade" /\ rows = {}
  /\ [][GradingStep \/ TeacherCancels]_lifecycleVars
=============================================================================
