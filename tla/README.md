# Verification of the homework grading service

TLA+ models of the service in this repository, the TLC runs that check them and
the proofs TLAPS checks.  The repository is the reference; paths are relative
to its root, and `PROJECT.json` gives the lines behind every definition.

## 1. The system

A teacher submits scans of homework over HTTP.  The API stores the files, inserts
a `tasks` row and puts a Celery message on Redis.  A worker takes the message,
reads the files, has a vision model transcribe them and a language model grade
them, and writes results, a hygiene record for unreadable papers and the final
status.  The browser follows the task over SSE, and a review desk works through
what needs a person.

| Component | State | Operations | Talks to |
|---|---|---|---|
| Task store (`src/db/dao/tasks.py`, `src/db/client.py`) | one row per task: status, celery id, grading and review status, fallback reason, heartbeat | create, weight-guarded `update_task_status`, celery id, heartbeat, two sweeps | everyone, through SQLite transactions |
| Submission and cancel API (`src/api/routers/grade.py`) | none; handlers with awaits between their steps | submit (single, batch, batch with reference), cancel | store, storage, broker |
| Worker attempt (`src/worker/main.py`) | the attempt: task, retries, items done | try body, three except blocks, retry, time limits | everything |
| Broker (Celery on Redis) | messages with a retries header, the revoked set | deliver, acknowledge, redeliver, revoke | API, workers, replay |
| Sweepers (`src/worker/beat.py`) | none | fail stale PROCESSING rows, fail orphaned PENDING rows, delete old uploads | store, storage |
| Dead letter queue (`src/worker/dlq.py`) | a Redis list | route, inspect, replay, purge | broker |
| Upload storage (`src/core/storage_adapter.py`) | a directory per task | store, retrieve, clean up | API, worker |
| Results and hygiene log (`src/db/dao/results.py`, `hygiene.py`) | rows per item; interception records | insert, list, review actions | worker, review desk |
| Status stream (`src/api/sse.py`, `src/worker/pubsub.py`) | subscriptions, last event sent | subscribe, publish, close | store, workers, cancel |
| Circuit breaker (`src/core/circuit_breaker.py`) | Redis keys, or a process-local copy after a Redis error | guard a call, count its outcome, reset | engines |
| Key pool, runtime router (`src/core/connection_pool.py`, `runtime_router.py`) | cooldown per key; a window of recent calls | pick a key, report 429; route a call | engines |
| Engines and workflow (`src/cognitive`, `src/perception`, `src/orchestration`) | per-call retry loop | evaluate, perceive, short circuit | breaker, pool, router, prompts |
| Prompt provider (`src/prompts`) | L1 and L2 caches, last known good, single-flight locks | resolve, refresh, invalidate | engines, Redis |
| Review desk (`src/api/routers/review.py`) | review decisions, annotations | decide, annotate, act on hygiene records | store |
| Rubrics (`src/api/routers/rubric.py`) | rubric rows, a generation audit | generate with deduplication, bind to a batch | store, engines |
| Operations console (`src/api/routers/ops.py`, `src/db/dao/ops.py`) | settings of the process, rows for some of them, the audit log | change settings, invalidate prompts, drill, clean up | provider, router, store, storage |
| Schema migration (`src/db/client.py`) | the SQLite schema | add columns, create and rebuild tables | every process at its start and before its writes |
| Skills, authentication, parsers, scripts | none | requests and conversions | API, worker |

What is hard here: a task id may be executed by several attempts at once
(redelivery, an unconfirmed dispatch that also falls back to local execution,
replay), each step of an attempt is its own transaction, and cancellation,
sweepers, time limits and crashes cut in anywhere.  Correct means: the status
of a row never regresses; a COMPLETED row has the results, hygiene record and
files its readers expect; a cancelled task stays cancelled; a task always ends
somewhere; messages do not circulate for ever.  `PROJECT.json` lists each
hazard at its line with the properties that watch it.

Around that core, each part has its own: events are published after the row is
written and nobody keeps them for a late subscriber; evaluations share keys and
a routing window that drills also write; prompts are cached twice and fall back
to whatever was good last; console changes are applied, stored and logged in
three steps; uploads share a directory by file name; the review pages join
tables they read at different times; and every process migrates the same
SQLite file, where a DDL statement may commit on its own.

## 2. Modules

| Module | Models |
|---|---|
| `TaskStates` | status values and weights, verdicts and their projection on the row's columns |
| `TaskStatus` | abstract: what the store promises its readers about `tasks.status` |
| `GradedTask` | abstract: what the readers of a task rely on - its status with its results, its hygiene record and its uploads |
| `TaskTable` | abstract: the tasks table as every process finds it while others migrate the file |
| `TaskLifecycle` | the core: submission, dispatch with local fallback, broker, worker attempts, cancel, sweepers, dead letters |
| `MCTaskLifecycle` | TLC instances, and the claims of comments and documents the code does not keep |
| `TaskLifecycleType_proofs`, `TaskLifecycleSafety_proofs`, `TaskLifecycleResults_proofs` | theorems about the lifecycle: types; files, dead letters and the refinement of `TaskStatus`; results, hygiene log, cancellation, orphans and the refinement of `GradedTask` |
| `Breaker` | abstract: a circuit breaker as its callers understand it |
| `CircuitBreaker` | the breaker over Redis with its local fallback, one Redis command a step |
| `CircuitBreaker_proofs` | theorems about the breaker, its two refinements of `Breaker` included |
| `KeyPool`, `RuntimeRouter` | rotation and cooling of keys; the window of samples and the decision to degrade |
| `CognitiveEngine` | the attempts of `evaluate_logic` over both, rubric generation and the model drill |
| `MCEngine` | TLC instance of the engine and of the breaker |
| `BatchRun` | the papers inside one attempt: batch and API semaphores, Qwen's loop, the `as_completed` loop and the jobs it leaves behind; implements the attempt of `TaskLifecycle` |
| `StatusStream` | the SSE stream beside every writer of the row and of the channel |
| `MCAttempt` | TLC instance of both |
| `PromptCache`, `PromptRouting` | `resolve` with two cache levels, single flight, fallback and invalidation; which variant a caller gets |
| `OpsConsole` | the console's writing endpoints, the settings, the audit log and its pages |
| `UploadStore` | files of a submission: limits, names, local and S3 storage, student ids, retrieval, both clean-ups |
| `Rubrics` | generation by teachers and by batches, deduplicated by fingerprint |
| `ReviewDesk` | pool, queue and workbench pages, decisions, review status, annotations, beside the task's attempts |
| `SchemaMigration` | the statements of the migrations, SQLite's implicit transactions and lock retries |
| `MCServices` | TLC instance of the seven modules about the API process |
| `StatusStream_proofs`, `PromptCache_proofs` | theorems about streams; about the prompt caches and the routing |
| `Engines_proofs` | theorems about key pool, router and engine, and about batches, their refinement of `TaskLifecycle`'s attempt included |
| `Services_proofs` | theorems about uploads, rubrics, the review desk, migrations and their refinement of `TaskTable`, and the console |
| `MCPromptCache`, `MCUploadStore` | claims of docstrings the code does not keep |

### TaskLifecycle and the code

A *runner* executes attempts of `grade_homework_task`: a worker process, or the
FastAPI background task of a submission that could not be queued (named by its
task, with no time limit, lost when the API process dies).  `run[r].pc` is the
place in the function: `precheck mark fetch grade check hygiene commit publish`
in the try body, `reject_*`, `timeout`, `fail`, `retry`, `cleanup`,
`deadletter` in the except blocks, `ack` when only the acknowledgement is left.
One step is one transaction or one external effect; a step that raises goes to
`fail` (`StepRaises`), and an error inside an except block leaves the function
with its message acknowledged (`HandlerRaises`).

* `UpdateTaskStatus` is the SQL `UPDATE` with its weight `CASE`: the whole row
  changes or nothing does, and the caller cannot tell.  The sweepers have
  guards of their own (`WHERE status = ...`) and are written as such.
* `rows` counts result rows per item and verdict because the inserts are plain
  `INSERT`s; the hygiene log and the upload directory are booleans per task.
* Uploads go in two ways: the worker deletes those of a task that has failed
  for good (`CleanUpFiles`), and the daily `upload_ttl_cleanup_task`
  (`src/worker/beat.py`), like the console's clean-up, deletes what is older
  than its TTL, whatever the task's status.  `aged[t]` says that the uploads of
  `t` are past that age: `UploadsAge` sets it, `TtlCleanup` deletes.  A row is
  therefore promised its files only while they are young, and `GradedTask` and
  `CompletedKeepsFiles` say so; `src/api/routers/grade.py` answers 410 later.
* `queue[t][n]` counts messages of `t` with retries header `n`.  Acknowledgement is
  late, so a crash puts the message back (`WorkerCrash`), the hard limit
  acknowledges it (`HardTimeLimit`), and `revoke` makes workers drop it.
* `cancel[t]` is the place of the cancel handler: it reads, revokes, removes
  messages, writes and publishes in separate steps.
* A stale heartbeat is not modelled as time: a single submission beats once and
  may outlive the 600 s of the sweeper, so `SweepProcessing` may strike any
  PROCESSING row.  `SweepPending` waits only for the submit handler, which lives
  seconds against the sweeper's 900.
* Data is abstracted to a verdict per item (`scored`, `needs_review`,
  `rejected`); progress, eta, telemetry and messages are left out.
* Simplification: in a batch the hygiene record and the result row of an item
  are one step.  A record whose item is never stored is therefore missing;
  every property about the log only asks that records exist.  `BatchRun` has the
  two apart, and `GradesAsAttempt` says that it implements this step.
* `ContractSpec` maps the rows to `GradedTask`: the status, what a COMPLETED row
  says of the grading, the items with a result, the log, the uploads and their
  age.

### CircuitBreaker and the code

`src/core/circuit_breaker.py` keeps five Redis keys per breaker, shared by every
engine object of every process.  `redis` is those keys, with missing values read
as the code reads them and `last_failure` reduced to `cooling` (younger than
`recovery_timeout`); `local[b]` is the fields of one object; `pc[<<b, s>>]` is
where a call of that object is between two awaits.  Each Redis command is a step
and the guarded call lies between two steps, so calls interleave everywhere the
event loop and other processes allow it.

* A call moves `ReadState`, then, by what it read, straight to `calling`, or
  through `ReadTimeout`, `SetHalfOpen`, `DropSuccesses`, `SyncProbe` to
  `AcquireProbeLock` and `probing`; it comes back through `OnSuccess` or
  `OnFailure`, which read the state again, and ends with `Sync`.
* A `RedisError` at any command (`RedisFails`) switches the object to its fields
  for good and runs the guarded function, for a second time when the first
  outcome was being counted.  The local path awaits nothing but the call.
* `LockExpires` is `ex=15`; `Abandon` a process that stops between two commands;
  `troubles` counts both kinds of trouble, bounded by `MaxTroubles`.
* `_sync_local_snapshot` reads three keys in one step; they only feed the fields.
* `Own(b)` reads the fields of an object on its own copy as a `Breaker`; counts
  that the state gives no meaning to are left over, and read as 0.
* `Elapse` waits while a call is between writing `last_failure` and writing
  `open`: a round trip against a timeout of 60 s or more.

### The engines and the attempt

* `CognitiveEngine`: `eval[c].pc` is the place in the loop: `try` (key and
  model are taken without an await), `request` (the provider, behind the
  breaker), `sleep`.  Which exception a request ends with is open, so the
  breaker and the parser are outcomes here and modules elsewhere; each outcome
  leaves the samples its `except` block records.  `burnt` and `badRun` are
  history variables: keys this evaluation got a 429 on, and attempts since the
  last report.  The prompt, and what it is parsed to, is data; a size in tokens
  remains, because the router decides by it.
* `RuntimeRouter`: the window with rate and median; percentages are compared by
  multiplication.  The controller is on and no paper is heavily altered: with
  the one off, or for the other, the decision does not look at the window.  The
  drills other than the model drill leave no state.
* `BatchRun`: one job per paper with its place in `_process_one_batch_item` and
  `process_images`; a job that the loop no longer awaits keeps its semaphore
  places and moves only when something else runs on the worker's event loop.
  For `TaskLifecycle` an item is a paper whose row is stored; a record its job
  made earlier counts from then on; `gradingPc` is the place in the attempt, with
  the look at the status decided together with the row, as `TaskLifecycle` does.
* `StatusStream`: a writer writes the row, then publishes; `Publish` reaches the
  streams subscribed at that moment.  `expired` stands for the stream's clock,
  `late` is a history variable.  Sweepers and clean-ups write without
  publishing, which is why a stream may end by its timeout.

### The API process

* `PromptCache`: between two awaits that yield (Redis, the lock) `resolve` is
  one step.  A cache key is the version and the payload: the fingerprint of
  the variables is modelled as injective.  Level 1 has fresh and stale entries;
  a stale one starts a refresh.  In the code each stale hit starts one; they
  wait for one lock and store the same prompt of the file as it is then, and the
  model keeps one per key.  The pull reconciler and the Redis subscription
  call `invalidate` as the console does.
* `PromptRouting`: a hash is a number, the hundred of a percentage is `Slices`.
  One caller, as callers do not meet; what changes under it is the
  configuration, the forced variant and the file.
* `OpsConsole`: an endpoint is a record of what it does (flag, process, row),
  and its request takes the steps the record has, each able to fail; `Restart`
  loses the process and reads nothing back, as in the code.  `disturbed` marks
  conflicting changes that overlapped or failed midway, which the code does not
  order.
* `UploadStore`: the content of a file is its place in the request.  A stem is
  a sequence of a base and counts, so that the ids `derive_student_ids`
  appends counts to can collide with a name that has one.  `Runners` are
  attempts at the task that may overlap, each reading the files anew: any of
  them may fail after it has read them (`Raise`), be retried or redelivered with
  the files left alone (`Retry`), or give up and delete them (`GiveUp`: the
  retries are used up, or the soft time limit has passed), whereupon a replay or
  an attempt beside it finds nothing.  On S3 a name is cut at `#` or `?` when it
  is read back, and what is left may be the name of another file (`Cut`).
* `Rubrics`: `lookedAt` is how many rubrics there were when the maker looked,
  which says who overlapped whom.
* `ReviewDesk`: a page is read in the order of its queries, one query a step.
  Attempts follow each other; `settledBy` is the one that completed the task.
  A decision may be about any sample, whether the task has it or not.
  `Rank` has the two buckets that a verdict decides; those that the numbers in
  a report decide (low confidence, weak evidence) are taken with the general
  one, so a review target is one for its verdict, and the properties speak of
  verdicts only.
* `SchemaMigration`: a process runs the list of statements of its kind
  (`init_db`, the script, a DAO before it writes a task, one before it saves a
  rubric).  `txn` is the open write transaction with its view; DDL outside one
  goes straight to the file.  `SchemaScript` is `src/db/schema.sql`: its tables,
  and its index on `rubrics(source_fingerprint)`, the one index over a column
  that an older file may lack.

## 3. Runs

The lifecycle runs use `MCTaskLifecycle`, bounded by `MaxFaults` (crashes and
unconfirmed dispatches), `MaxCancels`, `MaxReplays`, `MaxAged` (tasks whose
uploads outlive their TTL) and the code's own `MaxRetries`.  `MaxAged` is 1, and
0 in `lifecycle_liveness`: to an attempt whose files are gone the step `fetch`
raises, and any step may raise there anyway.  `MCEngine`, `MCAttempt` and `MCServices` put modules that share
no variable side by side: a behaviour is one of its `focus`, the others rest in
one initial state, so a run costs the sum of the state graphs, not the product.

| Run | Instance | Shows |
|---|---|---|
| `lifecycle_overlap` | 1 task, 2 workers, 1 retry, 1 fault, scored/rejected | overlapping attempts implement `GradedTask` (`ContractSpec`): a row turns COMPLETED only with results, record and files (until these are older than they are kept), and only FAILED or CANCELLED follow |
| `lifecycle_batch` | 1 batch of 2 items, a check after each item, 1 retry, 1 cancel, all verdicts | partial batches, hygiene log, cancellation inside the loop |
| `lifecycle_replay` | 1 task, 2 workers, no retry, 1 fault, 1 replay | dead letters are final; the orphan sweeper spares queued tasks, with two named exceptions: the API died before writing the celery id, or took a sent message for lost |
| `lifecycle_liveness` | 1 task, 1 worker, 1 retry, 1 fault, 1 cancel | `Settles`, `QueueDrains` |
| `breaker_recovery` | 1 engine, 2 concurrent calls, thresholds 2 and 2, a Redis error or an abandoned call | `FullCountIsTripping`, `Recovers`; the copy of an object without Redis implements `Breaker` (`OwnCopyIsBreaker`) |
| `engine` | 2 evaluations of 2 attempts, 2 keys, a window of 2, 3 sizes; and 1 breaker, 1 call, thresholds 3 and 2 | 429s, routing during and after an outage; the breaker's keys implement `Breaker` |
| `attempt` | 3 papers, 2 slots, 1 API slot, 1 key; and 1 stream, 2 attempts, a cancel, a clean-up, 1 Redis error, 1 sweep | rows and records of a batch, its end, and that it implements the attempt of `TaskLifecycle` (`GradesAsAttempt`); events against the row, the end of streams |
| `services` | the seven parts of the API process, two of each actor, one fault each | the properties of each part, among them that a file is missing only after somebody gave up, or days later (`MissingOnlyOnceGivenUp`), and that the remains of a migration stop nobody (`LeftoversDoNotBlock`); the migrations implement `TaskTable` (`TableSpec`) |

Why the bounds suffice: in the lifecycle, every property concerns one task, or
one task and another one beside it; two workers plus the local runner give three concurrent
attempts of the same task, one more than any interference found needs; one
retry distinguishes first, middle and last attempts.  Two items and
`CheckEvery = 1` reach every position of a cancellation in a batch; the code
checks every third item.

In `engine` a window of 2 holds every mixture of outcomes and is pushed full by
one evaluation; two keys are the least that can rotate under a caller.  In
`attempt` three papers over two slots and one API place leave one paper waiting
at each, the look at the status (`CheckEvery = 2`) falls between two papers, and
two attempts of one task overlap.  In `services`: two requests and
two payloads, one too large to render, make every race for a lock and every
fallback; three variants, three weightings and three hashes reach each boundary
of a share; three files are the least with two of one name and another, and an
object listing of 2 is exceeded by them (names with a `#` are left to the object
store, the local one does not tell them from others); two attempts are enough for one to
clean up under the other, and each may be retried or replayed without bound;
two migrating processes, each started twice, meet at every statement, on an
empty file, on two older ones and on one whose rubrics have no fingerprint.  The symmetry swaps two requests, operators,
students or processes, of which one kind matters in a behaviour.

Fairness (`FairSpec`): handlers and attempts that have begun go on; an idle
worker eventually takes a waiting message (strong fairness, as it is disabled
whenever all workers are busy); the sweepers run each minute as
`src/worker/beat.py` schedules.  Submitting, cancelling, replaying and failing
are never forced.  `Settles` has one named exception, `Stranded`: a PENDING row
with a real celery id whose message is gone is selected by no sweeper.

The other fairness is of the same kind.  `EngineFairness`: an evaluation that has
begun goes on, new ones keep coming, cooldowns run out; whether the provider
answers is left open (`settled` says that it does from now on).
`BatchFairness`: jobs go on while the loop awaits them, as the event loop runs
then and only then.  `StreamFairness`: a stream goes on and its time passes;
nothing is asked of the writers.

In the breaker two calls reach every pair of program points, and one call at a
time is what the abstract breaker is about: with two, a success that arrives
late in `half_open` counts as a probe, and there is no atomic breaker the keys
implement.  The thresholds only set how long the counts take; with 3, failures
have a count that is neither empty nor about to be full.  `MaxTroubles` is 1.
Its fairness: calls keep arriving and go on once begun, time passes and keys
expire; `Settle` says that from some point on the provider answers, Redis does
not fail and nobody is killed or resets, which is when recovery is promised.
`Recovers` excepts `Wedged`: a local probe that ended in an exception outside
`expected_exceptions`, or was cut off, leaves `_local_probe_in_progress` up, and
in `half_open` only `reset` takes it down.

Each property has a mutant of the code in `PROJECT.json` under which its run
fails, so none holds by the shape of the model.

### Disagreements between the code and what is said of it

Four runs are expected to find a violation; the findings quote the claims.

1. `lifecycle_retry`: a retry that succeeds cannot record COMPLETED, because
   the failed attempt has already written FAILED, which outranks it.
2. `lifecycle_cancel_race`: a task completing between the cancel handler's read
   and its write goes from COMPLETED to CANCELLED.
3. `prompt_lkg`: the last known good prompt is kept per prompt key, so a request
   that fails is answered with the prompt of another submission.
4. `uploads_overwrite`: two files of a batch with one name are one file in the
   store, and both papers are graded on the second.

## 4. Proofs

Every invariant and every action property the passing runs check is proved for
all values of the constants, and so are the refinements.  A theorem rests on
the `ASSUME` of its component's module, which says what sort of things the
constants are, and on nothing else unless it is named here.  Each proof goes by
an inductive invariant: the property, and what else must be true for a step to
keep it.

### The lifecycle

For every set of tasks and workers, every batch size, and all bounds.

* `TypeCorrect`: `Spec => []TypeOK`.
* `FilesOfCompletedTasks`, `DeadLettersAreFinal`: the invariants
  `CompletedKeepsFiles` (the files of a COMPLETED task are there, or have
  outlived their TTL) and `DeadLetterIsFinal`.  They are not inductive: an
  attempt deletes files two steps after it failed the row, and other attempts
  act in between.  `SafeInv` adds to `TypeInv`: `Begun` (a task that is queued or
  under way has been submitted, and a submitted task has a row), `Doomed` (the
  task of an attempt in `retry`, `cleanup` or `deadletter` is FAILED or CANCELLED:
  the write of FAILED either applies or finds a status at least as heavy),
  `FilesKept` (a submitted task whose files are gone is FAILED or CANCELLED, or
  they have outlived their TTL).
  Weights do the rest: from FAILED and CANCELLED no write leads back to
  COMPLETED.
* `StoreImplemented`: the lifecycle implements `TaskStatus` under
  `status <- [t |-> task[t].status]`.
* `ContractImplemented`: the lifecycle implements `GradedTask`, from `ResultInv`
  below: its parts say exactly what a commit must have found done when it writes
  COMPLETED, and `FilesKept` that the uploads are
  still there or have outlived their TTL.  `StoreImplemented`
  and `FilesOfCompletedTasks` are about the same rows, each under the smaller
  invariant it needs.
* `CompletedTasksHaveResults`, `RejectionsAreLogged`: `ResultInv` adds to
  `SafeInv` that an attempt that saw a rejection and goes on to commit has logged
  it (`Logged`), that
  what an attempt counts as done is stored, and that it commits when all items
  are, or when it has found the task cancelled, which no commit outranks
  (`Stored`).  A local runner that dies, a redelivery and a replay begin with
  nothing done, so they owe nothing.
* `OrphansAreOrphans`: `OrphanInv` adds that a task whose submission has not reached the
  broker has no message, no attempt and no dead letter (`Untouched`), and that what the
  sweeper saw of the task it gave up is still true of it (`OrphanOrphaned`).
* `CancellationHolds`: an action property; from `TypeInv`, as every attempt
  reads the row in `precheck` before it grades.

The frame lemmas name the few actions that touch each variable, so that the step
lemmas have a case for those only.

### The breaker

For any number of engines and concurrent calls, any thresholds and bounds.

* `BreakerTypeCorrect`: `Spec => []TypeOK`.
* `FullCountNeverLies`: `Spec => []FullCountIsTripping`.  With `TypeOK` it is
  inductive: every step either empties the count, is one of the excused
  troubles, moves a call along `stamp_trip`, `trip`, `clear_trip`, or belongs to
  a call that is not there and leaves the count alone; only `CountFailure`
  raises the count, and the call whose `incr` returns the threshold goes to
  `stamp_trip`.
* `BreakerImplemented`: `Spec => BreakerSpec` if there is one call at a time and
  `MaxTroubles = 0`, for any thresholds.  With two calls a success that arrives
  late in `half_open` counts as a probe, and after a Redis error the object goes
  on without the keys: in neither case is there an atomic breaker the keys
  implement.  `SoloInv` says which values of the keys go with each place of
  the call, so that each Redis command is a step of `Breaker` or none.
* `OwnCopyImplemented`: `Spec => OwnCopyIsBreaker`, without those restrictions: an
  object that works on its own fields, the last of its calls on Redis being over,
  takes only steps of `Breaker` and stays on its own, with any number of
  concurrent calls and whatever its fields were when it left Redis.  It needs no
  more than `TypeOK`, because the local path awaits nothing but the guarded call;
  that is what the five keys lack.

### Key pool, router, engine, batch

For any number of evaluations, keys, attempts and papers.

* `EnginesAreTyped`: the window never outgrows its size.
* `BurntKeysStayUnused`: `BurntKeysRest`.  `PoolInv` adds that the keys an
  evaluation saw rate limited rest until their cooldown ends (`KeyCools`), and
  that a request is not on one of them: wherever the others have left the index,
  `Pick` returns a key that does not rest or none.
* `SilentProvidersAreNoticed`: `SilenceIsNoticed`, for `RatePercent <= 50`; the
  code's default is 30 (`src/core/config.py`).  Half is the bound because an
  attempt whose report fails its schema has left a success beside its failure.
  `EngineInv` adds `Soberly`: of the attempts since the last report each left a
  sample, and every success among those has its failure right after it, however
  far the window has been trimmed.
* `BatchIsTyped`, `SemaphoresLimit`: free places and jobs inside make up the
  size of each semaphore (`SlotsInv`), the jobs the loop left behind included, so
  no way out of a job gives a place back twice.
* `RecordsFollowRows`: `RecordsMatchRows`.  `JobsInv` adds that a job makes its
  record as its last act and its result is taken only then; `LoopInv`, that the
  loop counts the rows it stored and holds at most one result.
* `BatchImplementsAttempt`: `BatchSpec => GradesAsAttempt`.  Each step of a job or
  of the loop is `GradeItem`, `CheckCancelled` or `StepRaises` of `TaskLifecycle`,
  a cancellation its `UpdateTaskStatus`, or nothing it can see.  From `BatchInv`:
  a job that moves has no row (its result is taken only when it has ended), a
  paper about to be stored has a verdict, and is on record exactly if that is a
  rejection, and the loop counts its rows, so both look at the status after the
  same papers.  What the proofs about the lifecycle take an attempt to do while it
  grades is thus what jobs and loop do, in whatever order the papers complete.

### Streams

For any number of streams, attempts, cancel requests and clean-ups.

* `StreamTypeCorrect`: `StreamSpec => []StreamTypeOK`.  `AttemptIsTyped`:
  `AttemptSpec => []AttemptTypeOK`, as a behaviour of `MCAttempt` is one of
  `BatchRun` and one of `StatusStream`.
* `StreamsNeverAhead`: `StreamSpec => []NeverAhead`.  A stream learns the status
  from the row or from a message, so `StreamInv` also says that whatever waits
  in an inbox (`InboxesTold`) or is about to be published (`WritersWrote`)
  weighs no more than the row; the row itself never falls back.
* `EndsAreAnnounced`: `StreamSpec => []EndIsAnnounced`.  It needs `OpenEnded`: a
  stream that goes on has not forwarded an end, so the one in its inbox is not
  dropped as a duplicate.  Sweeps and Redis errors are excused and counted,
  which is why the counters are part of the state.

### Prompts

For any number of requests, versions and payloads, any file and configuration.

* `PromptTypeCorrect`: `PromptSpec => []PromptTypeOK`.
* `FlightsAreSingle`: `PromptSpec => []SingleFlight`, inductive with the type:
  the lock of a key and the place of its holder change in the same step.
* `CachedPromptsAreOwn`: `PromptSpec => []CachedPromptIsOwn`.  The answer comes
  from level 1, level 2 or the source, so `PromptInv` adds that every entry is
  filed under the payload it was rendered from (`EntriesFiled`) and that who is
  on the way to a cache carries its own key and prompt (`CarriedOwn`).
* `RoutingIsTyped`, `RoutingStaysSteady`: a caller in an experiment keeps its
  variant while the rollout is widened or variants without a weight are added.
  `RoutingAssumption` says that a file has variants with distinct ids and that
  weights are natural numbers: one that is missing or not positive counts as 0,
  as in `src/prompts/routing.py`.  The partial sums of the weights are a
  recursive function; where an induction is called for, the proof takes the
  least counterexample (`WFMin` on `NatLessThanWellFounded`).

### The API process

For any number of requests, makers, operators and processes.

* `UploadsAreTyped`, `OwnFilesAreGraded`, `MissingFilesWereGivenUp`: `UploadInv`
  adds that a stored name holds a file of the request with that name
  (`StoredIsOwn`), that a reference handed out has content unless time or an
  attempt that gave up took it (`Referenced`), that a batch consists of pages
  (`Admitted`), and that each attempt, however many run beside it, has read the
  files the references name (`ReadSoFar`).
  That derived ids differ is a property of the sequences `derive_student_ids`
  builds, proved beside it.
* `RubricsAreTyped`, `DuplicatesOnlyOverlap`: a recent rubric of the files an
  unforced maker is generating for was saved after it looked (`MakersLooked`),
  and so it is of the rows such makers saved (`RowsLooked`).
* `DeskIsTyped`, `TeachersWorkStands`, `PoolsAreRight`:
  one attempt at most settles a task (`SettledOnce`), and a task or a page that
  is in the pool has something for a person, or a teacher put it there
  (`PoolIsFounded`).  Nothing is stated of the pending count the pages show: it
  is rows less decisions, and what could be said of it follows from that
  subtraction.
* `SchemaIsTyped`, `LeftoversNeverBlock`, `ReadyStaysMigrated`,
  `SchemaImplemented`: `LeftoversDoNotBlock` excuses one case, which the code
  does have: on a file whose rubrics are older than their fingerprints
  `executescript` fails at the index of `src/db/schema.sql`, before
  `_ensure_rubrics_schema` comes to add the column, so `init_db` fails, alone and
  every time, until a DAO that reads or saves a rubric adds it.
  `ReadyMeansMigrated` says of a process that is ready that the tasks have
  exactly their columns and the rubrics their fingerprint.  `SchemaInv` says which files can be there and which view
  an open transaction has of them (`FilesInv`), and for each process what the
  statements it has passed have established (`InitProgress`), that the columns it
  read are not gone since (`SeenStands`), that it swaps only after its own copy
  (`SwapFollowsCopy`), and that the table it is about to use exists
  (`TableStands`).  For `SchemaSpec => TableSpec`, `TransactionInv` adds what the
  open transaction has done (`Transaction`): between its copy and its swap it
  holds the write lock, so its copy has every committed row and its commit is
  one step of `TaskTable`; a roll-back or a crash is none.
* `ServicesAreTyped`: `ServicesSpec => []ServicesTypeOK`, as a behaviour of
  `MCServices` is a behaviour of each of its seven parts.
* `ConsoleIsTyped`, `LogTellsTheTruth`, `ReadersMissNothing`: a setting is what
  the request under way has made of it, and with none what the log says
  (`Honest`); an entry of interest has been seen by the reader or is on a page
  still to come (`ReaderInv`), as new entries only push it back.

### Only model-checked

* Liveness (`Settles`, `QueueDrains`, `Recovers`, `RouteRecovers`, `BatchEnds`,
  `StreamsEnd`), which the prover does not cover.
* The `violation` runs: a counterexample is its own proof.

## 5. Not modelled, and what is left

* The compose file (`docker-compose.yml`) starts a worker and no beat process.
  The models follow `src/worker/beat.py`: without it, `Settles` has no ground.
* Hygiene record actions of a teacher write a column nothing else reads.  The
  pull reconciler and the Redis subscription of the prompt provider are further
  callers of `invalidate`.  Skills gateways are calls whose failure everyone
  ignores.  Exports, listings, aggregates and telemetry change nothing.
* Overlapping attempts and the review desk are two models: `ReviewDesk` has
  attempts one after the other, `TaskLifecycle` has them overlap.
* Authentication, logging, configuration, image and document conversion, the
  texts of prompts and the scripts: conversions and reads whose correctness is
  not a matter of state or order.

Every safety property the passing runs check is a theorem, refinements included.
What could be said beyond it: `BreakerImplemented` with concurrent calls, under
an abstract breaker weak enough to count late successes as probes; an abstract
single-flight cache for `PromptCache`; and `ReviewDesk` beside attempts that
overlap, on the rows of `TaskLifecycle`.
