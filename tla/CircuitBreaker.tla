-------------------------- MODULE CircuitBreaker --------------------------
(***************************************************************************)
(* The breaker that guards the model providers.  Its state lives in Redis  *)
(* under one key per field and is shared by every engine instance in every *)
(* process; an instance that meets a Redis error works on its own copy     *)
(* from then on.  Each Redis command is a step: between two of them, and   *)
(* during the guarded call, any other call may act.                        *)
(***************************************************************************)
EXTENDS Naturals

CONSTANTS
  Breakers,          \* engine instances, each with a CircuitBreaker object
  Slots,             \* the concurrent calls of an instance
  FailureThreshold,
  SuccessThreshold,
  MaxTroubles        \* bound: Redis commands that raise, calls cut off

ASSUME BreakerAssumption ==
  /\ FailureThreshold \in Nat \ {0}
  /\ SuccessThreshold \in Nat \ {0}
  /\ MaxTroubles \in Nat

VARIABLES
  redis,        \* the keys of the breaker
  local,        \* the fields of each CircuitBreaker object
  pc,           \* where each call is
  calm,         \* has the environment settled?
  troubles      \* Redis errors and abandoned calls so far

env  == <<calm, troubles>>
vars == <<redis, local, pc, env>>

Calls == Breakers \X Slots
Home(c) == c[1]

CircuitStates == {"closed", "open", "half_open"}

(* state and failures missing in Redis read as closed and 0.  cooling: the *)
(* last failure is younger than recovery_timeout.                          *)
Keys == [state : CircuitStates, failures : Nat, successes : Nat,
         cooling : BOOLEAN, lock : BOOLEAN]

Fields == [fallback : BOOLEAN, state : CircuitStates, failures : Nat,
           successes : Nat, cooling : BOOLEAN, probing : BOOLEAN]

RedisPcs == {"remaining", "to_half_open", "drop_successes", "sync_probe",
             "acquire", "succeeded", "reset_failures", "count_success", "close",
             "clear_closed", "release", "failed", "count_failure", "stamp",
             "stamp_trip", "trip", "clear_trip", "reopen", "restamp",
             "clear_reopen", "sync"}

(* A call in flight: let through by a closed breaker, or as a probe.       *)
InFlight == {"calling", "probing"}

Pcs == {"idle", "local_calling", "reset_clear"} \cup InFlight \cup RedisPcs

TypeOK ==
  /\ redis \in Keys
  /\ local \in [Breakers -> Fields]
  /\ pc \in [Calls -> Pcs]
  /\ calm \in BOOLEAN
  /\ troubles \in 0..MaxTroubles

FreshFields == [fallback |-> FALSE, state |-> "closed", failures |-> 0,
                successes |-> 0, cooling |-> FALSE, probing |-> FALSE]

Init ==
  /\ redis = [state |-> "closed", failures |-> 0, successes |-> 0,
              cooling |-> FALSE, lock |-> FALSE]
  /\ local = [b \in Breakers |-> FreshFields]
  /\ pc = [c \in Calls |-> "idle"]
  /\ calm = FALSE
  /\ troubles = 0

Goto(c, to) == pc' = [pc EXCEPT ![c] = to]

(* A read that only decides where the call goes.                           *)
Branch(c, from, to) ==
  /\ pc[c] = from
  /\ Goto(c, to)
  /\ UNCHANGED <<redis, local, env>>

(* A command that writes the keys.                                         *)
Write(c, from, keys, to) ==
  /\ pc[c] = from
  /\ redis' = keys
  /\ Goto(c, to)
  /\ UNCHANGED <<local, env>>

(* A Redis error or a call cut off.                                        *)
Trouble ==
  /\ ~calm
  /\ troubles < MaxTroubles
  /\ troubles' = troubles + 1
  /\ UNCHANGED calm

SetFields(c, fields) == local' = [local EXCEPT ![Home(c)] = fields]
-----------------------------------------------------------------------------
(***************************************************************************)
(* wrapper, on Redis: may the call go through?                             *)
(***************************************************************************)
ReadState(c) ==
  /\ pc[c] = "idle"
  /\ ~local[Home(c)].fallback
  /\ SetFields(c, [local[Home(c)] EXCEPT !.state = redis.state])
  /\ Goto(c, CASE redis.state = "closed"    -> "calling"
               [] redis.state = "open"      -> "remaining"
               [] redis.state = "half_open" -> "acquire")
  /\ UNCHANGED <<redis, env>>

(* Mutant: an open breaker probes at once.                                 *)
ReadTimeoutIgnored(c) == Branch(c, "remaining", "to_half_open")

ReadTimeout(c) ==
  Branch(c, "remaining", IF redis.cooling THEN "idle" ELSE "to_half_open")

SetHalfOpen(c) ==
  Write(c, "to_half_open", [redis EXCEPT !.state = "half_open"],
        "drop_successes")

DropSuccesses(c) ==
  Write(c, "drop_successes", [redis EXCEPT !.successes = 0], "sync_probe")

(* set nx ex=15: one caller gets the lock.                                 *)
AcquireProbeLock(c) ==
  \/ redis.lock /\ Branch(c, "acquire", "idle")
  \/ ~redis.lock /\ Write(c, "acquire", [redis EXCEPT !.lock = TRUE], "probing")

(***************************************************************************)
(* The guarded call: it returns, raises one of the expected exceptions, or *)
(* anything else, which the breaker does not count.                        *)
(***************************************************************************)
CallReturns(c) == \E at \in InFlight : Branch(c, at, "succeeded")
CallFails(c)   == ~calm /\ \E at \in InFlight : Branch(c, at, "failed")
CallEscapes(c) == ~calm /\ \E at \in InFlight : Branch(c, at, "idle")

(***************************************************************************)
(* _on_success.                                                            *)
(***************************************************************************)
OnSuccess(c) ==
  Branch(c, "succeeded", CASE redis.state = "closed"    -> "reset_failures"
                           [] redis.state = "half_open" -> "count_success"
                           [] redis.state = "open"      -> "sync")

ResetFailures(c) ==
  Write(c, "reset_failures", [redis EXCEPT !.failures = 0], "sync")

(* incr returns the new count.                                             *)
CountSuccess(c) ==
  Write(c, "count_success", [redis EXCEPT !.successes = @ + 1],
        IF redis.successes + 1 >= SuccessThreshold THEN "close" ELSE "release")

(* Mutant: the enum member is written, not its value.                      *)
CloseByName(c) ==
  Write(c, "close", [redis EXCEPT !.state = "CircuitState.CLOSED"],
        "clear_closed")

Close(c) == Write(c, "close", [redis EXCEPT !.state = "closed"], "clear_closed")

ClearClosed(c) ==
  Write(c, "clear_closed",
        [redis EXCEPT !.failures = 0, !.successes = 0, !.lock = FALSE], "sync")

Release(c) == Write(c, "release", [redis EXCEPT !.lock = FALSE], "sync")

(***************************************************************************)
(* _on_failure.                                                            *)
(***************************************************************************)
OnFailure(c) ==
  Branch(c, "failed", CASE redis.state = "closed"    -> "count_failure"
                        [] redis.state = "half_open" -> "reopen"
                        [] redis.state = "open"      -> "sync")

(* Mutant: > where the code has >=.                                        *)
CountFailureOffByOne(c) ==
  Write(c, "count_failure", [redis EXCEPT !.failures = @ + 1],
        IF redis.failures + 1 > FailureThreshold THEN "stamp_trip" ELSE "stamp")

CountFailure(c) ==
  Write(c, "count_failure", [redis EXCEPT !.failures = @ + 1],
        IF redis.failures + 1 >= FailureThreshold THEN "stamp_trip" ELSE "stamp")

Stamp(c) == Write(c, "stamp", [redis EXCEPT !.cooling = TRUE], "sync")

StampTrip(c) == Write(c, "stamp_trip", [redis EXCEPT !.cooling = TRUE], "trip")

Trip(c) == Write(c, "trip", [redis EXCEPT !.state = "open"], "clear_trip")

ClearTrip(c) ==
  /\ pc[c] = "clear_trip"
  /\ redis' = [redis EXCEPT !.failures = 0]
  /\ SetFields(c, [local[Home(c)] EXCEPT !.state = "open", !.successes = 0,
                                         !.failures = FailureThreshold])
  /\ Goto(c, "idle")
  /\ UNCHANGED env

Reopen(c) == Write(c, "reopen", [redis EXCEPT !.state = "open"], "restamp")

Restamp(c) == Write(c, "restamp", [redis EXCEPT !.cooling = TRUE], "clear_reopen")

ClearReopen(c) ==
  Write(c, "clear_reopen",
        [redis EXCEPT !.failures = 0, !.successes = 0, !.lock = FALSE], "sync")

(* _sync_local_snapshot copies the keys to the object, in fallback or not; *)
(* its three reads are one step.  A prober then writes half_open whatever  *)
(* it read.                                                                *)
Snapshot(f, state) ==
  [f EXCEPT !.state = state, !.failures = redis.failures,
            !.successes = redis.successes]

SyncProbe(c) ==
  /\ pc[c] = "sync_probe"
  /\ SetFields(c, Snapshot(local[Home(c)], "half_open"))
  /\ Goto(c, "acquire")
  /\ UNCHANGED <<redis, env>>

Sync(c) ==
  /\ pc[c] = "sync"
  /\ SetFields(c, Snapshot(local[Home(c)], redis.state))
  /\ Goto(c, "idle")
  /\ UNCHANGED <<redis, env>>
-----------------------------------------------------------------------------
(***************************************************************************)
(* The local fallback.  Nothing is awaited but the call itself.            *)
(***************************************************************************)

(* Mutant: the successes of an earlier recovery count towards this one.    *)
AdmittingStale(f) ==
  IF f.state = "open" /\ ~f.cooling THEN [f EXCEPT !.state = "half_open"] ELSE f

(* An open breaker whose timeout has passed admits a probe.                *)
Admitting(f) ==
  IF f.state = "open" /\ ~f.cooling
  THEN [f EXCEPT !.state = "half_open", !.successes = 0]
  ELSE f

(* _run_with_local_fallback up to its await.                               *)
RunLocally(c, fields) ==
  LET f == Admitting(fields) IN
  \/ /\ f.state = "closed"
     /\ SetFields(c, f)
     /\ Goto(c, "local_calling")
  \/ /\ f.state = "half_open" /\ ~f.probing
     /\ SetFields(c, [f EXCEPT !.probing = TRUE])
     /\ Goto(c, "local_calling")
  \/ /\ f.state = "open" \/ (f.state = "half_open" /\ f.probing)
     /\ SetFields(c, f)
     /\ Goto(c, "idle")

LocalCall(c) ==
  /\ pc[c] = "idle"
  /\ local[Home(c)].fallback
  /\ RunLocally(c, local[Home(c)])
  /\ UNCHANGED <<redis, env>>

(* A RedisError at any command, also one that counts the outcome of a call *)
(* that has been made: the object leaves Redis for good and the guarded    *)
(* function is called again.                                               *)
RedisFails(c) ==
  /\ \/ pc[c] \in RedisPcs
     \/ pc[c] = "idle" /\ ~local[Home(c)].fallback
  /\ Trouble
  /\ RunLocally(c, [local[Home(c)] EXCEPT !.fallback = TRUE])
  /\ UNCHANGED redis

LocalSuccess(f) ==
  CASE f.state = "closed" -> [f EXCEPT !.failures = 0]
    [] f.state = "half_open" /\ f.successes + 1 >= SuccessThreshold ->
         [f EXCEPT !.state = "closed", !.failures = 0, !.successes = 0,
                   !.probing = FALSE]
    [] f.state = "half_open" /\ f.successes + 1 < SuccessThreshold ->
         [f EXCEPT !.successes = @ + 1, !.probing = FALSE]
    [] f.state = "open" -> f

LocalFailure(f) ==
  CASE f.state = "closed" /\ f.failures + 1 >= FailureThreshold ->
         [f EXCEPT !.state = "open", !.failures = FailureThreshold,
                   !.successes = 0, !.cooling = TRUE]
    [] f.state = "closed" /\ f.failures + 1 < FailureThreshold ->
         [f EXCEPT !.failures = @ + 1, !.cooling = TRUE]
    [] f.state = "half_open" ->
         [f EXCEPT !.state = "open", !.successes = 0, !.cooling = TRUE,
                   !.probing = FALSE]
    [] f.state = "open" -> f

LocalOutcome(c, fields) ==
  /\ pc[c] = "local_calling"
  /\ SetFields(c, fields)
  /\ Goto(c, "idle")
  /\ UNCHANGED <<redis, env>>

LocalReturns(c) == LocalOutcome(c, LocalSuccess(local[Home(c)]))
LocalFails(c)   == ~calm /\ LocalOutcome(c, LocalFailure(local[Home(c)]))

(* An unexpected exception leaves _local_probe_in_progress as it is.       *)
LocalEscapes(c) == ~calm /\ LocalOutcome(c, local[Home(c)])
-----------------------------------------------------------------------------
(***************************************************************************)
(* reset and snapshot, the operator's calls.                               *)
(***************************************************************************)
ResetFields(f) ==
  [f EXCEPT !.state = "closed", !.failures = 0, !.successes = 0,
            !.cooling = FALSE, !.probing = FALSE]

ResetState(c) ==
  /\ ~calm
  /\ ~local[Home(c)].fallback
  /\ Write(c, "idle", [redis EXCEPT !.state = "closed"], "reset_clear")

ResetClear(c) ==
  Write(c, "reset_clear",
        [redis EXCEPT !.failures = 0, !.successes = 0, !.cooling = FALSE,
                      !.lock = FALSE], "sync")

ResetLocally(c) ==
  /\ ~calm
  /\ pc[c] = "idle"
  /\ local[Home(c)].fallback
  /\ SetFields(c, ResetFields(local[Home(c)]))
  /\ UNCHANGED <<redis, pc, env>>

ResetFails(c) ==
  /\ pc[c] = "reset_clear" \/ (pc[c] = "idle" /\ ~local[Home(c)].fallback)
  /\ Trouble
  /\ SetFields(c, [ResetFields(local[Home(c)]) EXCEPT !.fallback = TRUE])
  /\ Goto(c, "idle")
  /\ UNCHANGED redis

SnapshotFails(b) ==
  /\ Trouble
  /\ local' = [local EXCEPT ![b].fallback = TRUE]
  /\ UNCHANGED <<redis, pc>>
-----------------------------------------------------------------------------
(***************************************************************************)
(* The environment.                                                        *)
(***************************************************************************)

(* recovery_timeout seconds have passed since last_failure.  It is far     *)
(* longer than the round trip from that write to the write of open.        *)
Elapse ==
  /\ redis.cooling
  /\ \A c \in Calls : pc[c] # "trip"
  /\ redis' = [redis EXCEPT !.cooling = FALSE]
  /\ UNCHANGED <<local, pc, env>>

LocalElapse(b) ==
  /\ local[b].cooling
  /\ local' = [local EXCEPT ![b].cooling = FALSE]
  /\ UNCHANGED <<redis, pc, env>>

(* Mutant: the probe lock has no expiry.                                   *)
LockNeverExpires == redis.lock /\ FALSE /\ UNCHANGED vars

(* ex=15, while a guarded call may take minutes.                           *)
LockExpires ==
  /\ redis.lock
  /\ redis' = [redis EXCEPT !.lock = FALSE]
  /\ UNCHANGED <<local, pc, env>>

(* The process stops, or a time limit unwinds it, between two commands.    *)
Abandon(c) ==
  /\ pc[c] # "idle"
  /\ Trouble
  /\ Goto(c, "idle")
  /\ UNCHANGED <<redis, local>>

(* From here on the provider answers and nothing breaks any more.          *)
Settle ==
  /\ calm' = TRUE
  /\ UNCHANGED <<redis, local, pc, troubles>>
-----------------------------------------------------------------------------
Arrive(c) == ReadState(c) \/ LocalCall(c)

Admission(c) ==
  \/ ReadTimeout(c) \/ SetHalfOpen(c) \/ DropSuccesses(c) \/ SyncProbe(c)
  \/ AcquireProbeLock(c)

AfterSuccess(c) ==
  \/ OnSuccess(c) \/ ResetFailures(c) \/ CountSuccess(c) \/ Close(c)
  \/ ClearClosed(c) \/ Release(c)

AfterFailure(c) ==
  \/ OnFailure(c) \/ CountFailure(c) \/ Stamp(c) \/ StampTrip(c) \/ Trip(c)
  \/ ClearTrip(c) \/ Reopen(c) \/ Restamp(c) \/ ClearReopen(c)

(* What a call does of its own accord once it has begun.                   *)
Proceed(c) ==
  \/ Admission(c) \/ CallReturns(c) \/ AfterSuccess(c) \/ AfterFailure(c)
  \/ Sync(c) \/ LocalReturns(c) \/ ResetClear(c)

Mishap(c) ==
  \/ CallFails(c) \/ CallEscapes(c) \/ LocalFails(c) \/ LocalEscapes(c)
  \/ RedisFails(c) \/ Abandon(c)

Operator(c) == ResetState(c) \/ ResetLocally(c) \/ ResetFails(c)

Next ==
  \/ \E c \in Calls : Arrive(c) \/ Proceed(c) \/ Mishap(c) \/ Operator(c)
  \/ \E b \in Breakers : LocalElapse(b) \/ SnapshotFails(b)
  \/ Elapse
  \/ LockExpires
  \/ Settle

Spec == Init /\ [][Next]_vars

(* Calls keep arriving and go on, time passes, keys expire.                *)
Fairness ==
  /\ \A c \in Calls : WF_vars(Arrive(c)) /\ WF_vars(Proceed(c))
  /\ \A b \in Breakers : WF_vars(LocalElapse(b))
  /\ WF_vars(Elapse)
  /\ WF_vars(LockExpires)
  /\ WF_vars(Settle)

FairSpec == Spec /\ Fairness
-----------------------------------------------------------------------------
(***************************************************************************)
(* Properties.                                                             *)
(***************************************************************************)

(* Failures of concurrent calls are counted one by one (incr), and the one *)
(* that reaches the threshold always trips the breaker: a full count is    *)
(* never left lying, unless the call that reached it was cut off.          *)
FullCountIsTripping ==
  redis.failures >= FailureThreshold =>
    \/ \E c \in Calls : pc[c] \in {"stamp_trip", "trip", "clear_trip"}
    \/ troubles > 0

(* A local probe that ends in an unexpected exception or is cut off leaves *)
(* its flag up, and so does one that is counted after a late snapshot of   *)
(* Redis was copied over the object.  Nothing but a reset takes it down.   *)
Wedged(b) ==
  /\ local[b].fallback
  /\ local[b].state = "half_open"
  /\ local[b].probing
  /\ \A s \in Slots : pc[<<b, s>>] # "local_calling"

Serving(b) ==
  IF local[b].fallback THEN local[b].state = "closed" ELSE redis.state = "closed"

(* When the provider and Redis are well again, every engine ends up with a *)
(* closed breaker and keeps it, whichever calls were left half way, unless *)
(* its local probe flag is stuck.                                          *)
Recovers == <>[](\A b \in Breakers : Serving(b) \/ Wedged(b))

(***************************************************************************)
(* One call at a time, the keys implement the abstract breaker; a command  *)
(* sequence takes effect at its write of the state key.                    *)
(***************************************************************************)
At(pcs) == \E c \in Calls : pc[c] \in pcs

absFailures ==
  CASE redis.state # "closed" \/ At({"clear_closed", "reset_clear"}) -> 0
    [] redis.state = "closed" /\ At({"stamp_trip", "trip"}) ->
         FailureThreshold - 1
    [] OTHER -> redis.failures

absSuccesses ==
  CASE redis.state # "half_open" \/ At({"drop_successes"}) -> 0
    [] redis.state = "half_open" /\ At({"close"}) -> SuccessThreshold - 1
    [] OTHER -> redis.successes

absCooling == redis.state = "open" /\ (redis.cooling \/ At({"restamp"}))

Abstract == INSTANCE Breaker WITH
  state <- redis.state, failures <- absFailures,
  successes <- absSuccesses, cooling <- absCooling

BreakerSpec == Abstract!Spec

(***************************************************************************)
(* An object that works on its own copy, the last of its calls on Redis    *)
(* being over, implements the abstract breaker too, with any number of     *)
(* concurrent calls and whatever its fields were when it left Redis, and   *)
(* it never goes back.                                                     *)
(***************************************************************************)
OnOwnCopy(b) ==
  /\ local[b].fallback
  /\ \A s \in Slots : pc[<<b, s>>] \in {"idle", "local_calling"}

Own(b) == INSTANCE Breaker WITH
  state     <- local[b].state,
  failures  <- IF local[b].state = "closed" THEN local[b].failures ELSE 0,
  successes <- IF local[b].state = "half_open" THEN local[b].successes ELSE 0,
  cooling   <- local[b].state = "open" /\ local[b].cooling

OwnStep(b) == OnOwnCopy(b)' /\ [Own(b)!Next]_(Own(b)!vars)

OwnCopyIsBreaker == [][\A b \in Breakers : OnOwnCopy(b) => OwnStep(b)]_vars
=============================================================================
