----------------------- MODULE CircuitBreaker_proofs -----------------------
(***************************************************************************)
(* Type correctness of CircuitBreaker, and that a full failure count is    *)
(* always being acted upon, for any number of engines and calls; that, one *)
(* call at a time, the keys implement the abstract Breaker; and that an    *)
(* object on its own copy implements it with any number of calls.          *)
(***************************************************************************)
EXTENDS CircuitBreaker, TLAPS

USE DEF env

LEMMA HomeType == ASSUME NEW c \in Calls PROVE Home(c) \in Breakers
  BY DEF Calls, Home

(***************************************************************************)
(* Type correctness: a lemma for each shape of action.                     *)
(***************************************************************************)
LEMMA BranchType ==
  ASSUME TypeOK, NEW c \in Calls, NEW from, NEW to \in Pcs, Branch(c, from, to)
  PROVE  TypeOK'
  BY DEF TypeOK, Branch, Goto

LEMMA WriteType ==
  ASSUME TypeOK, NEW c \in Calls, NEW from, NEW keys \in Keys, NEW to \in Pcs,
         Write(c, from, keys, to)
  PROVE  TypeOK'
  BY DEF TypeOK, Write, Goto

LEMMA SetFieldsType ==
  ASSUME TypeOK, NEW c \in Calls, NEW fields \in Fields, SetFields(c, fields)
  PROVE  local' \in [Breakers -> Fields]
  BY HomeType DEF TypeOK, SetFields

LEMMA GotoType ==
  ASSUME TypeOK, NEW c \in Calls, NEW to \in Pcs, Goto(c, to)
  PROVE  pc' \in [Calls -> Pcs]
  BY DEF TypeOK, Goto

LEMMA PcsMembers ==
  /\ {"idle", "local_calling", "reset_clear", "calling", "probing"} \subseteq Pcs
  /\ RedisPcs \subseteq Pcs
  BY DEF Pcs, InFlight

LEMMA FieldsType ==
  ASSUME TypeOK, NEW c \in Calls
  PROVE  local[Home(c)] \in Fields
  BY HomeType DEF TypeOK

LEMMA AdmissionType ==
  ASSUME TypeOK, NEW c \in Calls, Admission(c)
  PROVE  TypeOK'
  <1>1. CASE ReadTimeout(c)
    BY <1>1, BranchType, PcsMembers DEF ReadTimeout, RedisPcs
  <1>2. CASE SetHalfOpen(c)
    <2>1. [redis EXCEPT !.state = "half_open"] \in Keys
      BY DEF TypeOK, Keys, CircuitStates
    <2> QED
      BY <1>2, <2>1, WriteType, PcsMembers DEF SetHalfOpen, RedisPcs
  <1>3. CASE DropSuccesses(c)
    <2>1. [redis EXCEPT !.successes = 0] \in Keys
      BY DEF TypeOK, Keys
    <2> QED
      BY <1>3, <2>1, WriteType, PcsMembers DEF DropSuccesses, RedisPcs
  <1>4. CASE AcquireProbeLock(c)
    <2>1. [redis EXCEPT !.lock = TRUE] \in Keys
      BY DEF TypeOK, Keys
    <2> QED
      BY <1>4, <2>1, WriteType, BranchType, PcsMembers DEF AcquireProbeLock
  <1>5. CASE SyncProbe(c)
    <2>1. Snapshot(local[Home(c)], "half_open") \in Fields
      BY FieldsType DEF Snapshot, Fields, TypeOK, Keys, CircuitStates
    <2> QED
      BY <1>5, <2>1, SetFieldsType, GotoType, PcsMembers DEF SyncProbe, RedisPcs, TypeOK
  <1> QED
    BY <1>1, <1>2, <1>3, <1>4, <1>5 DEF Admission

LEMMA AfterSuccessType ==
  ASSUME TypeOK, NEW c \in Calls, AfterSuccess(c)
  PROVE  TypeOK'
  <1> USE PcsMembers
  <1>1. CASE OnSuccess(c)
    BY <1>1, BranchType DEF OnSuccess, RedisPcs, TypeOK, Keys, CircuitStates
  <1>2. CASE ResetFailures(c)
    <2>1. [redis EXCEPT !.failures = 0] \in Keys
      BY DEF TypeOK, Keys
    <2> QED
      BY <1>2, <2>1, WriteType DEF ResetFailures, RedisPcs
  <1>3. CASE CountSuccess(c)
    <2>1. [redis EXCEPT !.successes = @ + 1] \in Keys
      BY DEF TypeOK, Keys
    <2>2. (IF redis.successes + 1 >= SuccessThreshold THEN "close" ELSE "release")
            \in Pcs
      BY DEF RedisPcs
    <2> QED
      BY <1>3, <2>1, <2>2, WriteType DEF CountSuccess
  <1>4. CASE Close(c)
    <2>1. [redis EXCEPT !.state = "closed"] \in Keys
      BY DEF TypeOK, Keys, CircuitStates
    <2> QED
      BY <1>4, <2>1, WriteType DEF Close, RedisPcs
  <1>5. CASE ClearClosed(c)
    <2>1. [redis EXCEPT !.failures = 0, !.successes = 0, !.lock = FALSE] \in Keys
      BY DEF TypeOK, Keys
    <2> QED
      BY <1>5, <2>1, WriteType DEF ClearClosed, RedisPcs
  <1>6. CASE Release(c)
    <2>1. [redis EXCEPT !.lock = FALSE] \in Keys
      BY DEF TypeOK, Keys
    <2> QED
      BY <1>6, <2>1, WriteType DEF Release, RedisPcs
  <1> QED
    BY <1>1, <1>2, <1>3, <1>4, <1>5, <1>6 DEF AfterSuccess

LEMMA AfterFailureType ==
  ASSUME TypeOK, NEW c \in Calls, AfterFailure(c)
  PROVE  TypeOK'
  <1> USE PcsMembers
  <1>1. CASE OnFailure(c)
    BY <1>1, BranchType DEF OnFailure, RedisPcs, TypeOK, Keys, CircuitStates
  <1>2. CASE CountFailure(c)
    <2>1. [redis EXCEPT !.failures = @ + 1] \in Keys
      BY DEF TypeOK, Keys
    <2>2. (IF redis.failures + 1 >= FailureThreshold THEN "stamp_trip" ELSE "stamp")
            \in Pcs
      BY DEF RedisPcs
    <2> QED
      BY <1>2, <2>1, <2>2, WriteType DEF CountFailure
  <1>3. [redis EXCEPT !.cooling = TRUE] \in Keys
    BY DEF TypeOK, Keys
  <1>4. CASE Stamp(c)
    BY <1>3, <1>4, WriteType DEF Stamp, RedisPcs
  <1>5. CASE StampTrip(c)
    BY <1>3, <1>5, WriteType DEF StampTrip, RedisPcs
  <1>6. CASE Restamp(c)
    BY <1>3, <1>6, WriteType DEF Restamp, RedisPcs
  <1>7. [redis EXCEPT !.state = "open"] \in Keys
    BY DEF TypeOK, Keys, CircuitStates
  <1>8. CASE Trip(c)
    BY <1>7, <1>8, WriteType DEF Trip, RedisPcs
  <1>9. CASE Reopen(c)
    BY <1>7, <1>9, WriteType DEF Reopen, RedisPcs
  <1>10. CASE ClearTrip(c)
    <2>1. [local[Home(c)] EXCEPT !.state = "open", !.successes = 0,
                                 !.failures = FailureThreshold] \in Fields
      BY FieldsType, BreakerAssumption DEF Fields, CircuitStates, BreakerAssumption
    <2>2. redis' \in Keys
      BY <1>10 DEF ClearTrip, TypeOK, Keys
    <2> QED
      BY <1>10, <2>1, <2>2, SetFieldsType, GotoType DEF ClearTrip, TypeOK
  <1>11. CASE ClearReopen(c)
    <2>1. [redis EXCEPT !.failures = 0, !.successes = 0, !.lock = FALSE] \in Keys
      BY DEF TypeOK, Keys
    <2> QED
      BY <1>11, <2>1, WriteType DEF ClearReopen, RedisPcs
  <1> QED
    BY <1>1, <1>2, <1>4, <1>5, <1>6, <1>8, <1>9, <1>10, <1>11 DEF AfterFailure

(* The local bookkeeping after a call is a map from fields to fields.      *)
LEMMA LocalSuccessType ==
  ASSUME NEW f \in Fields
  PROVE  LocalSuccess(f) \in Fields
  <1>1. CASE f.state = "closed"
    BY <1>1 DEF LocalSuccess, Fields, CircuitStates
  <1>2. CASE f.state = "open"
    BY <1>2 DEF LocalSuccess, Fields, CircuitStates
  <1>3. CASE f.state = "half_open"
    <2>0. SuccessThreshold \in Nat /\ f.successes \in Nat
      BY BreakerAssumption DEF BreakerAssumption, Fields
    <2>1. CASE f.successes + 1 >= SuccessThreshold
      <3>1. LocalSuccess(f) = [f EXCEPT !.state = "closed", !.failures = 0,
                                        !.successes = 0, !.probing = FALSE]
        BY <1>3, <2>0, <2>1 DEF LocalSuccess
      <3>2. [f EXCEPT !.state = "closed", !.failures = 0,
                      !.successes = 0, !.probing = FALSE] \in Fields
        BY DEF Fields, CircuitStates
      <3> QED
        BY <3>1, <3>2
    <2>2. CASE f.successes + 1 < SuccessThreshold
      <3>1. LocalSuccess(f) = [f EXCEPT !.successes = f.successes + 1,
                                        !.probing = FALSE]
        BY <1>3, <2>0, <2>2 DEF LocalSuccess
      <3>2. \A n \in Nat :
              [f EXCEPT !.successes = n, !.probing = FALSE] \in Fields
        BY DEF Fields
      <3>3. f.successes + 1 \in Nat
        BY <2>0
      <3> QED
        BY <3>1, <3>2, <3>3
    <2> QED
      BY <2>0, <2>1, <2>2
  <1> QED
    BY <1>1, <1>2, <1>3 DEF Fields, CircuitStates

LEMMA LocalFailureType ==
  ASSUME NEW f \in Fields
  PROVE  LocalFailure(f) \in Fields
  <1>0. FailureThreshold \in Nat /\ f.failures \in Nat
    BY BreakerAssumption DEF BreakerAssumption, Fields
  <1>1. CASE f.state = "closed" /\ f.failures + 1 >= FailureThreshold
    <2>1. LocalFailure(f) = [f EXCEPT !.state = "open",
                               !.failures = FailureThreshold,
                               !.successes = 0, !.cooling = TRUE]
      BY <1>0, <1>1 DEF LocalFailure
    <2>2. [f EXCEPT !.state = "open", !.failures = FailureThreshold,
                    !.successes = 0, !.cooling = TRUE] \in Fields
      BY <1>0 DEF Fields, CircuitStates
    <2> QED
      BY <2>1, <2>2
  <1>2. CASE f.state = "closed" /\ f.failures + 1 < FailureThreshold
    <2>1. LocalFailure(f) = [f EXCEPT !.failures = f.failures + 1,
                                      !.cooling = TRUE]
      BY <1>0, <1>2 DEF LocalFailure
    <2>2. \A n \in Nat :
            [f EXCEPT !.failures = n, !.cooling = TRUE] \in Fields
      BY DEF Fields
    <2>3. f.failures + 1 \in Nat
      BY <1>0
    <2> QED
      BY <2>1, <2>2, <2>3
  <1>3. CASE f.state = "half_open"
    <2>1. LocalFailure(f) = [f EXCEPT !.state = "open", !.successes = 0,
                               !.cooling = TRUE, !.probing = FALSE]
      BY <1>3 DEF LocalFailure
    <2>2. [f EXCEPT !.state = "open", !.successes = 0,
                    !.cooling = TRUE, !.probing = FALSE] \in Fields
      BY DEF Fields, CircuitStates
    <2> QED
      BY <2>1, <2>2
  <1>4. CASE f.state = "open"
    BY <1>4 DEF LocalFailure
  <1> QED
    BY <1>0, <1>1, <1>2, <1>3, <1>4 DEF Fields, CircuitStates

LEMMA ProceedType ==
  ASSUME TypeOK, NEW c \in Calls, Proceed(c)
  PROVE  TypeOK'
  <1> USE PcsMembers
  <1>1. CASE CallReturns(c)
    BY <1>1, BranchType DEF CallReturns, RedisPcs
  <1>2. CASE Sync(c)
    <2>1. Snapshot(local[Home(c)], redis.state) \in Fields
      BY FieldsType DEF Snapshot, Fields, TypeOK, Keys
    <2> QED
      BY <1>2, <2>1, SetFieldsType, GotoType DEF Sync, TypeOK
  <1>3. CASE LocalReturns(c)
    <2>1. LocalSuccess(local[Home(c)]) \in Fields
      BY FieldsType, LocalSuccessType
    <2> QED
      BY <1>3, <2>1, SetFieldsType, GotoType
      DEF LocalReturns, LocalOutcome, TypeOK
  <1>4. CASE ResetClear(c)
    <2>1. [redis EXCEPT !.failures = 0, !.successes = 0, !.cooling = FALSE,
                        !.lock = FALSE] \in Keys
      BY DEF TypeOK, Keys
    <2> QED
      BY <1>4, <2>1, WriteType DEF ResetClear, RedisPcs
  <1> QED
    BY <1>1, <1>2, <1>3, <1>4, AdmissionType, AfterSuccessType, AfterFailureType
    DEF Proceed

LEMMA AdmittingType ==
  ASSUME NEW f \in Fields
  PROVE  Admitting(f) \in Fields
  BY DEF Admitting, Fields, CircuitStates

LEMMA RunLocallyType ==
  ASSUME TypeOK, NEW c \in Calls, NEW f \in Fields, RunLocally(c, f)
  PROVE  local' \in [Breakers -> Fields] /\ pc' \in [Calls -> Pcs]
  <1> DEFINE g == Admitting(f)
  <1>1. g \in Fields /\ [g EXCEPT !.probing = TRUE] \in Fields
    BY AdmittingType DEF Fields
  <1>2. CASE SetFields(c, g) /\ Goto(c, "local_calling")
    BY <1>1, <1>2, SetFieldsType, GotoType, PcsMembers
  <1>3. CASE SetFields(c, [g EXCEPT !.probing = TRUE]) /\ Goto(c, "local_calling")
    BY <1>1, <1>3, SetFieldsType, GotoType, PcsMembers
  <1>4. CASE SetFields(c, g) /\ Goto(c, "idle")
    BY <1>1, <1>4, SetFieldsType, GotoType, PcsMembers
  <1> QED
    BY <1>2, <1>3, <1>4 DEF RunLocally

LEMMA ArriveType ==
  ASSUME TypeOK, NEW c \in Calls, Arrive(c)
  PROVE  TypeOK'
  <1>1. CASE ReadState(c)
    <2>1. [local[Home(c)] EXCEPT !.state = redis.state] \in Fields
      BY FieldsType DEF Fields, TypeOK, Keys
    <2>2. (CASE redis.state = "closed"    -> "calling"
             [] redis.state = "open"      -> "remaining"
             [] redis.state = "half_open" -> "acquire") \in Pcs
      BY PcsMembers DEF TypeOK, Keys, CircuitStates, RedisPcs
    <2> QED
      BY <1>1, <2>1, <2>2, SetFieldsType, GotoType DEF ReadState, TypeOK
  <1>2. CASE LocalCall(c)
    BY <1>2, FieldsType, RunLocallyType DEF LocalCall, TypeOK
  <1> QED
    BY <1>1, <1>2 DEF Arrive

LEMMA TroubleType ==
  ASSUME TypeOK, Trouble
  PROVE  calm' \in BOOLEAN /\ troubles' \in 0..MaxTroubles
  BY BreakerAssumption DEF Trouble, TypeOK, BreakerAssumption

LEMMA MishapType ==
  ASSUME TypeOK, NEW c \in Calls, Mishap(c)
  PROVE  TypeOK'
  <1> USE PcsMembers
  <1>1. CASE CallFails(c) \/ CallEscapes(c)
    BY <1>1, BranchType DEF CallFails, CallEscapes, RedisPcs
  <1>2. CASE LocalFails(c)
    <2>1. LocalFailure(local[Home(c)]) \in Fields
      BY FieldsType, LocalFailureType
    <2> QED
      BY <1>2, <2>1, SetFieldsType, GotoType
      DEF LocalFails, LocalOutcome, TypeOK
  <1>3. CASE LocalEscapes(c)
    BY <1>3, FieldsType, SetFieldsType, GotoType
    DEF LocalEscapes, LocalOutcome, TypeOK
  <1>4. CASE RedisFails(c)
    <2>1. [local[Home(c)] EXCEPT !.fallback = TRUE] \in Fields
      BY FieldsType DEF Fields
    <2> QED
      BY <1>4, <2>1, TroubleType, RunLocallyType DEF RedisFails, TypeOK
  <1>5. CASE Abandon(c)
    BY <1>5, TroubleType, GotoType DEF Abandon, TypeOK
  <1> QED
    BY <1>1, <1>2, <1>3, <1>4, <1>5 DEF Mishap

LEMMA OperatorType ==
  ASSUME TypeOK, NEW c \in Calls, Operator(c)
  PROVE  TypeOK'
  <1> USE PcsMembers
  <1>1. ResetFields(local[Home(c)]) \in Fields
    BY FieldsType DEF ResetFields, Fields, CircuitStates
  <1>2. CASE ResetState(c)
    <2>1. [redis EXCEPT !.state = "closed"] \in Keys
      BY DEF TypeOK, Keys, CircuitStates
    <2> QED
      BY <1>2, <2>1, WriteType DEF ResetState
  <1>3. CASE ResetLocally(c)
    BY <1>1, <1>3, SetFieldsType DEF ResetLocally, TypeOK
  <1>4. CASE ResetFails(c)
    <2>1. [ResetFields(local[Home(c)]) EXCEPT !.fallback = TRUE] \in Fields
      BY <1>1 DEF Fields
    <2> QED
      BY <1>4, <2>1, TroubleType, SetFieldsType, GotoType DEF ResetFails, TypeOK
  <1> QED
    BY <1>2, <1>3, <1>4 DEF Operator

(* What no call does: time, keys that expire, a snapshot that meets an     *)
(* error, the environment settling.                                        *)
Surroundings ==
  \/ \E b \in Breakers : LocalElapse(b) \/ SnapshotFails(b)
  \/ Elapse
  \/ LockExpires
  \/ Settle
  \/ UNCHANGED vars

LEMMA SurroundingsType ==
  ASSUME TypeOK, Surroundings
  PROVE  TypeOK'
  <1>1. ASSUME NEW b \in Breakers, LocalElapse(b) PROVE TypeOK'
    <2>1. [local[b] EXCEPT !.cooling = FALSE] \in Fields
      BY DEF TypeOK, Fields
    <2>2. local' = [local EXCEPT ![b] = [local[b] EXCEPT !.cooling = FALSE]]
      BY <1>1 DEF LocalElapse
    <2> QED
      BY <1>1, <2>1, <2>2 DEF LocalElapse, TypeOK
  <1>2. ASSUME NEW b \in Breakers, SnapshotFails(b) PROVE TypeOK'
    <2>1. [local[b] EXCEPT !.fallback = TRUE] \in Fields
      BY DEF TypeOK, Fields
    <2>2. local' = [local EXCEPT ![b] = [local[b] EXCEPT !.fallback = TRUE]]
      BY <1>2 DEF SnapshotFails
    <2> QED
      BY <1>2, <2>1, <2>2, TroubleType DEF SnapshotFails, TypeOK
  <1>3. CASE Elapse \/ LockExpires
    BY <1>3 DEF Elapse, LockExpires, TypeOK, Keys
  <1>4. CASE Settle \/ UNCHANGED vars
    BY <1>4 DEF Settle, vars, TypeOK
  <1> QED
    BY <1>1, <1>2, <1>3, <1>4 DEF Surroundings

LEMMA StepCases ==
  ASSUME [Next]_vars
  PROVE  Surroundings
         \/ \E c \in Calls : Arrive(c) \/ Proceed(c) \/ Mishap(c) \/ Operator(c)
  BY DEF Next, Surroundings

LEMMA InitType == Init => TypeOK
  <1>1. ASSUME Init PROVE redis \in Keys
    BY <1>1 DEF Init, Keys, CircuitStates
  <1>2. FreshFields \in Fields
    BY DEF FreshFields, Fields, CircuitStates
  <1>3. 0 \in 0..MaxTroubles
    BY BreakerAssumption DEF BreakerAssumption
  <1>4. ASSUME Init PROVE /\ local \in [Breakers -> Fields]
                          /\ pc \in [Calls -> Pcs]
    BY <1>2, <1>4, PcsMembers DEF Init
  <1> QED
    BY <1>1, <1>3, <1>4 DEF Init, TypeOK

LEMMA NextType == TypeOK /\ [Next]_vars => TypeOK'
  BY StepCases, SurroundingsType, ArriveType, ProceedType, MishapType,
     OperatorType

(* For any number of engines, calls, Redis errors and stopped processes    *)
(* the keys and the fields keep their types, a count is a number and the   *)
(* state one of the three: _get_state's CircuitState(state) never raises.  *)
THEOREM BreakerTypeCorrect == Spec => []TypeOK
  BY InitType, NextType, PTL DEF Spec
-----------------------------------------------------------------------------
(***************************************************************************)
(* A full count is being acted upon.  A step empties the count, or is the  *)
(* trouble the property excuses, or moves a tripping call on, or is of a   *)
(* call that does not trip and leaves the count as it is.                  *)
(***************************************************************************)
Tripping == {"stamp_trip", "trip", "clear_trip"}

LEMMA EmptyCount ==
  ASSUME redis'.failures = 0
  PROVE  FullCountIsTripping'
  BY BreakerAssumption DEF BreakerAssumption, FullCountIsTripping

LEMMA TripGoesOn ==
  ASSUME TypeOK, NEW c \in Calls, NEW to \in Tripping, Goto(c, to)
  PROVE  FullCountIsTripping'
  BY DEF FullCountIsTripping, Tripping, Goto, TypeOK

LEMMA StepElsewhere ==
  ASSUME TypeOK, FullCountIsTripping, NEW c \in Calls, pc[c] \notin Tripping,
         NEW to, Goto(c, to), redis'.failures = redis.failures,
         UNCHANGED troubles
  PROVE  FullCountIsTripping'
  <1>1. \A d \in Calls : pc[d] \in Tripping => pc'[d] \in Tripping
    BY DEF Goto, TypeOK
  <1> QED
    BY <1>1 DEF FullCountIsTripping, Tripping

LEMMA CountUntouched ==
  ASSUME FullCountIsTripping, redis'.failures = redis.failures,
         UNCHANGED <<pc, troubles>>
  PROVE  FullCountIsTripping'
  BY DEF FullCountIsTripping

LEMMA TroubleExcused ==
  ASSUME TypeOK, Trouble
  PROVE  FullCountIsTripping'
  <1>1. troubles' > 0
    BY BreakerAssumption DEF Trouble, TypeOK, BreakerAssumption
  <1> QED
    BY <1>1 DEF FullCountIsTripping

LEMMA BranchCount ==
  ASSUME TypeOK, FullCountIsTripping, NEW c \in Calls, NEW from, NEW to,
         from \notin Tripping, Branch(c, from, to)
  PROVE  FullCountIsTripping'
  BY StepElsewhere DEF Branch

LEMMA WriteCount ==
  ASSUME TypeOK, FullCountIsTripping, NEW c \in Calls, NEW from, NEW keys,
         NEW to, from \notin Tripping, Write(c, from, keys, to),
         keys.failures = redis.failures \/ keys.failures = 0
  PROVE  FullCountIsTripping'
  BY StepElsewhere, EmptyCount DEF Write

LEMMA CountFailureCount ==
  ASSUME TypeOK, NEW c \in Calls, CountFailure(c)
  PROVE  FullCountIsTripping'
  <1>0. redis.failures \in Nat /\ FailureThreshold \in Nat
    BY BreakerAssumption DEF TypeOK, Keys, BreakerAssumption
  <1>1. redis'.failures = redis.failures + 1
    BY DEF CountFailure, Write, TypeOK, Keys
  <1>2. CASE redis.failures + 1 >= FailureThreshold
    BY <1>0, <1>2, TripGoesOn DEF CountFailure, Write, Tripping
  <1>3. CASE redis.failures + 1 < FailureThreshold
    BY <1>0, <1>1, <1>3 DEF FullCountIsTripping
  <1> QED
    BY <1>0, <1>2, <1>3

LEMMA AfterFailureCount ==
  ASSUME TypeOK, FullCountIsTripping, NEW c \in Calls, AfterFailure(c)
  PROVE  FullCountIsTripping'
  <1>1. CASE OnFailure(c)
    BY <1>1, BranchCount DEF OnFailure, Tripping
  <1>2. CASE CountFailure(c)
    BY <1>2, CountFailureCount
  <1>3. CASE Stamp(c) \/ Reopen(c) \/ Restamp(c) \/ ClearReopen(c)
    <2>1. /\ [redis EXCEPT !.cooling = TRUE].failures = redis.failures
          /\ [redis EXCEPT !.state = "open"].failures = redis.failures
          /\ [redis EXCEPT !.failures = 0, !.successes = 0,
                           !.lock = FALSE].failures = 0
      BY DEF TypeOK, Keys
    <2> QED
      BY <1>3, <2>1, WriteCount
      DEF Stamp, Reopen, Restamp, ClearReopen, Tripping
  <1>4. CASE StampTrip(c) \/ Trip(c)
    BY <1>4, TripGoesOn DEF StampTrip, Trip, Write, Tripping
  <1>5. CASE ClearTrip(c)
    <2>1. redis'.failures = 0
      BY <1>5 DEF ClearTrip, TypeOK, Keys
    <2> QED
      BY <2>1, EmptyCount
  <1> QED
    BY <1>1, <1>2, <1>3, <1>4, <1>5 DEF AfterFailure

LEMMA AfterSuccessCount ==
  ASSUME TypeOK, FullCountIsTripping, NEW c \in Calls, AfterSuccess(c)
  PROVE  FullCountIsTripping'
  <1>1. CASE OnSuccess(c)
    BY <1>1, BranchCount DEF OnSuccess, Tripping
  <1>2. CASE ResetFailures(c) \/ ClearClosed(c)
    <2>1. redis'.failures = 0
      BY <1>2 DEF ResetFailures, ClearClosed, Write, TypeOK, Keys
    <2> QED
      BY <2>1, EmptyCount
  <1>3. CASE CountSuccess(c) \/ Close(c) \/ Release(c)
    <2>1. /\ \A n \in Nat : [redis EXCEPT !.successes = n].failures = redis.failures
          /\ [redis EXCEPT !.state = "closed"].failures = redis.failures
          /\ [redis EXCEPT !.lock = FALSE].failures = redis.failures
          /\ redis.successes + 1 \in Nat
      BY DEF TypeOK, Keys
    <2> QED
      BY <1>3, <2>1, WriteCount DEF CountSuccess, Close, Release, Tripping
  <1> QED
    BY <1>1, <1>2, <1>3 DEF AfterSuccess

LEMMA AdmissionCount ==
  ASSUME TypeOK, FullCountIsTripping, NEW c \in Calls, Admission(c)
  PROVE  FullCountIsTripping'
  <1>1. /\ [redis EXCEPT !.state = "half_open"].failures = redis.failures
        /\ [redis EXCEPT !.successes = 0].failures = redis.failures
        /\ [redis EXCEPT !.lock = TRUE].failures = redis.failures
    BY DEF TypeOK, Keys
  <1>2. CASE ReadTimeout(c)
    BY <1>2, BranchCount DEF ReadTimeout, Tripping
  <1>3. CASE SetHalfOpen(c) \/ DropSuccesses(c)
    BY <1>1, <1>3, WriteCount DEF SetHalfOpen, DropSuccesses, Tripping
  <1>4. CASE AcquireProbeLock(c)
    BY <1>1, <1>4, WriteCount, BranchCount DEF AcquireProbeLock, Tripping
  <1>5. CASE SyncProbe(c)
    BY <1>5, StepElsewhere DEF SyncProbe, Tripping
  <1> QED
    BY <1>2, <1>3, <1>4, <1>5 DEF Admission

LEMMA ProceedCount ==
  ASSUME TypeOK, FullCountIsTripping, NEW c \in Calls, Proceed(c)
  PROVE  FullCountIsTripping'
  <1>1. CASE CallReturns(c)
    BY <1>1, BranchCount DEF CallReturns, InFlight, Tripping
  <1>2. CASE Sync(c)
    BY <1>2, StepElsewhere DEF Sync, Tripping
  <1>3. CASE LocalReturns(c)
    BY <1>3, StepElsewhere DEF LocalReturns, LocalOutcome, Tripping
  <1>4. CASE ResetClear(c)
    <2>1. redis'.failures = 0
      BY <1>4 DEF ResetClear, Write, TypeOK, Keys
    <2> QED
      BY <2>1, EmptyCount
  <1> QED
    BY <1>1, <1>2, <1>3, <1>4, AdmissionCount, AfterSuccessCount,
       AfterFailureCount
    DEF Proceed

LEMMA ArriveCount ==
  ASSUME TypeOK, FullCountIsTripping, NEW c \in Calls, Arrive(c)
  PROVE  FullCountIsTripping'
  <1>1. CASE ReadState(c)
    BY <1>1, StepElsewhere DEF ReadState, Tripping
  <1>2. CASE LocalCall(c)
    BY <1>2, StepElsewhere DEF LocalCall, RunLocally, Tripping
  <1> QED
    BY <1>1, <1>2 DEF Arrive

LEMMA MishapCount ==
  ASSUME TypeOK, FullCountIsTripping, NEW c \in Calls, Mishap(c)
  PROVE  FullCountIsTripping'
  <1>1. CASE CallFails(c) \/ CallEscapes(c)
    BY <1>1, BranchCount DEF CallFails, CallEscapes, InFlight, Tripping
  <1>2. CASE LocalFails(c) \/ LocalEscapes(c)
    BY <1>2, StepElsewhere DEF LocalFails, LocalEscapes, LocalOutcome, Tripping
  <1>3. CASE RedisFails(c) \/ Abandon(c)
    BY <1>3, TroubleExcused DEF RedisFails, Abandon
  <1> QED
    BY <1>1, <1>2, <1>3 DEF Mishap

LEMMA OperatorCount ==
  ASSUME TypeOK, FullCountIsTripping, NEW c \in Calls, Operator(c)
  PROVE  FullCountIsTripping'
  <1>1. CASE ResetState(c)
    <2>1. [redis EXCEPT !.state = "closed"].failures = redis.failures
      BY DEF TypeOK, Keys
    <2> QED
      BY <1>1, <2>1, WriteCount DEF ResetState, Tripping
  <1>2. CASE ResetLocally(c)
    BY <1>2, CountUntouched DEF ResetLocally
  <1>3. CASE ResetFails(c)
    BY <1>3, TroubleExcused DEF ResetFails
  <1> QED
    BY <1>1, <1>2, <1>3 DEF Operator

LEMMA SurroundingsCount ==
  ASSUME TypeOK, FullCountIsTripping, Surroundings
  PROVE  FullCountIsTripping'
  <1>1. CASE Elapse \/ LockExpires
    <2>1. redis'.failures = redis.failures
      BY <1>1 DEF Elapse, LockExpires, TypeOK, Keys
    <2> QED
      BY <1>1, <2>1, CountUntouched DEF Elapse, LockExpires
  <1>2. CASE \E b \in Breakers : SnapshotFails(b)
    BY <1>2, TroubleExcused DEF SnapshotFails
  <1>3. CASE Settle \/ UNCHANGED vars \/ \E b \in Breakers : LocalElapse(b)
    BY <1>3, CountUntouched DEF Settle, LocalElapse, vars
  <1> QED
    BY <1>1, <1>2, <1>3 DEF Surroundings

LEMMA InitCount == Init => FullCountIsTripping
  BY BreakerAssumption DEF Init, FullCountIsTripping, BreakerAssumption

LEMMA NextCount ==
  TypeOK /\ FullCountIsTripping /\ [Next]_vars => FullCountIsTripping'
  BY StepCases, SurroundingsCount, ArriveCount, ProceedCount, MishapCount,
     OperatorCount

(* However many calls of however many engines fail at the same time, and   *)
(* whichever of their commands come between, a count that has reached the  *)
(* threshold is one some call is about to trip on: incr hands the          *)
(* threshold to exactly the calls that act on it.                          *)
THEOREM FullCountNeverLies == Spec => []FullCountIsTripping
  BY InitType, NextType, InitCount, NextCount, PTL DEF Spec
-----------------------------------------------------------------------------
(***************************************************************************)
(* One call at a time, and Redis answering, the keys implement the         *)
(* abstract breaker.  Everything depends on the keys r and on where the    *)
(* call is, q.                                                             *)
(***************************************************************************)

(* What the keys can be when the call is at q.                             *)
Allowed(r, q) ==
  /\ q # "local_calling"
  /\ q \in {"calling", "reset_failures", "clear_closed", "count_failure", "stamp",
            "stamp_trip", "trip", "reset_clear"} => r.state = "closed"
  /\ q \in {"remaining", "to_half_open", "clear_trip", "restamp", "clear_reopen"} =>
       r.state = "open"
  /\ q \in {"drop_successes", "sync_probe", "acquire", "probing", "count_success", "close",
            "release", "reopen"} => r.state = "half_open"
  /\ q \in {"succeeded", "failed"} => r.state # "open"
  /\ q = "to_half_open" => ~r.cooling
  /\ q = "trip" => r.cooling
  /\ r.state = "closed" /\ q \notin {"stamp_trip", "trip", "clear_closed", "reset_clear"} =>
       r.failures < FailureThreshold
  /\ r.state = "half_open" /\ q \notin {"drop_successes", "close"} =>
       r.successes < SuccessThreshold

(* The variables of the abstract breaker.                                  *)
FailuresOf(r, q) ==
  IF r.state # "closed" \/ q \in {"clear_closed", "reset_clear"} THEN 0
  ELSE IF q \in {"stamp_trip", "trip"} THEN FailureThreshold - 1 ELSE r.failures

SuccessesOf(r, q) ==
  IF r.state # "half_open" \/ q = "drop_successes" THEN 0
  ELSE IF q = "close" THEN SuccessThreshold - 1 ELSE r.successes

CoolingOf(r, q) == r.state = "open" /\ (r.cooling \/ q = "restamp")

Becomes(r, q, state, failures, successes, cooling) ==
  /\ r.state = state /\ FailuresOf(r, q) = failures /\ SuccessesOf(r, q) = successes
  /\ CoolingOf(r, q) = cooling

(* The abstract breaker stutters or takes a step.                          *)
StandsStill(r, q, r2, q2) ==
  Becomes(r2, q2, r.state, FailuresOf(r, q), SuccessesOf(r, q), CoolingOf(r, q))

ClosedStep(r, q, r2, q2) ==
  /\ r.state = "closed"
  /\ \/ Becomes(r2, q2, "closed", 0, 0, FALSE)
     \/ /\ FailuresOf(r, q) + 1 < FailureThreshold
        /\ Becomes(r2, q2, "closed", FailuresOf(r, q) + 1, 0, FALSE)
     \/ /\ ~(FailuresOf(r, q) + 1 < FailureThreshold)
        /\ Becomes(r2, q2, "open", 0, 0, TRUE)

OpenStep(r, q, r2, q2) ==
  /\ r.state = "open"
  /\ \/ Becomes(r2, q2, "open", 0, 0, FALSE)
     \/ ~CoolingOf(r, q) /\ Becomes(r2, q2, "half_open", 0, 0, FALSE)

HalfOpenStep(r, q, r2, q2) ==
  /\ r.state = "half_open"
  /\ \/ /\ SuccessesOf(r, q) + 1 < SuccessThreshold
        /\ Becomes(r2, q2, "half_open", 0, SuccessesOf(r, q) + 1, FALSE)
     \/ /\ ~(SuccessesOf(r, q) + 1 < SuccessThreshold)
        /\ Becomes(r2, q2, "closed", 0, 0, FALSE)
     \/ Becomes(r2, q2, "open", 0, 0, TRUE)

Conforms(r, q, r2, q2) ==
  /\ Allowed(r2, q2)
  /\ \/ StandsStill(r, q, r2, q2) \/ ClosedStep(r, q, r2, q2) \/ OpenStep(r, q, r2, q2)
     \/ HalfOpenStep(r, q, r2, q2) \/ Becomes(r2, q2, "closed", 0, 0, FALSE)

(* No engine has left Redis.                                               *)
Shared == troubles = 0 /\ \A b \in Breakers : ~local[b].fallback

SoloInv(c) == TypeOK /\ Shared /\ Allowed(redis, pc[c])

LEMMA BarsAre ==
  ASSUME NEW c, Calls = {c}
  PROVE  /\ absFailures = FailuresOf(redis, pc[c]) /\ absFailures' = FailuresOf(redis', pc'[c])
         /\ absSuccesses = SuccessesOf(redis, pc[c])
         /\ absSuccesses' = SuccessesOf(redis', pc'[c])
         /\ absCooling = CoolingOf(redis, pc[c]) /\ absCooling' = CoolingOf(redis', pc'[c])
  <1>1. /\ \A pcs : At(pcs) <=> pc[c] \in pcs
        /\ \A pcs : At(pcs)' <=> pc'[c] \in pcs
    BY DEF At
  <1>2. absFailures = FailuresOf(redis, pc[c]) /\ absFailures' = FailuresOf(redis', pc'[c])
    BY <1>1 DEF absFailures, FailuresOf
  <1>3. absSuccesses = SuccessesOf(redis, pc[c]) /\ absSuccesses' = SuccessesOf(redis', pc'[c])
    BY <1>1 DEF absSuccesses, SuccessesOf
  <1>4. absCooling = CoolingOf(redis, pc[c]) /\ absCooling' = CoolingOf(redis', pc'[c])
    BY <1>1 DEF absCooling, CoolingOf
  <1> QED BY <1>2, <1>3, <1>4

LEMMA AbstractStep ==
  ASSUME NEW c, Calls = {c}, Conforms(redis, pc[c], redis', pc'[c])
  PROVE  [Abstract!Next]_(Abstract!vars)
  <1> DEFINE q == pc[c]
             q2 == pc'[c]
  <1>1. /\ absFailures = FailuresOf(redis, q) /\ absFailures' = FailuresOf(redis', q2)
        /\ absSuccesses = SuccessesOf(redis, q) /\ absSuccesses' = SuccessesOf(redis', q2)
        /\ absCooling = CoolingOf(redis, q) /\ absCooling' = CoolingOf(redis', q2)
    BY BarsAre
  <1>2. ASSUME NEW s, NEW f, NEW n, NEW g
        PROVE  Becomes(redis', q2, s, f, n, g) <=> Abstract!Become(s, f, n, g)
    BY <1>1 DEF Becomes, Abstract!Become
  <1> HIDE DEF q, q2
  <1>3. CASE StandsStill(redis, q, redis', q2)
    BY <1>1, <1>3 DEF StandsStill, Becomes, Abstract!vars
  <1>4. CASE ClosedStep(redis, q, redis', q2)
    <2>1. Abstract!Success \/ Abstract!Failure
      BY <1>1, <1>2, <1>4 DEF ClosedStep, Abstract!Success, Abstract!Failure
    <2> QED BY <2>1 DEF Abstract!Next
  <1>5. CASE OpenStep(redis, q, redis', q2)
    <2>1. Abstract!Cool \/ Abstract!Probe
      BY <1>1, <1>2, <1>5 DEF OpenStep, Abstract!Cool, Abstract!Probe
    <2> QED BY <2>1 DEF Abstract!Next
  <1>6. CASE HalfOpenStep(redis, q, redis', q2)
    <2>1. Abstract!ProbeSuccess \/ Abstract!ProbeFailure
      BY <1>1, <1>2, <1>6 DEF HalfOpenStep, Abstract!ProbeSuccess, Abstract!ProbeFailure
    <2> QED BY <2>1 DEF Abstract!Next
  <1>7. CASE Becomes(redis', q2, "closed", 0, 0, FALSE)
    <2>1. Abstract!Reset
      BY <1>2, <1>7 DEF Abstract!Reset
    <2> QED BY <2>1 DEF Abstract!Next
  <1> QED BY <1>3, <1>4, <1>5, <1>6, <1>7 DEF Conforms, q, q2

(* The fields of the keys after a write.                                   *)
LEMMA WriteFields ==
  ASSUME NEW r \in Keys, NEW s, NEW n, NEW m, NEW l
  PROVE  /\ [r EXCEPT !.state = s].state = s /\ [r EXCEPT !.state = s].failures = r.failures
         /\ [r EXCEPT !.state = s].successes = r.successes
         /\ [r EXCEPT !.state = s].cooling = r.cooling
         /\ [r EXCEPT !.failures = n].state = r.state /\ [r EXCEPT !.failures = n].failures = n
         /\ [r EXCEPT !.failures = n].successes = r.successes
         /\ [r EXCEPT !.failures = n].cooling = r.cooling
         /\ [r EXCEPT !.successes = n].state = r.state
         /\ [r EXCEPT !.successes = n].failures = r.failures
         /\ [r EXCEPT !.successes = n].successes = n
         /\ [r EXCEPT !.successes = n].cooling = r.cooling
         /\ [r EXCEPT !.cooling = l].state = r.state
         /\ [r EXCEPT !.cooling = l].failures = r.failures
         /\ [r EXCEPT !.cooling = l].successes = r.successes
         /\ [r EXCEPT !.cooling = l].cooling = l
         /\ [r EXCEPT !.lock = l].state = r.state /\ [r EXCEPT !.lock = l].failures = r.failures
         /\ [r EXCEPT !.lock = l].successes = r.successes
         /\ [r EXCEPT !.lock = l].cooling = r.cooling
  BY DEF Keys

LEMMA SoloBranch ==
  ASSUME NEW c \in Calls, SoloInv(c), NEW from, NEW to, Branch(c, from, to)
  PROVE  pc[c] = from /\ pc'[c] = to /\ redis' = redis /\ local' = local /\ troubles' = troubles
  BY DEF SoloInv, TypeOK, Branch, Goto

LEMMA SoloWrite ==
  ASSUME NEW c \in Calls, SoloInv(c), NEW from, NEW keys, NEW to, Write(c, from, keys, to)
  PROVE  pc[c] = from /\ pc'[c] = to /\ redis' = keys /\ local' = local /\ troubles' = troubles
  BY DEF SoloInv, TypeOK, Write, Goto

(* A command that only moves the call, or only changes the lock.           *)
LEMMA Stutters ==
  ASSUME NEW c, SoloInv(c), redis'.state = redis.state, redis'.failures = redis.failures,
         redis'.successes = redis.successes, redis'.cooling = redis.cooling,
         pc[c] \notin {"clear_closed", "reset_clear", "stamp_trip", "trip", "drop_successes",
                       "close", "restamp"},
         pc'[c] \notin {"clear_closed", "reset_clear", "stamp_trip", "trip", "drop_successes",
                        "close", "restamp"},
         Allowed(redis', pc'[c])
  PROVE  Conforms(redis, pc[c], redis', pc'[c])
  BY DEF Conforms, StandsStill, Becomes, FailuresOf, SuccessesOf, CoolingOf

Solo(c) == Shared' /\ Conforms(redis, pc[c], redis', pc'[c])

LEMMA SoloAdmission ==
  ASSUME NEW c \in Calls, SoloInv(c), Admission(c)
  PROVE  Solo(c)
  <1>0. redis \in Keys /\ Allowed(redis, pc[c]) /\ Shared
    BY DEF SoloInv, TypeOK
  <1>1. CASE ReadTimeout(c)
    <2> DEFINE to == IF redis.cooling THEN "idle" ELSE "to_half_open"
    <2>1. Branch(c, "remaining", to)
      BY <1>1 DEF ReadTimeout
    <2> HIDE DEF to
    <2>2. /\ pc[c] = "remaining" /\ pc'[c] = to /\ redis' = redis /\ local' = local
          /\ troubles' = troubles
      BY <2>1, SoloBranch
    <2>3. Allowed(redis, to) /\ to \in {"idle", "to_half_open"}
      BY <1>0, <2>2 DEF Allowed, to
    <2> QED BY <1>0, <2>2, <2>3, Stutters DEF Solo, Shared
  <1>2. CASE SetHalfOpen(c)
    <2>1. /\ pc[c] = "to_half_open" /\ pc'[c] = "drop_successes" /\ local' = local
          /\ redis' = [redis EXCEPT !.state = "half_open"] /\ troubles' = troubles
      BY <1>2, SoloWrite DEF SetHalfOpen
    <2>2. redis'.state = "half_open"
      BY <1>0, <2>1, WriteFields
    <2>3. Allowed(redis', "drop_successes")
      BY <2>2 DEF Allowed
    <2>4. OpenStep(redis, "to_half_open", redis', "drop_successes")
      BY <1>0, <2>1, <2>2 DEF OpenStep, Becomes, FailuresOf, SuccessesOf, CoolingOf, Allowed
    <2> QED BY <1>0, <2>1, <2>3, <2>4 DEF Solo, Shared, Conforms
  <1>3. CASE DropSuccesses(c)
    <2>1. /\ pc[c] = "drop_successes" /\ pc'[c] = "sync_probe" /\ local' = local
          /\ redis' = [redis EXCEPT !.successes = 0] /\ troubles' = troubles
      BY <1>3, SoloWrite DEF DropSuccesses
    <2>2. redis'.state = "half_open" /\ redis'.successes = 0
      BY <1>0, <2>1, WriteFields DEF Allowed
    <2>3. Allowed(redis', "sync_probe")
      BY <2>2, BreakerAssumption DEF Allowed, BreakerAssumption
    <2>4. StandsStill(redis, "drop_successes", redis', "sync_probe")
      BY <1>0, <2>1, <2>2 DEF StandsStill, Becomes, FailuresOf, SuccessesOf, CoolingOf, Allowed
    <2> QED BY <1>0, <2>1, <2>3, <2>4 DEF Solo, Shared, Conforms
  <1>4. CASE SyncProbe(c)
    <2>1. /\ pc[c] = "sync_probe" /\ pc'[c] = "acquire" /\ UNCHANGED <<redis, troubles>>
          /\ local' = [local EXCEPT ![Home(c)] = Snapshot(local[Home(c)], "half_open")]
      BY <1>4 DEF SyncProbe, SetFields, Goto, SoloInv, TypeOK
    <2>2. Shared'
      BY <1>0, <2>1, HomeType DEF Shared, Snapshot, SoloInv, TypeOK, Fields
    <2>3. Allowed(redis', "acquire")
      BY <1>0, <2>1 DEF Allowed
    <2> QED BY <2>1, <2>2, <2>3, Stutters DEF Solo
  <1>5. CASE AcquireProbeLock(c)
    <2>1. /\ pc[c] = "acquire" /\ pc'[c] \in {"idle", "probing"} /\ local' = local
          /\ redis' \in {redis, [redis EXCEPT !.lock = TRUE]} /\ troubles' = troubles
      BY <1>5, SoloBranch, SoloWrite DEF AcquireProbeLock
    <2>2. /\ redis'.state = redis.state /\ redis'.failures = redis.failures
          /\ redis'.successes = redis.successes /\ redis'.cooling = redis.cooling
      BY <1>0, <2>1 DEF Keys
    <2>3. Allowed(redis', pc'[c])
      BY <1>0, <2>1, <2>2 DEF Allowed
    <2> QED BY <1>0, <2>1, <2>2, <2>3, Stutters DEF Solo, Shared
  <1> QED BY <1>1, <1>2, <1>3, <1>4, <1>5 DEF Admission

LEMMA SoloAfterSuccess ==
  ASSUME NEW c \in Calls, SoloInv(c), AfterSuccess(c)
  PROVE  Solo(c)
  <1>0. /\ redis \in Keys /\ Allowed(redis, pc[c]) /\ Shared
        /\ FailureThreshold \in Nat \ {0} /\ SuccessThreshold \in Nat \ {0}
        /\ redis.failures \in Nat /\ redis.successes \in Nat
    BY BreakerAssumption DEF BreakerAssumption, SoloInv, TypeOK, Keys
  <1>1. CASE OnSuccess(c)
    <2> DEFINE to == CASE redis.state = "closed"    -> "reset_failures"
                       [] redis.state = "half_open" -> "count_success"
                       [] redis.state = "open"      -> "sync"
    <2>1. Branch(c, "succeeded", to)
      BY <1>1 DEF OnSuccess
    <2> HIDE DEF to
    <2>2. /\ pc[c] = "succeeded" /\ pc'[c] = to /\ redis' = redis /\ local' = local
          /\ troubles' = troubles
      BY <2>1, SoloBranch
    <2>3. \/ redis.state = "closed" /\ to = "reset_failures"
          \/ redis.state = "half_open" /\ to = "count_success"
      BY <1>0, <2>2 DEF to, Allowed, Keys, CircuitStates
    <2>4. Allowed(redis, to)
      BY <1>0, <2>2, <2>3 DEF Allowed
    <2> QED BY <1>0, <2>2, <2>3, <2>4, Stutters DEF Solo, Shared
  <1>2. CASE ResetFailures(c)
    <2>1. /\ pc[c] = "reset_failures" /\ pc'[c] = "sync" /\ local' = local
          /\ redis' = [redis EXCEPT !.failures = 0] /\ troubles' = troubles
      BY <1>2, SoloWrite DEF ResetFailures
    <2>2. redis'.state = "closed" /\ redis'.failures = 0
      BY <1>0, <2>1, WriteFields DEF Allowed
    <2>3. Allowed(redis', "sync") /\ Becomes(redis', "sync", "closed", 0, 0, FALSE)
      BY <1>0, <2>2 DEF Allowed, Becomes, FailuresOf, SuccessesOf, CoolingOf
    <2> QED BY <1>0, <2>1, <2>3 DEF Solo, Shared, Conforms
  <1>3. CASE CountSuccess(c)
    <2> DEFINE n == redis.successes + 1
               to == IF n >= SuccessThreshold THEN "close" ELSE "release"
    <2>1. Write(c, "count_success", [redis EXCEPT !.successes = n], to)
      BY <1>3 DEF CountSuccess
    <2> HIDE DEF to, n
    <2>2. /\ pc[c] = "count_success" /\ pc'[c] = to /\ local' = local
          /\ redis' = [redis EXCEPT !.successes = n] /\ troubles' = troubles
      BY <2>1, SoloWrite
    <2>3. /\ redis.state = "half_open" /\ redis'.state = "half_open" /\ redis'.successes = n
          /\ redis.successes < SuccessThreshold
      BY <1>0, <2>2, WriteFields DEF Allowed
    <2>4. CASE n >= SuccessThreshold
      <3>1. to = "close" /\ SuccessThreshold - 1 = redis.successes
        BY <1>0, <2>3, <2>4 DEF to, n
      <3>2. Allowed(redis', "close") /\ StandsStill(redis, "count_success", redis', "close")
        BY <2>3, <3>1
          DEF Allowed, StandsStill, Becomes, FailuresOf, SuccessesOf, CoolingOf
      <3> QED BY <1>0, <2>2, <3>1, <3>2 DEF Solo, Shared, Conforms
    <2>5. CASE ~(n >= SuccessThreshold)
      <3>1. to = "release" /\ redis.successes + 1 < SuccessThreshold /\ n < SuccessThreshold
        BY <1>0, <2>5 DEF to, n
      <3>2. Allowed(redis', "release")
        BY <2>3, <3>1 DEF Allowed
      <3>3. HalfOpenStep(redis, "count_success", redis', "release")
        BY <2>3, <3>1 DEF HalfOpenStep, Becomes, FailuresOf, SuccessesOf, CoolingOf, n
      <3> QED BY <1>0, <2>2, <3>1, <3>2, <3>3 DEF Solo, Shared, Conforms
    <2> QED BY <2>4, <2>5
  <1>4. CASE Close(c)
    <2>1. /\ pc[c] = "close" /\ pc'[c] = "clear_closed" /\ local' = local
          /\ redis' = [redis EXCEPT !.state = "closed"] /\ troubles' = troubles
      BY <1>4, SoloWrite DEF Close
    <2>2. redis.state = "half_open" /\ redis'.state = "closed"
      BY <1>0, <2>1, WriteFields DEF Allowed
    <2>3. /\ Allowed(redis', "clear_closed")
          /\ Becomes(redis', "clear_closed", "closed", 0, 0, FALSE)
      BY <2>2 DEF Allowed, Becomes, FailuresOf, SuccessesOf, CoolingOf
    <2> QED BY <1>0, <2>1, <2>3 DEF Solo, Shared, Conforms
  <1>5. CASE ClearClosed(c)
    <2>1. /\ pc[c] = "clear_closed" /\ pc'[c] = "sync" /\ local' = local
          /\ redis' = [redis EXCEPT !.failures = 0, !.successes = 0, !.lock = FALSE]
          /\ troubles' = troubles
      BY <1>5, SoloWrite DEF ClearClosed
    <2>2. redis'.state = "closed" /\ redis'.failures = 0
      BY <1>0, <2>1 DEF Allowed, Keys
    <2>3. Allowed(redis', "sync") /\ Becomes(redis', "sync", "closed", 0, 0, FALSE)
      BY <1>0, <2>2 DEF Allowed, Becomes, FailuresOf, SuccessesOf, CoolingOf
    <2> QED BY <1>0, <2>1, <2>3 DEF Solo, Shared, Conforms
  <1>6. CASE Release(c)
    <2>1. /\ pc[c] = "release" /\ pc'[c] = "sync" /\ local' = local
          /\ redis' = [redis EXCEPT !.lock = FALSE] /\ troubles' = troubles
      BY <1>6, SoloWrite DEF Release
    <2>2. /\ redis'.state = redis.state /\ redis'.failures = redis.failures
          /\ redis'.successes = redis.successes /\ redis'.cooling = redis.cooling
      BY <1>0, <2>1 DEF Keys
    <2>3. Allowed(redis', "sync")
      BY <1>0, <2>1, <2>2 DEF Allowed
    <2> QED BY <1>0, <2>1, <2>2, <2>3, Stutters DEF Solo, Shared
  <1> QED BY <1>1, <1>2, <1>3, <1>4, <1>5, <1>6 DEF AfterSuccess

LEMMA SoloAfterFailure ==
  ASSUME NEW c \in Calls, SoloInv(c), AfterFailure(c)
  PROVE  Solo(c)
  <1>0. /\ redis \in Keys /\ Allowed(redis, pc[c]) /\ Shared
        /\ FailureThreshold \in Nat \ {0} /\ SuccessThreshold \in Nat \ {0}
        /\ redis.failures \in Nat /\ redis.successes \in Nat /\ redis.cooling \in BOOLEAN
    BY BreakerAssumption DEF BreakerAssumption, SoloInv, TypeOK, Keys
  <1>1. CASE OnFailure(c)
    <2> DEFINE to == CASE redis.state = "closed"    -> "count_failure"
                       [] redis.state = "half_open" -> "reopen"
                       [] redis.state = "open"      -> "sync"
    <2>1. Branch(c, "failed", to)
      BY <1>1 DEF OnFailure
    <2> HIDE DEF to
    <2>2. /\ pc[c] = "failed" /\ pc'[c] = to /\ redis' = redis /\ local' = local
          /\ troubles' = troubles
      BY <2>1, SoloBranch
    <2>3. \/ redis.state = "closed" /\ to = "count_failure"
          \/ redis.state = "half_open" /\ to = "reopen"
      BY <1>0, <2>2 DEF to, Allowed, Keys, CircuitStates
    <2>4. Allowed(redis, to)
      BY <1>0, <2>2, <2>3 DEF Allowed
    <2> QED BY <1>0, <2>2, <2>3, <2>4, Stutters DEF Solo, Shared
  <1>2. CASE CountFailure(c)
    <2> DEFINE n == redis.failures + 1
               to == IF n >= FailureThreshold THEN "stamp_trip" ELSE "stamp"
    <2>1. Write(c, "count_failure", [redis EXCEPT !.failures = n], to)
      BY <1>2 DEF CountFailure
    <2> HIDE DEF to, n
    <2>2. /\ pc[c] = "count_failure" /\ pc'[c] = to /\ local' = local
          /\ redis' = [redis EXCEPT !.failures = n] /\ troubles' = troubles
      BY <2>1, SoloWrite
    <2>3. /\ redis.state = "closed" /\ redis'.state = "closed" /\ redis'.failures = n
          /\ redis.failures < FailureThreshold
      BY <1>0, <2>2, WriteFields DEF Allowed
    <2>4. CASE n >= FailureThreshold
      <3>1. to = "stamp_trip" /\ FailureThreshold - 1 = redis.failures
        BY <1>0, <2>3, <2>4 DEF to, n
      <3>2. /\ Allowed(redis', "stamp_trip")
            /\ StandsStill(redis, "count_failure", redis', "stamp_trip")
        BY <2>3, <3>1
          DEF Allowed, StandsStill, Becomes, FailuresOf, SuccessesOf, CoolingOf
      <3> QED BY <1>0, <2>2, <3>1, <3>2 DEF Solo, Shared, Conforms
    <2>5. CASE ~(n >= FailureThreshold)
      <3>1. to = "stamp" /\ redis.failures + 1 < FailureThreshold /\ n < FailureThreshold
        BY <1>0, <2>5 DEF to, n
      <3>2. Allowed(redis', "stamp")
        BY <2>3, <3>1 DEF Allowed
      <3>3. ClosedStep(redis, "count_failure", redis', "stamp")
        BY <2>3, <3>1 DEF ClosedStep, Becomes, FailuresOf, SuccessesOf, CoolingOf, n
      <3> QED BY <1>0, <2>2, <3>1, <3>2, <3>3 DEF Solo, Shared, Conforms
    <2> QED BY <2>4, <2>5
  <1>3. CASE Stamp(c)
    <2>1. /\ pc[c] = "stamp" /\ pc'[c] = "sync" /\ local' = local
          /\ redis' = [redis EXCEPT !.cooling = TRUE] /\ troubles' = troubles
      BY <1>3, SoloWrite DEF Stamp
    <2>2. /\ redis.state = "closed" /\ redis'.state = "closed"
          /\ redis'.failures = redis.failures
      BY <1>0, <2>1 DEF Allowed, Keys
    <2>3. Allowed(redis', "sync") /\ StandsStill(redis, "stamp", redis', "sync")
      BY <1>0, <2>1, <2>2
        DEF Allowed, StandsStill, Becomes, FailuresOf, SuccessesOf, CoolingOf
    <2> QED BY <1>0, <2>1, <2>3 DEF Solo, Shared, Conforms
  <1>4. CASE StampTrip(c)
    <2>1. /\ pc[c] = "stamp_trip" /\ pc'[c] = "trip" /\ local' = local
          /\ redis' = [redis EXCEPT !.cooling = TRUE] /\ troubles' = troubles
      BY <1>4, SoloWrite DEF StampTrip
    <2>2. redis.state = "closed" /\ redis'.state = "closed" /\ redis'.cooling = TRUE
      BY <1>0, <2>1 DEF Allowed, Keys
    <2>3. Allowed(redis', "trip") /\ StandsStill(redis, "stamp_trip", redis', "trip")
      BY <2>2 DEF Allowed, StandsStill, Becomes, FailuresOf, SuccessesOf, CoolingOf
    <2> QED BY <1>0, <2>1, <2>3 DEF Solo, Shared, Conforms
  <1>5. CASE Trip(c)
    <2>1. /\ pc[c] = "trip" /\ pc'[c] = "clear_trip" /\ local' = local
          /\ redis' = [redis EXCEPT !.state = "open"] /\ troubles' = troubles
      BY <1>5, SoloWrite DEF Trip
    <2>2. redis.state = "closed" /\ redis'.state = "open" /\ redis'.cooling = TRUE
      BY <1>0, <2>1 DEF Allowed, Keys
    <2>3. Allowed(redis', "clear_trip")
      BY <2>2 DEF Allowed
    <2>4. ClosedStep(redis, "trip", redis', "clear_trip")
      <3>1. ~(FailuresOf(redis, "trip") + 1 < FailureThreshold)
        BY <1>0, <2>2 DEF FailuresOf
      <3>2. Becomes(redis', "clear_trip", "open", 0, 0, TRUE)
        BY <2>2 DEF Becomes, FailuresOf, SuccessesOf, CoolingOf
      <3> QED BY <2>2, <3>1, <3>2 DEF ClosedStep
    <2> QED BY <1>0, <2>1, <2>3, <2>4 DEF Solo, Shared, Conforms
  <1>6. CASE ClearTrip(c)
    <2>1. /\ pc[c] = "clear_trip" /\ pc'[c] = "idle"
          /\ redis' = [redis EXCEPT !.failures = 0] /\ troubles' = troubles
          /\ local' = [local EXCEPT ![Home(c)] =
                         [local[Home(c)] EXCEPT !.state = "open", !.successes = 0,
                                                !.failures = FailureThreshold]]
      BY <1>6 DEF ClearTrip, SetFields, Goto, SoloInv, TypeOK
    <2>2. Shared'
      BY <1>0, <2>1, HomeType DEF Shared, SoloInv, TypeOK, Fields
    <2>3. redis.state = "open" /\ redis'.state = "open" /\ redis'.cooling = redis.cooling
      BY <1>0, <2>1 DEF Allowed, Keys
    <2>4. Allowed(redis', "idle") /\ StandsStill(redis, "clear_trip", redis', "idle")
      BY <2>3 DEF Allowed, StandsStill, Becomes, FailuresOf, SuccessesOf, CoolingOf
    <2> QED BY <2>1, <2>2, <2>4 DEF Solo, Conforms
  <1>7. CASE Reopen(c)
    <2>1. /\ pc[c] = "reopen" /\ pc'[c] = "restamp" /\ local' = local
          /\ redis' = [redis EXCEPT !.state = "open"] /\ troubles' = troubles
      BY <1>7, SoloWrite DEF Reopen
    <2>2. redis.state = "half_open" /\ redis'.state = "open"
      BY <1>0, <2>1 DEF Allowed, Keys
    <2>3. Allowed(redis', "restamp")
      BY <2>2 DEF Allowed
    <2>4. HalfOpenStep(redis, "reopen", redis', "restamp")
      BY <2>2 DEF HalfOpenStep, Becomes, FailuresOf, SuccessesOf, CoolingOf
    <2> QED BY <1>0, <2>1, <2>3, <2>4 DEF Solo, Shared, Conforms
  <1>8. CASE Restamp(c)
    <2>1. /\ pc[c] = "restamp" /\ pc'[c] = "clear_reopen" /\ local' = local
          /\ redis' = [redis EXCEPT !.cooling = TRUE] /\ troubles' = troubles
      BY <1>8, SoloWrite DEF Restamp
    <2>2. redis.state = "open" /\ redis'.state = "open" /\ redis'.cooling = TRUE
      BY <1>0, <2>1 DEF Allowed, Keys
    <2>3. Allowed(redis', "clear_reopen") /\ StandsStill(redis, "restamp", redis', "clear_reopen")
      BY <2>2 DEF Allowed, StandsStill, Becomes, FailuresOf, SuccessesOf, CoolingOf
    <2> QED BY <1>0, <2>1, <2>3 DEF Solo, Shared, Conforms
  <1>9. CASE ClearReopen(c)
    <2>1. /\ pc[c] = "clear_reopen" /\ pc'[c] = "sync" /\ local' = local
          /\ redis' = [redis EXCEPT !.failures = 0, !.successes = 0, !.lock = FALSE]
          /\ troubles' = troubles
      BY <1>9, SoloWrite DEF ClearReopen
    <2>2. redis.state = "open" /\ redis'.state = "open" /\ redis'.cooling = redis.cooling
      BY <1>0, <2>1 DEF Allowed, Keys
    <2>3. Allowed(redis', "sync") /\ StandsStill(redis, "clear_reopen", redis', "sync")
      BY <2>2 DEF Allowed, StandsStill, Becomes, FailuresOf, SuccessesOf, CoolingOf
    <2> QED BY <1>0, <2>1, <2>3 DEF Solo, Shared, Conforms
  <1> QED BY <1>1, <1>2, <1>3, <1>4, <1>5, <1>6, <1>7, <1>8, <1>9 DEF AfterFailure

LEMMA SoloProceed ==
  ASSUME NEW c \in Calls, SoloInv(c), Proceed(c)
  PROVE  Solo(c)
  <1>0. redis \in Keys /\ Allowed(redis, pc[c]) /\ Shared
    BY DEF SoloInv, TypeOK
  <1>1. CASE CallReturns(c)
    <2>1. PICK at \in InFlight : Branch(c, at, "succeeded")
      BY <1>1 DEF CallReturns
    <2>2. /\ pc[c] \in {"calling", "probing"} /\ pc'[c] = "succeeded" /\ redis' = redis
          /\ local' = local /\ troubles' = troubles
      BY <2>1, SoloBranch DEF InFlight
    <2>3. Allowed(redis, "succeeded")
      BY <1>0, <2>2 DEF Allowed
    <2> QED BY <1>0, <2>2, <2>3, Stutters DEF Solo, Shared
  <1>2. CASE Sync(c)
    <2>1. /\ pc[c] = "sync" /\ pc'[c] = "idle" /\ UNCHANGED <<redis, troubles>>
          /\ local' = [local EXCEPT ![Home(c)] = Snapshot(local[Home(c)], redis.state)]
      BY <1>2 DEF Sync, SetFields, Goto, SoloInv, TypeOK
    <2>2. Shared'
      BY <1>0, <2>1, HomeType DEF Shared, Snapshot, SoloInv, TypeOK, Fields
    <2>3. Allowed(redis', "idle")
      BY <1>0, <2>1 DEF Allowed
    <2> QED BY <2>1, <2>2, <2>3, Stutters DEF Solo
  <1>3. ~LocalReturns(c)
    BY <1>0 DEF Allowed, LocalReturns, LocalOutcome
  <1>4. CASE ResetClear(c)
    <2>1. /\ pc[c] = "reset_clear" /\ pc'[c] = "sync" /\ local' = local
          /\ redis' = [redis EXCEPT !.failures = 0, !.successes = 0, !.cooling = FALSE,
                                    !.lock = FALSE]
          /\ troubles' = troubles
      BY <1>4, SoloWrite DEF ResetClear
    <2>2. redis'.state = "closed" /\ redis'.failures = 0
      BY <1>0, <2>1 DEF Allowed, Keys
    <2>3. Allowed(redis', "sync") /\ Becomes(redis', "sync", "closed", 0, 0, FALSE)
      BY <2>2, BreakerAssumption
        DEF BreakerAssumption, Allowed, Becomes, FailuresOf, SuccessesOf, CoolingOf
    <2> QED BY <1>0, <2>1, <2>3 DEF Solo, Shared, Conforms
  <1> QED BY <1>1, <1>2, <1>3, <1>4, SoloAdmission, SoloAfterSuccess, SoloAfterFailure
            DEF Proceed

LEMMA SoloArrive ==
  ASSUME NEW c \in Calls, SoloInv(c), Arrive(c)
  PROVE  Solo(c)
  <1>0. redis \in Keys /\ Allowed(redis, pc[c]) /\ Shared
    BY DEF SoloInv, TypeOK
  <1>1. ReadState(c)
    BY <1>0, HomeType DEF Arrive, LocalCall, Shared
  <1> DEFINE to == CASE redis.state = "closed"    -> "calling"
                     [] redis.state = "open"      -> "remaining"
                     [] redis.state = "half_open" -> "acquire"
  <1>2. /\ pc[c] = "idle" /\ pc'[c] = to /\ UNCHANGED <<redis, troubles>>
        /\ local' = [local EXCEPT ![Home(c)] = [local[Home(c)] EXCEPT !.state = redis.state]]
    BY <1>1 DEF ReadState, SetFields, Goto, SoloInv, TypeOK
  <1>3. \/ redis.state = "closed" /\ to = "calling"
        \/ redis.state = "open" /\ to = "remaining"
        \/ redis.state = "half_open" /\ to = "acquire"
    BY <1>0 DEF Keys, CircuitStates
  <1> HIDE DEF to
  <1>4. Shared'
    BY <1>0, <1>2, HomeType DEF Shared, SoloInv, TypeOK, Fields
  <1>5. Allowed(redis, to)
    BY <1>0, <1>2, <1>3 DEF Allowed
  <1> QED BY <1>2, <1>3, <1>4, <1>5, Stutters DEF Solo

LEMMA NoTrouble ==
  ASSUME MaxTroubles = 0, Shared
  PROVE  ~Trouble
  BY DEF Shared, Trouble

LEMMA SoloMishap ==
  ASSUME NEW c \in Calls, MaxTroubles = 0, SoloInv(c), Mishap(c)
  PROVE  Solo(c)
  <1>0. redis \in Keys /\ Allowed(redis, pc[c]) /\ Shared
    BY DEF SoloInv, TypeOK
  <1>1. CallFails(c) \/ CallEscapes(c)
    BY <1>0, NoTrouble
      DEF Mishap, RedisFails, Abandon, LocalFails, LocalEscapes, LocalOutcome, Allowed
  <1>2. PICK at \in InFlight, to \in {"failed", "idle"} : Branch(c, at, to)
    BY <1>1 DEF CallFails, CallEscapes
  <1>3. /\ pc[c] \in {"calling", "probing"} /\ pc'[c] = to /\ redis' = redis
        /\ local' = local /\ troubles' = troubles
    BY <1>2, SoloBranch DEF InFlight
  <1>4. Allowed(redis, to)
    BY <1>0, <1>3 DEF Allowed
  <1> QED BY <1>0, <1>3, <1>4, Stutters DEF Solo, Shared

LEMMA SoloOperator ==
  ASSUME NEW c \in Calls, MaxTroubles = 0, SoloInv(c), Operator(c)
  PROVE  Solo(c)
  <1>0. redis \in Keys /\ Shared
    BY DEF SoloInv, TypeOK
  <1>1. ResetState(c)
    BY <1>0, NoTrouble, HomeType DEF Operator, ResetLocally, ResetFails, Shared
  <1>2. /\ pc[c] = "idle" /\ pc'[c] = "reset_clear" /\ local' = local
        /\ redis' = [redis EXCEPT !.state = "closed"] /\ troubles' = troubles
    BY <1>1, SoloWrite DEF ResetState
  <1>3. redis'.state = "closed"
    BY <1>0, <1>2 DEF Keys
  <1>4. Allowed(redis', "reset_clear") /\ Becomes(redis', "reset_clear", "closed", 0, 0, FALSE)
    BY <1>3 DEF Allowed, Becomes, FailuresOf, SuccessesOf, CoolingOf
  <1> QED BY <1>0, <1>2, <1>4 DEF Solo, Shared, Conforms

LEMMA SoloSurroundings ==
  ASSUME NEW c \in Calls, MaxTroubles = 0, SoloInv(c), Surroundings
  PROVE  Solo(c)
  <1>0. redis \in Keys /\ Allowed(redis, pc[c]) /\ Shared
    BY DEF SoloInv, TypeOK
  <1>1. CASE Settle \/ UNCHANGED vars
    <2>1. UNCHANGED <<redis, local, pc, troubles>>
      BY <1>1 DEF Settle, vars
    <2> QED BY <1>0, <2>1 DEF Solo, Shared, Conforms, StandsStill, Becomes
  <1>2. CASE \E b \in Breakers : LocalElapse(b)
    <2>1. PICK b \in Breakers : LocalElapse(b)
      BY <1>2
    <2>2. Shared' /\ UNCHANGED <<redis, pc>>
      BY <1>0, <2>1 DEF LocalElapse, Shared, SoloInv, TypeOK, Fields
    <2> QED BY <1>0, <2>2 DEF Solo, Conforms, StandsStill, Becomes
  <1>3. CASE LockExpires
    <2>1. /\ redis' = [redis EXCEPT !.lock = FALSE] /\ UNCHANGED <<local, pc, troubles>>
      BY <1>3 DEF LockExpires
    <2>2. /\ redis'.state = redis.state /\ redis'.failures = redis.failures
          /\ redis'.successes = redis.successes /\ redis'.cooling = redis.cooling
      BY <1>0, <2>1 DEF Keys
    <2>3. Allowed(redis', pc[c]) /\ StandsStill(redis, pc[c], redis', pc[c])
      BY <1>0, <2>2 DEF Allowed, StandsStill, Becomes, FailuresOf, SuccessesOf, CoolingOf
    <2> QED BY <1>0, <2>1, <2>3 DEF Solo, Shared, Conforms
  <1>4. CASE Elapse
    <2>1. /\ pc[c] # "trip" /\ redis' = [redis EXCEPT !.cooling = FALSE]
          /\ redis.cooling /\ UNCHANGED <<local, pc, troubles>>
      BY <1>4 DEF Elapse
    <2>2. /\ redis'.state = redis.state /\ redis'.failures = redis.failures
          /\ redis'.successes = redis.successes /\ redis'.cooling = FALSE
      BY <1>0, <2>1 DEF Keys
    <2>3. Allowed(redis', pc[c])
      BY <1>0, <2>1, <2>2 DEF Allowed
    <2>4. CASE redis.state = "open" /\ pc[c] # "restamp"
      <3>1. Becomes(redis', pc[c], "open", 0, 0, FALSE)
        BY <2>2, <2>4 DEF Becomes, FailuresOf, SuccessesOf, CoolingOf
      <3> QED BY <1>0, <2>1, <2>3, <2>4, <3>1 DEF Solo, Shared, Conforms, OpenStep
    <2>5. CASE redis.state = "open" /\ pc[c] = "restamp"
      <3>1. StandsStill(redis, pc[c], redis', pc[c])
        BY <2>2, <2>5 DEF StandsStill, Becomes, FailuresOf, SuccessesOf, CoolingOf
      <3> QED BY <1>0, <2>1, <2>3, <3>1 DEF Solo, Shared, Conforms
    <2>6. CASE redis.state # "open"
      <3>1. StandsStill(redis, pc[c], redis', pc[c])
        BY <2>2, <2>6 DEF StandsStill, Becomes, FailuresOf, SuccessesOf, CoolingOf
      <3> QED BY <1>0, <2>1, <2>3, <3>1 DEF Solo, Shared, Conforms
    <2> QED BY <2>4, <2>5, <2>6
  <1>5. ~\E b \in Breakers : SnapshotFails(b)
    BY <1>0, NoTrouble DEF SnapshotFails
  <1> QED BY <1>1, <1>2, <1>3, <1>4, <1>5 DEF Surroundings

LEMMA SoloInit ==
  ASSUME NEW c, Calls = {c}, Init
  PROVE  SoloInv(c) /\ Abstract!Init
  <1>1. TypeOK /\ pc[c] = "idle" /\ redis.state = "closed" /\ redis.failures = 0
    BY InitType DEF Init
  <1>2. Shared
    BY DEF Shared, Init, FreshFields
  <1>3. Allowed(redis, pc[c])
    BY <1>1, BreakerAssumption DEF Allowed, BreakerAssumption
  <1>4. absFailures = 0 /\ absSuccesses = 0 /\ absCooling = FALSE
    <2>1. /\ FailuresOf(redis, pc[c]) = 0 /\ SuccessesOf(redis, pc[c]) = 0
          /\ CoolingOf(redis, pc[c]) = FALSE
      BY <1>1 DEF FailuresOf, SuccessesOf, CoolingOf
    <2> QED BY <2>1, BarsAre
  <1> QED BY <1>1, <1>2, <1>3, <1>4 DEF SoloInv, Abstract!Init

LEMMA SoloStep ==
  ASSUME NEW c, Calls = {c}, MaxTroubles = 0, SoloInv(c), [Next]_vars
  PROVE  SoloInv(c)' /\ [Abstract!Next]_(Abstract!vars)
  <1>1. Solo(c)
    BY StepCases, SoloSurroundings, SoloArrive, SoloProceed, SoloMishap, SoloOperator
  <1>2. TypeOK'
    BY NextType DEF SoloInv
  <1>3. SoloInv(c)'
    BY <1>1, <1>2 DEF Solo, Conforms, SoloInv
  <1> QED BY <1>1, <1>3, AbstractStep DEF Solo

(* With one call at a time and a Redis that answers, for any thresholds,   *)
(* the keys implement the breaker: it opens after FailureThreshold         *)
(* failures in a row and not before, admits no probe while                 *)
(* recovery_timeout runs, and closes after SuccessThreshold probes in a    *)
(* row, although each of these takes several Redis commands.               *)
THEOREM BreakerImplemented ==
  ASSUME NEW c, Calls = {c}, MaxTroubles = 0
  PROVE  Spec => BreakerSpec
  <1>1. Init => SoloInv(c) /\ Abstract!Init
    BY SoloInit
  <1>2. SoloInv(c) /\ [Next]_vars => SoloInv(c)' /\ [Abstract!Next]_(Abstract!vars)
    BY SoloStep
  <1> QED BY <1>1, <1>2, PTL DEF Spec, BreakerSpec, Abstract!Spec
-----------------------------------------------------------------------------
(***************************************************************************)
(* An object on its own copy implements the abstract breaker, whichever    *)
(* calls run at the same time.  First what each change of its fields       *)
(* amounts to, then which steps make which change.                         *)
(***************************************************************************)
OwnMoves(b) == [Own(b)!Next]_(Own(b)!vars)

LEMMA OwnStays ==
  ASSUME NEW b \in Breakers, local'[b] = local[b]
  PROVE  OwnMoves(b)
  BY DEF OwnMoves, Own!vars

LEMMA OwnResets ==
  ASSUME NEW b \in Breakers, local[b] \in Fields,
         local'[b] = ResetFields(local[b])
  PROVE  OwnMoves(b)
  BY DEF OwnMoves, Own!Next, Own!Reset, Own!Become, ResetFields, Fields

LEMMA OwnCools ==
  ASSUME NEW b \in Breakers, local[b] \in Fields,
         local'[b] = [local[b] EXCEPT !.cooling = FALSE]
  PROVE  OwnMoves(b)
  BY DEF OwnMoves, Own!Next, Own!Cool, Own!Become, Own!vars, Fields

LEMMA OwnAdmits ==
  ASSUME NEW b \in Breakers, local[b] \in Fields, NEW p \in BOOLEAN,
         local'[b] = [Admitting(local[b]) EXCEPT !.probing = p]
  PROVE  OwnMoves(b)
  BY DEF OwnMoves, Own!Next, Own!Probe, Own!Become, Own!vars, Fields, Admitting

LEMMA OwnSucceeds ==
  ASSUME NEW b \in Breakers, local[b] \in Fields,
         local'[b] = LocalSuccess(local[b])
  PROVE  OwnMoves(b)
  <1> DEFINE f == local[b]
             g == local'[b]
  <1>0. /\ SuccessThreshold \in Nat \ {0} /\ f.successes \in Nat
        /\ f.state \in CircuitStates
    BY BreakerAssumption DEF BreakerAssumption, Fields
  <1>1. CASE f.state = "closed"
    <2>1. g = [f EXCEPT !.failures = 0]
      BY <1>1 DEF LocalSuccess
    <2>2. g.state = "closed" /\ g.failures = 0
      BY <1>1, <2>1 DEF Fields
    <2>3. Own(b)!Success
      BY <1>1, <2>2 DEF Own!Success, Own!Become
    <2> QED
      BY <2>3 DEF OwnMoves, Own!Next
  <1>2. CASE f.state = "open"
    BY <1>2, OwnStays DEF LocalSuccess
  <1>3. CASE f.state = "half_open" /\ f.successes + 1 >= SuccessThreshold
    <2>1. g = [f EXCEPT !.state = "closed", !.failures = 0,
                        !.successes = 0, !.probing = FALSE]
      BY <1>0, <1>3 DEF LocalSuccess
    <2>2. g.state = "closed" /\ g.failures = 0
      BY <2>1 DEF Fields
    <2>3. Own(b)!ProbeSuccess
      BY <1>0, <1>3, <2>2 DEF Own!ProbeSuccess, Own!Become
    <2> QED
      BY <2>3 DEF OwnMoves, Own!Next
  <1>4. CASE f.state = "half_open" /\ f.successes + 1 < SuccessThreshold
    <2>1. g = [f EXCEPT !.successes = f.successes + 1, !.probing = FALSE]
      BY <1>0, <1>4 DEF LocalSuccess
    <2>2. g.state = "half_open" /\ g.successes = f.successes + 1
      BY <1>4, <2>1 DEF Fields
    <2>3. Own(b)!ProbeSuccess
      BY <1>0, <1>4, <2>2 DEF Own!ProbeSuccess, Own!Become
    <2> QED
      BY <2>3 DEF OwnMoves, Own!Next
  <1> QED
    BY <1>0, <1>1, <1>2, <1>3, <1>4 DEF CircuitStates

LEMMA OwnFails ==
  ASSUME NEW b \in Breakers, local[b] \in Fields,
         local'[b] = LocalFailure(local[b])
  PROVE  OwnMoves(b)
  <1> DEFINE f == local[b]
             g == local'[b]
  <1>0. /\ FailureThreshold \in Nat \ {0} /\ f.failures \in Nat
        /\ f.state \in CircuitStates
    BY BreakerAssumption DEF BreakerAssumption, Fields
  <1>1. CASE f.state = "closed" /\ f.failures + 1 >= FailureThreshold
    <2>1. g = [f EXCEPT !.state = "open", !.failures = FailureThreshold,
                        !.successes = 0, !.cooling = TRUE]
      BY <1>0, <1>1 DEF LocalFailure
    <2>2. g.state = "open" /\ g.cooling
      BY <2>1 DEF Fields
    <2>3. Own(b)!Failure
      BY <1>0, <1>1, <2>2 DEF Own!Failure, Own!Become
    <2> QED
      BY <2>3 DEF OwnMoves, Own!Next
  <1>2. CASE f.state = "closed" /\ f.failures + 1 < FailureThreshold
    <2>1. g = [f EXCEPT !.failures = f.failures + 1, !.cooling = TRUE]
      BY <1>0, <1>2 DEF LocalFailure
    <2>2. g.state = "closed" /\ g.failures = f.failures + 1
      BY <1>2, <2>1 DEF Fields
    <2>3. Own(b)!Failure
      BY <1>0, <1>2, <2>2 DEF Own!Failure, Own!Become
    <2> QED
      BY <2>3 DEF OwnMoves, Own!Next
  <1>3. CASE f.state = "half_open"
    <2>1. g = [f EXCEPT !.state = "open", !.successes = 0, !.cooling = TRUE,
                        !.probing = FALSE]
      BY <1>3 DEF LocalFailure
    <2>2. g.state = "open" /\ g.cooling
      BY <2>1 DEF Fields
    <2>3. Own(b)!ProbeFailure
      BY <1>3, <2>2 DEF Own!ProbeFailure, Own!Become
    <2> QED
      BY <2>3 DEF OwnMoves, Own!Next
  <1>4. CASE f.state = "open"
    BY <1>4, OwnStays DEF LocalFailure
  <1> QED
    BY <1>0, <1>1, <1>2, <1>3, <1>4 DEF CircuitStates

(* A step of a call touches its own counter and its own object.            *)
Touches(c) ==
  /\ \A d \in Calls \ {c} : pc'[d] = pc[d]
  /\ \A b \in Breakers \ {Home(c)} : local'[b] = local[b]

LEMMA MovesTouch ==
  ASSUME TypeOK, NEW c \in Calls,
         UNCHANGED pc \/ \E to : Goto(c, to),
         UNCHANGED local \/ \E fields : SetFields(c, fields)
  PROVE  Touches(c)
  BY HomeType DEF Touches, TypeOK, Goto, SetFields

LEMMA ShapesTouch ==
  ASSUME TypeOK, NEW c \in Calls
  PROVE  /\ \A from, to : Branch(c, from, to) => Touches(c)
         /\ \A from, keys, to : Write(c, from, keys, to) => Touches(c)
         /\ \A fields : RunLocally(c, fields) => Touches(c)
         /\ \A fields : LocalOutcome(c, fields) => Touches(c)
  <1>1. \A from, to : Branch(c, from, to) => Touches(c)
    BY MovesTouch DEF Branch
  <1>2. \A from, keys, to : Write(c, from, keys, to) => Touches(c)
    BY MovesTouch DEF Write
  <1>3. \A fields : RunLocally(c, fields) => Touches(c)
    BY MovesTouch DEF RunLocally
  <1>4. \A fields : LocalOutcome(c, fields) => Touches(c)
    BY MovesTouch DEF LocalOutcome
  <1> QED
    BY <1>1, <1>2, <1>3, <1>4

LEMMA CallTouches ==
  ASSUME TypeOK, NEW c \in Calls,
         Arrive(c) \/ Proceed(c) \/ Mishap(c) \/ Operator(c)
  PROVE  Touches(c)
  <1>1. CASE Arrive(c)
    <2>1. CASE ReadState(c)
      BY <2>1, MovesTouch DEF ReadState
    <2>2. CASE LocalCall(c)
      BY <2>2, ShapesTouch DEF LocalCall
    <2> QED
      BY <1>1, <2>1, <2>2 DEF Arrive
  <1>2. CASE Admission(c)
    <2>1. CASE SyncProbe(c)
      BY <2>1, MovesTouch DEF SyncProbe
    <2> QED
      BY <1>2, <2>1, ShapesTouch
      DEF Admission, ReadTimeout, SetHalfOpen, DropSuccesses, AcquireProbeLock
  <1>3. CASE AfterSuccess(c)
    BY <1>3, ShapesTouch
    DEF AfterSuccess, OnSuccess, ResetFailures, CountSuccess, Close,
        ClearClosed, Release
  <1>4. CASE AfterFailure(c)
    <2>1. CASE ClearTrip(c)
      BY <2>1, MovesTouch DEF ClearTrip
    <2> QED
      BY <1>4, <2>1, ShapesTouch
      DEF AfterFailure, OnFailure, CountFailure, Stamp, StampTrip, Trip,
          Reopen, Restamp, ClearReopen
  <1>5. CASE Sync(c)
    BY <1>5, MovesTouch DEF Sync
  <1>6. CASE CallReturns(c) \/ LocalReturns(c) \/ ResetClear(c)
    BY <1>6, ShapesTouch DEF CallReturns, LocalReturns, ResetClear
  <1>7. CASE Mishap(c)
    <2>1. CASE RedisFails(c)
      BY <2>1, ShapesTouch DEF RedisFails
    <2>2. CASE Abandon(c)
      BY <2>2, MovesTouch DEF Abandon
    <2> QED
      BY <1>7, <2>1, <2>2, ShapesTouch
      DEF Mishap, CallFails, CallEscapes, LocalFails, LocalEscapes
  <1>8. CASE Operator(c)
    BY <1>8, MovesTouch, ShapesTouch
    DEF Operator, ResetState, ResetLocally, ResetFails
  <1> QED
    BY <1>1, <1>2, <1>3, <1>4, <1>5, <1>6, <1>7, <1>8 DEF Proceed

LEMMA OwnElsewhere ==
  ASSUME NEW b \in Breakers, OnOwnCopy(b), NEW c \in Calls, Home(c) # b,
         Touches(c)
  PROVE  OwnStep(b)
  <1>1. local'[b] = local[b]
    BY DEF Touches
  <1>2. \A s \in Slots : pc'[<<b, s>>] = pc[<<b, s>>]
    BY DEF Touches, Home, Calls
  <1> QED
    BY <1>1, <1>2, OwnStays DEF OwnStep, OnOwnCopy, OwnMoves

(* What a call of the object does: only the local actions are enabled.     *)
LocalPcs == {"idle", "local_calling"}

LEMMA OwnCall ==
  ASSUME NEW b \in Breakers, OnOwnCopy(b), NEW c \in Calls, Home(c) = b
  PROVE  pc[c] \in LocalPcs /\ local[Home(c)].fallback
  BY DEF OnOwnCopy, Home, Calls, LocalPcs

LEMMA OwnKeeps ==
  ASSUME NEW b \in Breakers, OnOwnCopy(b), NEW c \in Calls, Home(c) = b,
         Touches(c), pc'[c] \in LocalPcs, local'[b].fallback
  PROVE  OnOwnCopy(b)'
  <1>1. \A s \in Slots : pc'[<<b, s>>] \in LocalPcs
    BY DEF Touches, Calls, Home, OnOwnCopy, LocalPcs
  <1> QED
    BY <1>1 DEF OnOwnCopy, LocalPcs

(* Of a call that is idle or in a local call, the actions on Redis are     *)
(* disabled.                                                               *)
LEMMA OnlyLocally ==
  ASSUME NEW c \in Calls, pc[c] \in LocalPcs, local[Home(c)].fallback,
         Arrive(c) \/ Proceed(c) \/ Mishap(c) \/ Operator(c)
  PROVE  \/ LocalCall(c) \/ LocalReturns(c) \/ LocalFails(c)
         \/ LocalEscapes(c) \/ Abandon(c) \/ ResetLocally(c)
  <1> USE DEF LocalPcs
  <1>1. ~ReadState(c)
    BY DEF ReadState
  <1>2. ~Admission(c)
    BY DEF Admission, ReadTimeout, SetHalfOpen, DropSuccesses, SyncProbe,
           AcquireProbeLock, Branch, Write
  <1>3. ~AfterSuccess(c)
    BY DEF AfterSuccess, OnSuccess, ResetFailures, CountSuccess, Close,
           ClearClosed, Release, Branch, Write
  <1>4. ~AfterFailure(c)
    BY DEF AfterFailure, OnFailure, CountFailure, Stamp, StampTrip, Trip,
           ClearTrip, Reopen, Restamp, ClearReopen, Branch, Write
  <1>5. ~CallReturns(c) /\ ~CallFails(c) /\ ~CallEscapes(c)
    BY DEF CallReturns, CallFails, CallEscapes, InFlight, Branch
  <1>6. ~Sync(c) /\ ~ResetClear(c)
    BY DEF Sync, ResetClear, Write
  <1>7. ~RedisFails(c)
    BY DEF RedisFails, RedisPcs
  <1>8. ~ResetState(c) /\ ~ResetFails(c)
    BY DEF ResetState, ResetFails
  <1> QED
    BY <1>1, <1>2, <1>3, <1>4, <1>5, <1>6, <1>7, <1>8
    DEF Arrive, Proceed, Mishap, Operator

LEMMA LocalKeepsFallback ==
  ASSUME NEW f \in Fields
  PROVE  /\ LocalSuccess(f).fallback = f.fallback
         /\ LocalFailure(f).fallback = f.fallback
  <1>0. /\ SuccessThreshold \in Nat /\ f.successes \in Nat
        /\ FailureThreshold \in Nat /\ f.failures \in Nat
        /\ f.state \in CircuitStates
    BY BreakerAssumption DEF BreakerAssumption, Fields
  <1>1. LocalSuccess(f).fallback = f.fallback
    BY <1>0 DEF LocalSuccess, Fields, CircuitStates
  <1>2. LocalFailure(f).fallback = f.fallback
    BY <1>0 DEF LocalFailure, Fields, CircuitStates
  <1> QED
    BY <1>1, <1>2

LEMMA OwnCallSteps ==
  ASSUME TypeOK, NEW b \in Breakers, OnOwnCopy(b), NEW c \in Calls, Home(c) = b,
         Arrive(c) \/ Proceed(c) \/ Mishap(c) \/ Operator(c)
  PROVE  OwnMoves(b) /\ pc'[c] \in LocalPcs /\ local'[b].fallback
  <1> DEFINE f == local[b]
             a == Admitting(local[b])
  <1>0. f \in Fields /\ f.fallback /\ pc[c] \in LocalPcs
    BY OwnCall DEF TypeOK
  <1>1. \A g : SetFields(c, g) => local'[b] = g
    BY DEF SetFields, TypeOK
  <1>2. \A to : Goto(c, to) => pc'[c] = to
    BY DEF Goto, TypeOK
  <1>3. CASE LocalCall(c)
    <2>1. a \in Fields /\ a.fallback
      BY <1>0, AdmittingType DEF Admitting, Fields
    <2>2. (local'[b] = a \/ local'[b] = [a EXCEPT !.probing = TRUE])
          /\ pc'[c] \in LocalPcs
      BY <1>1, <1>2, <1>3 DEF LocalCall, RunLocally, LocalPcs
    <2>3. a = [a EXCEPT !.probing = a.probing]
          /\ a.probing \in BOOLEAN
          /\ [a EXCEPT !.probing = TRUE].fallback
      BY <2>1 DEF Fields
    <2>4. \E p \in BOOLEAN : local'[b] = [a EXCEPT !.probing = p]
      BY <2>2, <2>3
    <2> QED
      BY <1>0, <2>1, <2>2, <2>3, <2>4, OwnAdmits
  <1>4. CASE LocalReturns(c)
    <2>1. local'[b] = LocalSuccess(f) /\ pc'[c] = "idle"
      BY <1>1, <1>2, <1>4 DEF LocalReturns, LocalOutcome
    <2>2. LocalSuccess(f).fallback
      BY <1>0, LocalKeepsFallback
    <2> QED
      BY <1>0, <2>1, <2>2, OwnSucceeds DEF LocalPcs
  <1>5. CASE LocalFails(c)
    <2>1. local'[b] = LocalFailure(f) /\ pc'[c] = "idle"
      BY <1>1, <1>2, <1>5 DEF LocalFails, LocalOutcome
    <2>2. LocalFailure(f).fallback
      BY <1>0, LocalKeepsFallback
    <2> QED
      BY <1>0, <2>1, <2>2, OwnFails DEF LocalPcs
  <1>6. CASE LocalEscapes(c)
    <2>1. local'[b] = f /\ pc'[c] = "idle"
      BY <1>1, <1>2, <1>6 DEF LocalEscapes, LocalOutcome
    <2> QED
      BY <1>0, <2>1, OwnStays DEF LocalPcs
  <1>7. CASE Abandon(c)
    <2>1. local'[b] = f /\ pc'[c] = "idle"
      BY <1>2, <1>7 DEF Abandon
    <2> QED
      BY <1>0, <2>1, OwnStays DEF LocalPcs
  <1>8. CASE ResetLocally(c)
    <2>1. local'[b] = ResetFields(f) /\ pc'[c] = pc[c]
      BY <1>1, <1>8 DEF ResetLocally
    <2>2. ResetFields(f).fallback
      BY <1>0 DEF ResetFields, Fields
    <2> QED
      BY <1>0, <2>1, <2>2, OwnResets DEF LocalPcs
  <1> QED
    BY <1>0, <1>3, <1>4, <1>5, <1>6, <1>7, <1>8, OnlyLocally

LEMMA OwnSurroundings ==
  ASSUME TypeOK, NEW b \in Breakers, OnOwnCopy(b), Surroundings
  PROVE  OwnStep(b)
  <1>0. local[b] \in Fields
    BY DEF TypeOK
  <1>1. CASE local'[b] = local[b] /\ UNCHANGED pc
    BY <1>1, OwnStays DEF OwnStep, OwnMoves, OnOwnCopy
  <1>2. CASE LocalElapse(b)
    <2>1. local'[b] = [local[b] EXCEPT !.cooling = FALSE] /\ UNCHANGED pc
      BY <1>2 DEF LocalElapse, TypeOK
    <2>2. local'[b].fallback
      BY <1>0, <2>1 DEF OnOwnCopy, Fields
    <2> QED
      BY <1>0, <2>1, <2>2, OwnCools DEF OwnStep, OwnMoves, OnOwnCopy
  <1>3. CASE SnapshotFails(b)
    <2>1. local'[b] = [local[b] EXCEPT !.fallback = TRUE] /\ UNCHANGED pc
      BY <1>3 DEF SnapshotFails, TypeOK
    <2>2. local'[b] = local[b]
      BY <1>0, <2>1 DEF OnOwnCopy, Fields
    <2> QED
      BY <1>1, <2>1, <2>2
  <1>4. ASSUME NEW d \in Breakers, d # b, LocalElapse(d) \/ SnapshotFails(d)
        PROVE  local'[b] = local[b] /\ UNCHANGED pc
    BY <1>4 DEF LocalElapse, SnapshotFails, TypeOK
  <1>5. CASE Elapse \/ LockExpires \/ Settle \/ UNCHANGED vars
    BY <1>1, <1>5 DEF Elapse, LockExpires, Settle, vars
  <1> QED
    BY <1>1, <1>2, <1>3, <1>4, <1>5 DEF Surroundings

LEMMA OwnCopyStep ==
  ASSUME TypeOK, NEW b \in Breakers, OnOwnCopy(b), [Next]_vars
  PROVE  OwnStep(b)
  <1>1. ASSUME NEW c \in Calls, Home(c) = b,
               Arrive(c) \/ Proceed(c) \/ Mishap(c) \/ Operator(c)
        PROVE  OwnStep(b)
    BY <1>1, CallTouches, OwnCallSteps, OwnKeeps DEF OwnStep, OwnMoves
  <1>2. ASSUME NEW c \in Calls, Home(c) # b,
               Arrive(c) \/ Proceed(c) \/ Mishap(c) \/ Operator(c)
        PROVE  OwnStep(b)
    BY <1>2, CallTouches, OwnElsewhere
  <1> QED
    BY <1>1, <1>2, StepCases, OwnSurroundings

(* Whatever the keys and the object's fields were when its last call left  *)
(* Redis, from then on the object is the abstract breaker: any number of   *)
(* concurrent local calls, with late outcomes, opens it after              *)
(* FailureThreshold failures in a row, probes it only after the timeout    *)
(* and closes it after SuccessThreshold probes; Redis is never used again. *)
THEOREM OwnCopyImplemented == Spec => OwnCopyIsBreaker
  <1>1. TypeOK /\ [Next]_vars
          => [\A b \in Breakers : OnOwnCopy(b) => OwnStep(b)]_vars
    BY OwnCopyStep
  <1> QED
    BY <1>1, BreakerTypeCorrect, PTL DEF Spec, OwnCopyIsBreaker
=============================================================================
