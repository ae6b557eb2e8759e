-------------------------- MODULE CognitiveEngine --------------------------
(***************************************************************************)
(* DeepSeekCognitiveEngine.evaluate_logic: the attempts of one evaluation  *)
(* over the pool of keys, with the runtime router choosing the model.      *)
(* The evaluations of a batch share one engine and interleave at every     *)
(* await; what the provider, the circuit breaker and the parser make of a  *)
(* request is left open.                                                   *)
(***************************************************************************)
EXTENDS KeyPool, RuntimeRouter

CONSTANTS
  Evaluations,  \* evaluations in flight
  MaxAttempts   \* deepseek_max_retries: attempts 0..MaxAttempts

ASSUME EngineAssumption == MaxAttempts \in Nat

VARIABLES
  resting,   \* keys in cooldown
  index,     \* _current_index of the pool
  window,    \* samples of the router
  eval,      \* where each evaluation is
  settled,   \* from now on the provider answers
  badRun     \* history: attempts in a row that produced no report, up to
             \* Window

engineVars == <<resting, index, window, eval, settled, badRun>>

Models == {"requested", "chat"}

(* net is connection_error_count, of which only "none yet" is asked;       *)
(* burnt is a history variable: the keys this evaluation saw rate limited  *)
(* and whose cooldown still runs.                                          *)
EvalStates ==
  [pc : {"idle", "try", "request", "sleep"}, attempt : 0..MaxAttempts,
   net : BOOLEAN, key : ApiKeys \cup {NoKey}, model : Models, tokens : Tokens,
   burnt : SUBSET ApiKeys]

Resting(e) == [e EXCEPT !.pc = "idle", !.attempt = 0, !.net = FALSE,
                        !.key = NoKey, !.model = "requested", !.burnt = {}]

EngineTypeOK ==
  /\ resting \subseteq ApiKeys
  /\ index \in ApiKeys
  /\ window \in Windows
  /\ eval \in [Evaluations -> EvalStates]
  /\ settled \in BOOLEAN
  /\ badRun \in 0..Window

EngineInit ==
  /\ resting = {}
  /\ index = 1
  /\ window = <<>>
  /\ eval \in [Evaluations ->
       {[pc |-> "idle", attempt |-> 0, net |-> FALSE, key |-> NoKey,
         model |-> "requested", tokens |-> t, burnt |-> {}] : t \in Tokens}]
  /\ settled = FALSE
  /\ badRun = 0
-----------------------------------------------------------------------------
Begin(c) ==
  /\ eval[c].pc = "idle"
  /\ eval' = [eval EXCEPT ![c].pc = "try"]
  /\ UNCHANGED <<resting, index, window, settled, badRun>>

Bad(n) == IF n < Window THEN n + 1 ELSE n

Ends(c) == eval' = [eval EXCEPT ![c] = Resting(@)]

(* The part of an attempt before its request: a key, then a model.  After  *)
(* a network error, and whenever the router says so, the model is          *)
(* deepseek-chat.                                                          *)
TakeKey(c) ==
  /\ eval[c].pc = "try"
  /\ Pick(index, resting) # NoKey
  /\ index' = IndexAfter(index, Pick(index, resting))
  /\ eval' = [eval EXCEPT
       ![c].pc = "request",
       ![c].key = Pick(index, resting),
       ![c].model = IF eval[c].net \/ Degrades(window, eval[c].tokens)
                    THEN "chat" ELSE "requested"]
  /\ UNCHANGED <<resting, window, settled, badRun>>

(* AllKeysExhaustedError ends the evaluation.                              *)
AllKeysExhausted(c) ==
  /\ eval[c].pc = "try"
  /\ Pick(index, resting) = NoKey
  /\ window' = Record(window, FALSE, eval[c].tokens)
  /\ badRun' = Bad(badRun)
  /\ Ends(c)
  /\ UNCHANGED <<resting, index, settled>>

(* Mutant: an answer of the fallback model is not worth a sample.          *)
AnsweredByRequestedOnly(c) ==
  /\ eval[c].pc = "request"
  /\ window' = IF eval[c].model = "chat" THEN window
               ELSE Record(window, TRUE, eval[c].tokens)
  /\ badRun' = 0
  /\ Ends(c)
  /\ UNCHANGED <<resting, index, settled>>

(* A report that passes its schema.                                        *)
Answered(c) ==
  /\ eval[c].pc = "request"
  /\ window' = Record(window, TRUE, eval[c].tokens)
  /\ badRun' = 0
  /\ Ends(c)
  /\ UNCHANGED <<resting, index, settled>>

(* The next attempt follows a sleep, with a key and a model of its own.    *)
SleepAfter(c, net, burnt) ==
  eval' = [eval EXCEPT ![c].pc = "sleep", ![c].net = net, ![c].burnt = burnt,
                       ![c].key = NoKey, ![c].model = "requested"]

(* Mutant: a report that fails its schema leaves only the success.         *)
RejectedBySchemaUnsampled(c) ==
  /\ eval[c].pc = "request"
  /\ ~settled
  /\ window' = Record(window, TRUE, eval[c].tokens)
  /\ badRun' = Bad(badRun)
  /\ SleepAfter(c, TRUE, eval[c].burnt)
  /\ UNCHANGED <<resting, index, settled>>

(* JSON that is no report: it is sampled as a success when it parses, and  *)
(* as a failure when the schema refuses it.                                *)
RejectedBySchema(c) ==
  /\ eval[c].pc = "request"
  /\ ~settled
  /\ window' = Record(Record(window, TRUE, eval[c].tokens),
                      FALSE, eval[c].tokens)
  /\ badRun' = Bad(badRun)
  /\ SleepAfter(c, TRUE, eval[c].burnt)
  /\ UNCHANGED <<resting, index, settled>>

(* A failure that is tried again: a connection error, a timeout, an error  *)
(* of the API, or an answer without JSON.                                  *)
RetriableFailure(c) ==
  /\ eval[c].pc = "request"
  /\ ~settled
  /\ window' = Record(window, FALSE, eval[c].tokens)
  /\ badRun' = Bad(badRun)
  /\ SleepAfter(c, TRUE, eval[c].burnt)
  /\ UNCHANGED <<resting, index, settled>>

(* Mutant: the key the pool would hand out next is reported, not the one   *)
(* the request used.                                                       *)
RateLimitedReportsIndex(c) ==
  /\ eval[c].pc = "request"
  /\ ~settled
  /\ resting' = resting \cup {index}
  /\ window' = Record(window, FALSE, eval[c].tokens)
  /\ badRun' = Bad(badRun)
  /\ SleepAfter(c, FALSE, eval[c].burnt \cup {eval[c].key})
  /\ UNCHANGED <<index, settled>>

(* 429: the key rests, and the count of network errors starts again.       *)
RateLimited(c) ==
  /\ eval[c].pc = "request"
  /\ ~settled
  /\ resting' = resting \cup {eval[c].key}
  /\ window' = Record(window, FALSE, eval[c].tokens)
  /\ badRun' = Bad(badRun)
  /\ SleepAfter(c, FALSE, eval[c].burnt \cup {eval[c].key})
  /\ UNCHANGED <<index, settled>>

(* An open circuit breaker, or an exception the loop does not know.        *)
FatalFailure(c) ==
  /\ eval[c].pc = "request"
  /\ ~settled
  /\ window' = Record(window, FALSE, eval[c].tokens)
  /\ badRun' = Bad(badRun)
  /\ Ends(c)
  /\ UNCHANGED <<resting, index, settled>>

(* The next attempt, or the error after the last.                          *)
Wake(c) ==
  /\ eval[c].pc = "sleep"
  /\ IF eval[c].attempt < MaxAttempts
     THEN eval' = [eval EXCEPT ![c].pc = "try", ![c].attempt = @ + 1]
     ELSE Ends(c)
  /\ UNCHANGED <<resting, index, window, settled, badRun>>

(* generate_rubric takes a key of the same pool for its only attempt, and  *)
(* leaves nothing else behind: no sample, and no report of a 429.          *)
GenerateRubric ==
  /\ Pick(index, resting) # NoKey
  /\ index' = IndexAfter(index, Pick(index, resting))
  /\ UNCHANGED <<resting, window, eval, settled, badRun>>

(* A cooldown runs out.                                                    *)
KeyCools(k) ==
  /\ k \in resting
  /\ resting' = resting \ {k}
  /\ eval' = [c \in Evaluations |-> [eval[c] EXCEPT !.burnt = @ \ {k}]]
  /\ UNCHANGED <<index, window, settled, badRun>>

(* _run_model_failure_drill: failing samples in the window of the process  *)
(* that serves requests, enough of them to reach the threshold.            *)
ModelFailureDrill ==
  /\ ~settled
  /\ \E t \in Tokens :
       window' = [i \in 1..Window |-> [ok |-> FALSE, tokens |-> t]]
  /\ UNCHANGED <<resting, index, eval, settled, badRun>>

ProviderSettles ==
  /\ ~settled
  /\ settled' = TRUE
  /\ UNCHANGED <<resting, index, window, eval, badRun>>
-----------------------------------------------------------------------------
Outcome(c) ==
  \/ Answered(c)
  \/ RejectedBySchema(c)
  \/ RetriableFailure(c)
  \/ RateLimited(c)
  \/ FatalFailure(c)

EvalStep(c) ==
  \/ TakeKey(c)
  \/ AllKeysExhausted(c)
  \/ Outcome(c)
  \/ Wake(c)

EngineNext ==
  \/ \E c \in Evaluations : Begin(c) \/ EvalStep(c)
  \/ \E k \in ApiKeys : KeyCools(k)
  \/ GenerateRubric
  \/ ModelFailureDrill
  \/ ProviderSettles

(* An evaluation that has begun goes on, work keeps coming, cooldowns run  *)
(* out.  Whether the provider ever answers is left open.                   *)
EngineFairness ==
  /\ \A c \in Evaluations : WF_engineVars(EvalStep(c)) /\ WF_engineVars(Begin(c))
  /\ \A k \in ApiKeys : WF_engineVars(KeyCools(k))

EngineSpec == EngineInit /\ [][EngineNext]_engineVars
FairEngineSpec == EngineSpec /\ EngineFairness
-----------------------------------------------------------------------------
(* A request never goes out on a key its evaluation has seen rate limited  *)
(* and whose cooldown still runs, whatever the other evaluations do to the *)
(* pool meanwhile.                                                         *)
BurntKeysRest ==
  \A c \in Evaluations :
    /\ eval[c].burnt \subseteq resting
    /\ eval[c].pc = "request" => eval[c].key \notin eval[c].burnt

(* A provider that produces no report is noticed, however it fails: once   *)
(* the window holds nothing but attempts without a report, requests go to  *)
(* the fallback model, although some of those attempts left a success.     *)
SilenceIsNoticed ==
  badRun >= Window => \A t \in Tokens : Degrades(window, t)

(* If from some point on the provider answers, requests of ordinary size   *)
(* go back to the model that was asked for, even after a drill.            *)
RouteRecovers ==
  <>settled => <>[](\A t \in Tokens :
         t <= TokenLimit /\ (\A u \in Tokens : t <= u) => ~Degrades(window, t))
=============================================================================
