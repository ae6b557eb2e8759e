--------------------------- MODULE RuntimeRouter ---------------------------
(***************************************************************************)
(* RuntimeRouterController: a sliding window of samples, one or two for    *)
(* each attempt of an evaluation, and the route it decides for the next.   *)
(* The window lives in the process and is shared by all its engines.       *)
(***************************************************************************)
EXTENDS Naturals, Sequences, FiniteSets

CONSTANTS
  Window,        \* _max_samples
  MinSamples,    \* auto_circuit_min_samples
  RatePercent,   \* auto_circuit_failure_rate_threshold
  SpikePercent,  \* auto_circuit_token_spike_threshold
  TokenLimit,    \* router_budget_token_limit
  Tokens         \* the token estimates requests come with

ASSUME RouterAssumption ==
  /\ Window \in Nat \ {0}
  /\ MinSamples \in 1..Window
  /\ RatePercent \in 1..100
  /\ SpikePercent \in Nat
  /\ TokenLimit \in Nat
  /\ Tokens \subseteq Nat \ {0}

Samples == [ok : BOOLEAN, tokens : Tokens]
Windows == UNION {[1..n -> Samples] : n \in 0..Window}

(* Mutant: the window is never cut.                                        *)
RecordUncut(window, ok, tokens) ==
  Append(window, [ok |-> ok, tokens |-> tokens])

(* record_event: append, and keep the last Window samples.                 *)
Record(window, ok, tokens) ==
  LET longer == Append(window, [ok |-> ok, tokens |-> tokens])
  IN IF Len(longer) > Window THEN Tail(longer) ELSE longer

Failures(window) == {i \in DOMAIN window : ~window[i].ok}

(* snapshot: the k-th smallest estimate in the window, and twice the       *)
(* median.                                                                 *)
Smallest(window, k) ==
  CHOOSE v \in Tokens :
    /\ Cardinality({i \in DOMAIN window : window[i].tokens < v}) < k
    /\ Cardinality({i \in DOMAIN window : window[i].tokens <= v}) >= k

TwiceMedian(window) ==
  LET n == Len(window)
  IN Smallest(window, (n + 1) \div 2) + Smallest(window, (n \div 2) + 1)

FailureRateReached(window) ==
  /\ Len(window) >= MinSamples
  /\ 100 * Cardinality(Failures(window)) >= RatePercent * Len(window)

TokensSpike(window, tokens) ==
  /\ window # <<>>
  /\ 200 * tokens >= SpikePercent * TwiceMedian(window)

(* decide_cognitive_route, with the controller on, for a paper that is not *)
(* heavily altered (that one goes to the cheap model whatever the window   *)
(* holds): does the request go there?                                      *)
Degrades(window, tokens) ==
  \/ FailureRateReached(window)
  \/ TokensSpike(window, tokens)
  \/ tokens > TokenLimit
=============================================================================
