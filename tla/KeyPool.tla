------------------------------ MODULE KeyPool ------------------------------
(***************************************************************************)
(* CircuitBreakerKeyPool: API keys handed out in turn, a key that was rate *)
(* limited resting for its cooldown.  ApiKeys are their positions in the   *)
(* list; resting is the set of those whose cooldown has not run out.       *)
(***************************************************************************)
EXTENDS Naturals

CONSTANT NumKeys

ASSUME KeyPoolAssumption == NumKeys \in Nat \ {0}

ApiKeys == 1..NumKeys
NoKey == 0

After(k) == (k % NumKeys) + 1

(* The key n places after the current index.                               *)
Ahead(index, n) == ((index - 1 + n) % NumKeys) + 1

(* get_key_metadata: the first key from the index on that is not resting;  *)
(* the index then moves past it.                                           *)
Pick(index, resting) ==
  IF ApiKeys \subseteq resting THEN NoKey
  ELSE Ahead(index, CHOOSE n \in 0..NumKeys - 1 :
                      /\ Ahead(index, n) \notin resting
                      /\ \A m \in 0..n - 1 : Ahead(index, m) \in resting)

(* The index after a pick; a full turn in vain leaves it where it was.     *)
IndexAfter(index, picked) == IF picked = NoKey THEN index ELSE After(picked)
=============================================================================
