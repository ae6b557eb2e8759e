--------------------------- MODULE PromptRouting ---------------------------
(***************************************************************************)
(* Which variant of a prompt a caller gets: hashes of the caller's bucket  *)
(* against the rollout, the segments and the weights of the A/B            *)
(* configuration, which the console changes while callers come back.       *)
(* Callers do not meet, so there is one.  A hash of a string is a number.  *)
(***************************************************************************)
EXTENDS Naturals, Sequences, FiniteSets

CONSTANTS
  Assets,     \* the sequences of variants an asset file may hold
  Weightings, \* what the console may give as weights
  Segments,   \* prefixes the console may ask of a bucket
  Slices,     \* the hundred of a percentage, fewer in the runs
  Hashes      \* bound: values of a hash

VARIABLES
  asset,   \* the variants in the asset file, in its order
  ab,      \* the A/B configuration of the prompt key
  forced,  \* the variant the console forces, or None
  caller   \* the segment of the caller's bucket and its three hashes

routingVars == <<asset, ab, forced, caller>>

None == "none"
Variants == UNION {{a[i] : i \in DOMAIN a} : a \in Assets}

(* An asset has variants and names each once.  A weight that is missing or *)
(* not positive counts as 0.                                               *)
ASSUME RoutingAssumption ==
  /\ Slices \in Nat \ {0}
  /\ Hashes \subseteq Nat
  /\ Assets \subseteq Seq(Variants) \ {<<>>}
  /\ \A a \in Assets : \A i, j \in DOMAIN a : a[i] = a[j] => i = j
  /\ Weightings \subseteq [Variants -> Nat]
  /\ None \notin Variants

Configs == [enabled : BOOLEAN, rollout : 0..Slices, weights : Weightings,
            prefixes : {{}} \cup {{s} : s \in Segments}]

Callers == [segment : Segments \cup {None}, plain : Hashes, slice : 0..Slices - 1,
            salted : Hashes]

RoutingTypeOK ==
  /\ asset \in Assets
  /\ ab \in Configs
  /\ forced \in Variants \cup {None}
  /\ caller \in Callers

RoutingInit ==
  /\ asset \in Assets
  /\ ab \in {c \in Configs : ~c.enabled /\ c.rollout = Slices /\ c.prefixes = {}}
  /\ forced = None
  /\ caller \in Callers
-----------------------------------------------------------------------------
(* choose_variant.                                                         *)
Even == asset[(caller.plain % Len(asset)) + 1]

(* The weight of the first n variants.                                     *)
Sum(n) ==
  LET acc[i \in 0..n] == IF i = 0 THEN 0 ELSE acc[i - 1] + ab.weights[asset[i]]
  IN acc[n]

Total == Sum(Len(asset))

(* Mutant: the end of a share belongs to it.                               *)
AtPositionInclusive(pos) ==
  asset[CHOOSE n \in DOMAIN asset : pos <= Sum(n) /\ \A k \in 1..n - 1 : ~(pos <= Sum(k))]

(* The first variant whose share ends after the position.                  *)
AtPosition(pos) ==
  asset[CHOOSE n \in DOMAIN asset : pos < Sum(n) /\ \A k \in 1..n - 1 : ~(pos < Sum(k))]

(* choose_variant_with_weights.                                            *)
Weighted == IF Total = 0 THEN Even ELSE AtPosition(caller.salted % Total)

(* Mutant: the rollout takes every so many of the slices.                  *)
InExperimentEvery ==
  /\ ab.enabled
  /\ ab.prefixes = {} \/ caller.segment \in ab.prefixes
  /\ ab.rollout > 0 /\ caller.slice % ab.rollout = 0

InExperiment ==
  /\ ab.enabled
  /\ ab.prefixes = {} \/ caller.segment \in ab.prefixes
  /\ ab.rollout = Slices \/ caller.slice < ab.rollout

(* What resolve selects; no caller in the code gives a variant_hint.       *)
Selected ==
  IF \E i \in DOMAIN asset : asset[i] = forced THEN forced
  ELSE IF InExperiment THEN Weighted ELSE Even
-----------------------------------------------------------------------------
SetForcedVariant(v) == forced' = v /\ UNCHANGED <<asset, ab, caller>>

(* set_ab_config; a new salt is another hash.                              *)
SetAbConfig(config, salted) ==
  /\ ab' = config
  /\ caller' = [caller EXCEPT !.salted = salted]
  /\ UNCHANGED <<asset, forced>>

ChangeAsset(a) == asset' = a /\ UNCHANGED <<ab, forced, caller>>

RoutingNext ==
  \/ \E v \in Variants \cup {None} : SetForcedVariant(v)
  \/ \E c \in Configs, h \in Hashes : SetAbConfig(c, h)
  \/ \E a \in Assets : ChangeAsset(a)

RoutingSpec == RoutingInit /\ [][RoutingNext]_routingVars
-----------------------------------------------------------------------------
(* The weights are shares: of the positions the hash falls on, each        *)
(* variant has as many as its weight.                                      *)
WeightsAreShares ==
  Total > 0 => \A i \in DOMAIN asset :
    Cardinality({pos \in 0..Total - 1 : AtPosition(pos) = asset[i]}) = ab.weights[asset[i]]

WiderRollout == ab'.rollout >= ab.rollout /\ ab' = [ab EXCEPT !.rollout = ab'.rollout]

(* The file has the old variants first, and others without a weight.       *)
UnweightedAdded ==
  /\ Len(asset) <= Len(asset') /\ SubSeq(asset', 1, Len(asset)) = asset
  /\ Total' = Total

(* A caller in an experiment stays with its variant while the rollout is   *)
(* widened, and, unless one is forced, when the file gains variants that   *)
(* nobody gave a weight; and every configuration, when it is replaced, has *)
(* divided its callers by the weights.                                     *)
RoutingIsSteady ==
  [][/\ ab' # ab => WeightsAreShares
     /\ InExperiment /\ caller' = caller /\ forced' = forced =>
          /\ WiderRollout /\ asset' = asset => Selected' = Selected
          /\ UnweightedAdded /\ ab' = ab /\ Total > 0 /\ forced = None =>
               Selected' = Selected]_routingVars
=============================================================================
