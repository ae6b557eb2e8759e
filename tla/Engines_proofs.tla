---------------------------- MODULE Engines_proofs ----------------------------
(***************************************************************************)
(* The engines' key pool, the evaluations of the cognitive engine and the  *)
(* papers of a batch, for any number of keys, evaluations and papers; and  *)
(* that a batch implements the attempt of module TaskLifecycle.            *)
(***************************************************************************)
EXTENDS CognitiveEngine, BatchRun, FiniteSetTheorems, TLAPS

(***************************************************************************)
(* The key pool.                                                           *)
(***************************************************************************)
(* The least-number principle, for sets: the well-foundedness of < without *)
(* an induction theorem.                                                   *)
LEMMA LeastElement ==
  ASSUME NEW S \in SUBSET Nat, S # {}
  PROVE  \E n \in S : \A m \in Nat : m < n => m \notin S
  <1>1. PICK n \in S : \A m \in S : ~ (<<m, n>> \in OpToRel(<, Nat))
    BY NatLessThanWellFounded, WFMin, Zenon
  <1>2. \A m \in S : <<m, n>> \in Nat \X Nat
    OBVIOUS
  <1>3. \A m \in S : ~ (m < n)
    BY <1>1, <1>2 DEF OpToRel
  <1> QED BY <1>3

(* Every key is some number of places after any other.                     *)
LEMMA EveryKeyIsAhead ==
  ASSUME NEW i \in ApiKeys, NEW k \in ApiKeys
  PROVE  \E n \in 0..NumKeys - 1 : Ahead(i, n) = k
  <1>0. NumKeys \in Nat \ {0} /\ i \in 1..NumKeys /\ k \in 1..NumKeys
    BY KeyPoolAssumption DEF KeyPoolAssumption, ApiKeys
  <1>1. (k - 1) % NumKeys = k - 1 /\ (k - 1 + NumKeys) % NumKeys = k - 1
    BY <1>0
  <1>2. CASE i <= k
    <2>1. k - i \in 0..NumKeys - 1 /\ i - 1 + (k - i) = k - 1
      BY <1>0, <1>2
    <2>2. Ahead(i, k - i) = k
      BY <1>0, <1>1, <2>1 DEF Ahead
    <2> QED BY <2>1, <2>2
  <1>3. CASE i > k
    <2>1. /\ k - i + NumKeys \in 0..NumKeys - 1
          /\ i - 1 + (k - i + NumKeys) = k - 1 + NumKeys
      BY <1>0, <1>3
    <2>2. Ahead(i, k - i + NumKeys) = k
      BY <1>0, <1>1, <2>1 DEF Ahead
    <2> QED BY <2>1, <2>2
  <1> QED BY <1>0, <1>2, <1>3

LEMMA AheadType ==
  ASSUME NEW i \in ApiKeys, NEW n \in Nat
  PROVE  Ahead(i, n) \in ApiKeys
  BY KeyPoolAssumption DEF KeyPoolAssumption, ApiKeys, Ahead

(* get_key_metadata hands out a key unless all of them rest, and never one *)
(* that rests; the first one from the index on.                            *)
LEMMA PickPicks ==
  ASSUME NEW i \in ApiKeys, NEW resters
  PROVE  /\ Pick(i, resters) = NoKey <=> ApiKeys \subseteq resters
         /\ Pick(i, resters) # NoKey => Pick(i, resters) \in ApiKeys \ resters
  <1>0. NoKey \notin ApiKeys
    BY DEF NoKey, ApiKeys
  <1>1. CASE ApiKeys \subseteq resters
    BY <1>1 DEF Pick
  <1>2. CASE ~(ApiKeys \subseteq resters)
    <2> DEFINE Free == {n \in 0..NumKeys - 1 : Ahead(i, n) \notin resters}
               First(n) == /\ Ahead(i, n) \notin resters
                           /\ \A m \in 0..n - 1 : Ahead(i, m) \in resters
    <2>1. Free \in SUBSET Nat /\ Free # {}
      BY <1>2, EveryKeyIsAhead, KeyPoolAssumption DEF KeyPoolAssumption
    <2>2. PICK n \in Free : \A m \in Nat : m < n => m \notin Free
      <3> HIDE DEF Free
      <3> QED BY <2>1, LeastElement
    <2>3. n \in 0..NumKeys - 1 /\ First(n)
      BY <2>2, KeyPoolAssumption DEF KeyPoolAssumption
    <2> DEFINE c == CHOOSE x \in 0..NumKeys - 1 : First(x)
    <2>4. c \in 0..NumKeys - 1 /\ First(c)
      BY <2>3, Zenon
    <2>5. Pick(i, resters) = Ahead(i, c)
      BY <1>2 DEF Pick
    <2>6. Ahead(i, c) \in ApiKeys \ resters
      <3> HIDE DEF c
      <3>1. c \in Nat /\ Ahead(i, c) \notin resters
        BY <2>4, KeyPoolAssumption DEF KeyPoolAssumption
      <3> QED BY <3>1, AheadType
    <2> QED BY <1>0, <1>2, <2>5, <2>6
  <1> QED BY <1>1, <1>2

LEMMA IndexType ==
  ASSUME NEW i \in ApiKeys, NEW k \in ApiKeys \cup {NoKey}
  PROVE  IndexAfter(i, k) \in ApiKeys
  BY KeyPoolAssumption DEF KeyPoolAssumption, ApiKeys, NoKey, IndexAfter, After
-----------------------------------------------------------------------------
(***************************************************************************)
(* The window of the runtime router.                                       *)
(***************************************************************************)
LEMMA WindowsAre ==
  ASSUME NEW w
  PROVE  w \in Windows <=> w \in Seq(Samples) /\ Len(w) <= Window
  <1>0. Window \in Nat
    BY RouterAssumption DEF RouterAssumption
  <1>1. ASSUME w \in Windows PROVE w \in Seq(Samples) /\ Len(w) <= Window
    <2>1. PICK n \in 0..Window : w \in [1..n -> Samples]
      BY <1>1 DEF Windows
    <2>2. w \in Seq(Samples) /\ Len(w) = n
      BY <2>1
    <2> QED BY <1>0, <2>1, <2>2
  <1>2. ASSUME w \in Seq(Samples), Len(w) <= Window PROVE w \in Windows
    <2>1. Len(w) \in 0..Window /\ w \in [1..Len(w) -> Samples]
      BY <1>0, <1>2
    <2> QED BY <2>1 DEF Windows
  <1> QED BY <1>1, <1>2

LEMMA RecordType ==
  ASSUME NEW w \in Windows, NEW ok \in BOOLEAN, NEW t \in Tokens
  PROVE  Record(w, ok, t) \in Windows
  <1> DEFINE longer == Append(w, [ok |-> ok, tokens |-> t])
  <1>1. w \in Seq(Samples) /\ Len(w) <= Window /\ Window \in Nat \ {0}
    BY WindowsAre, RouterAssumption DEF RouterAssumption
  <1>2. longer \in Seq(Samples) /\ Len(longer) = Len(w) + 1
    BY <1>1 DEF Samples
  <1>a. Record(w, ok, t) = IF Len(longer) > Window THEN Tail(longer) ELSE longer
    BY DEF Record
  <1> HIDE DEF longer
  <1>3. CASE Len(longer) > Window
    <2>1. Tail(longer) \in Seq(Samples) /\ Len(Tail(longer)) = Len(longer) - 1
      BY <1>1, <1>2
    <2>2. Len(Tail(longer)) <= Window
      BY <1>1, <1>2, <2>1
    <2> QED BY <1>3, <1>a, <2>1, <2>2, WindowsAre
  <1>4. CASE ~(Len(longer) > Window)
    BY <1>1, <1>2, <1>4, <1>a, WindowsAre
  <1> QED BY <1>3, <1>4

(* What a sample does to the window: it comes last, and the others move up *)
(* when the first one has to go.                                           *)
LEMMA RecordShape ==
  ASSUME NEW w \in Windows, NEW ok \in BOOLEAN, NEW t \in Tokens,
         NEW r, r = Record(w, ok, t)
  PROVE  /\ Len(w) \in Nat /\ Len(w) <= Window /\ Window \in Nat \ {0}
         /\ Len(r) \in Nat
         /\ Len(w) < Window => Len(r) = Len(w) + 1
         /\ ~(Len(w) < Window) => Len(r) = Window
         /\ r[Len(r)].ok = ok
         /\ \A i, j \in Nat : /\ i > 0 /\ i < Len(r)
                             /\ j = i + (Len(w) + 1 - Len(r))
                             => r[i] = w[j]
  <1> DEFINE longer == Append(w, [ok |-> ok, tokens |-> t])
  <1>1. w \in Seq(Samples) /\ Len(w) <= Window /\ Window \in Nat \ {0} /\ Len(w) \in Nat
    BY WindowsAre, RouterAssumption DEF RouterAssumption
  <1>2. /\ longer \in Seq(Samples) /\ Len(longer) = Len(w) + 1
        /\ longer[Len(w) + 1].ok = ok
        /\ \A i \in 1..Len(w) : longer[i] = w[i]
    BY <1>1 DEF Samples
  <1>3. r = IF Len(longer) > Window THEN Tail(longer) ELSE longer
    BY DEF Record
  <1> HIDE DEF longer
  <1>4. CASE Len(longer) > Window
    <2>1. /\ Len(Tail(longer)) = Len(w)
          /\ \A i \in 1..Len(w) : Tail(longer)[i] = longer[i + 1]
      BY <1>1, <1>2
    <2>2. r = Tail(longer) /\ Len(w) = Window
      BY <1>1, <1>2, <1>3, <1>4
    <2>3. Len(r) = Window /\ r[Window] = longer[Window + 1]
      BY <1>1, <2>1, <2>2
    <2>4. ASSUME NEW i \in 1..Window - 1 PROVE r[i] = w[i + 1]
      BY <1>1, <1>2, <2>1, <2>2
    <2>5. ASSUME NEW i \in Nat, NEW j \in Nat, i > 0, i < Len(r),
                 j = i + (Len(w) + 1 - Len(r))
          PROVE  r[i] = w[j]
      <3>1. i \in 1..Window - 1 /\ j = i + 1
        BY <1>1, <2>2, <2>3, <2>5
      <3> QED BY <2>4, <3>1
    <2>6. r[Len(r)].ok = ok
      BY <1>2, <2>2, <2>3
    <2>7. Len(r) = Window /\ ~(Len(w) < Window)
      BY <1>1, <2>2, <2>3
    <2> QED BY <1>1, <2>5, <2>6, <2>7
  <1>5. CASE ~(Len(longer) > Window)
    <2>1. r = longer /\ Len(w) < Window
      BY <1>1, <1>2, <1>3, <1>5
    <2> QED BY <1>1, <1>2, <2>1
  <1> QED BY <1>4, <1>5

(* Among the last n of l samples every success is followed by a failure,   *)
(* and the last of them is a failure.                                      *)
Paired(w, l, n) ==
  \A i \in 1..l - 1 : i > l - n /\ w[i].ok => ~w[i + 1].ok

Sobered(w, l, n) == Paired(w, l, n) /\ (n > 0 => ~w[l].ok)

(* The samples r are the samples w moved up, with one more at the end.     *)
Moved(w, l, r, k) ==
  /\ k <= l + 1
  /\ \A i \in 1..k - 1 : r[i] = w[i + (l + 1 - k)]

LEMMA RecordMoves ==
  ASSUME NEW w \in Windows, NEW ok \in BOOLEAN, NEW t \in Tokens
  PROVE  /\ Len(w) \in Nat /\ Len(Record(w, ok, t)) \in Nat \ {0}
         /\ Moved(w, Len(w), Record(w, ok, t), Len(Record(w, ok, t)))
         /\ Record(w, ok, t)[Len(Record(w, ok, t))].ok = ok
         /\ \A n \in Nat : n <= Len(w) => Bad(n) <= Len(Record(w, ok, t))
  <1> DEFINE r == Record(w, ok, t)
  <1>1. /\ Len(w) \in Nat /\ Len(w) <= Window /\ Window \in Nat \ {0}
        /\ Len(r) \in Nat
        /\ Len(w) < Window => Len(r) = Len(w) + 1
        /\ ~(Len(w) < Window) => Len(r) = Window
        /\ r[Len(r)].ok = ok
        /\ \A i, j \in Nat : /\ i > 0 /\ i < Len(r)
                            /\ j = i + (Len(w) + 1 - Len(r))
                            => r[i] = w[j]
    BY RecordShape
  <1> HIDE DEF r
  <1> DEFINE l == Len(w)
             k == Len(r)
  <1>2. /\ l \in Nat /\ l <= Window /\ Window \in Nat \ {0}
        /\ k \in Nat
        /\ l < Window => k = l + 1
        /\ ~(l < Window) => k = Window
        /\ \A i, j \in Nat : i > 0 /\ i < k /\ j = i + (l + 1 - k) => r[i] = w[j]
    BY <1>1
  <1> HIDE DEF l, k
  <1>3. k \in Nat \ {0} /\ k <= l + 1 /\ \A n \in Nat : n <= l => Bad(n) <= k
    BY <1>2 DEF Bad
  <1>4. Moved(w, l, r, k)
    <2> SUFFICES ASSUME NEW i \in 1..k - 1 PROVE r[i] = w[i + (l + 1 - k)]
      BY <1>3 DEF Moved
    <2>1. i \in Nat /\ i > 0 /\ i < k /\ i + (l + 1 - k) \in Nat
      BY <1>2, <1>3
    <2> QED BY <1>2, <2>1
  <1> QED BY <1>1, <1>2, <1>3, <1>4, Zenon DEF r, l, k

LEMMA FailureSobers ==
  ASSUME NEW w, NEW r, NEW l \in Nat, NEW k \in Nat, NEW n \in Nat, NEW m \in Nat,
         Moved(w, l, r, k), r[k].ok = FALSE, Paired(w, l, n), m <= n + 1
  PROVE  Sobered(r, k, m)
  <1>1. ASSUME NEW i \in 1..k - 1, i > k - m, r[i].ok
        PROVE  ~r[i + 1].ok
    <2>1. CASE i = k - 1
      <3>1. i + 1 = k
        BY <2>1
      <3> QED BY <3>1
    <2>2. CASE i # k - 1
      <3> DEFINE j == i + (l + 1 - k)
      <3>1. /\ i + 1 \in 1..k - 1
            /\ j \in 1..l - 1 /\ j > l - n
            /\ (i + 1) + (l + 1 - k) = j + 1
        BY <1>1, <2>2 DEF Moved
      <3>2. r[i] = w[j] /\ r[i + 1] = w[j + 1]
        BY <3>1 DEF Moved
      <3> HIDE DEF j
      <3> QED BY <1>1, <3>1, <3>2, Zenon DEF Paired
    <2> QED BY <2>1, <2>2
  <1> QED BY <1>1, Zenon DEF Paired, Sobered

LEMMA SuccessPairs ==
  ASSUME NEW w, NEW r, NEW l \in Nat, NEW k \in Nat, NEW n \in Nat, NEW m \in Nat,
         Moved(w, l, r, k), Sobered(w, l, n), m <= n + 1
  PROVE  Paired(r, k, m)
  <1>1. ASSUME NEW i \in 1..k - 1, i > k - m, r[i].ok
        PROVE  ~r[i + 1].ok
    <2> DEFINE j == i + (l + 1 - k)
    <2>0. r[i] = w[j]
      BY DEF Moved
    <2>1. CASE i = k - 1
      <3>1. n > 0 /\ j = l
        BY <1>1, <2>1
      <3> HIDE DEF j
      <3> QED BY <1>1, <2>0, <3>1, Zenon DEF Sobered
    <2>2. CASE i # k - 1
      <3>1. /\ i + 1 \in 1..k - 1
            /\ j \in 1..l - 1 /\ j > l - n
            /\ (i + 1) + (l + 1 - k) = j + 1
        BY <1>1, <2>2 DEF Moved
      <3>2. r[i + 1] = w[j + 1]
        BY <3>1 DEF Moved
      <3> HIDE DEF j
      <3> QED BY <1>1, <2>0, <3>1, <3>2, Zenon DEF Paired, Sobered
    <2> QED BY <2>1, <2>2
  <1> QED BY <1>1, Zenon DEF Paired

(* At most half of a sobered window are successes.                         *)
LEMMA HalfFail ==
  ASSUME NEW w \in Windows, Len(w) = Window, Sobered(w, Window, Window)
  PROVE  /\ Cardinality(Failures(w)) \in Nat
         /\ 2 * Cardinality(Failures(w)) >= Window
  <1> DEFINE Fails == Failures(w)
             Oks   == {i \in 1..Window : w[i].ok}
             next  == [i \in Oks |-> i + 1]
  <1>0. /\ Window \in Nat \ {0} /\ DOMAIN w = 1..Window
        /\ \A i \in 1..Window : w[i].ok \in BOOLEAN
    <2>1. w \in Seq(Samples) /\ Window \in Nat \ {0}
      BY WindowsAre, RouterAssumption DEF RouterAssumption
    <2>2. DOMAIN w = 1..Window /\ \A i \in 1..Window : w[i] \in Samples
      BY <2>1
    <2> QED BY <2>1, <2>2 DEF Samples
  <1>1. Fails = {i \in 1..Window : ~w[i].ok}
    BY <1>0 DEF Failures
  <1>2. /\ IsFiniteSet(1..Window) /\ Cardinality(1..Window) = Window
        /\ IsFiniteSet(Oks) /\ IsFiniteSet(Fails)
    <2>1. IsFiniteSet(1..Window) /\ Cardinality(1..Window) = Window
      BY <1>0, FS_Interval
    <2>2. Oks \in SUBSET (1..Window) /\ Fails \in SUBSET (1..Window)
      BY <1>1
    <2> QED BY <2>1, <2>2, FS_Subset
  <1>3. next \in Injection(Oks, Fails)
    <2>1. ASSUME NEW i \in Oks PROVE i + 1 \in Fails
      <3>1. i # Window
        BY <1>0, <2>1 DEF Sobered
      <3> QED BY <1>0, <1>1, <2>1, <3>1 DEF Sobered, Paired
    <2>2. \A i, j \in Oks : next[i] = next[j] => i = j
      OBVIOUS
    <2> HIDE DEF Fails
    <2> QED BY <2>1, <2>2 DEF Injection, IsInjective
  <1>4. Cardinality(Oks) <= Cardinality(Fails)
    BY <1>2, <1>3, FS_Injection
  <1>5. Cardinality(Oks) + Cardinality(Fails) = Window
    <2>1. Oks \cup Fails = 1..Window /\ Oks \cap Fails = {}
      BY <1>0, <1>1
    <2> HIDE DEF Oks, Fails
    <2>2. Cardinality(Oks \cup Fails)
            = Cardinality(Oks) + Cardinality(Fails) - Cardinality(Oks \cap Fails)
      BY <1>2, FS_Union
    <2>3. Cardinality(Oks) \in Nat /\ Cardinality(Fails) \in Nat
      BY <1>2, FS_CardinalityType
    <2>4. Cardinality(Oks \cap Fails) = 0
      BY <2>1, FS_EmptySet, Zenon
    <2>5. Cardinality(Oks \cup Fails) = Window
      BY <1>2, <2>1, Zenon
    <2> QED BY <1>0, <2>2, <2>3, <2>4, <2>5
  <1> HIDE DEF Oks, Fails
  <1>6. Cardinality(Oks) \in Nat /\ Cardinality(Fails) \in Nat
    BY <1>2, FS_CardinalityType
  <1>7. 2 * Cardinality(Fails) >= Window
    BY <1>4, <1>5, <1>6
  <1> QED BY <1>6, <1>7, Zenon DEF Fails
-----------------------------------------------------------------------------
(***************************************************************************)
(* The evaluations.                                                        *)
(***************************************************************************)
(* An evaluation in order is in a state of its type, the keys it saw rate  *)
(* limited rest, and its request is not on one of them.                    *)
InOrder(e, resters) ==
  /\ e \in EvalStates
  /\ e.burnt \subseteq resters
  /\ e.pc = "request" => e.key \in ApiKeys /\ e.key \notin e.burnt

PoolInv ==
  /\ resting \subseteq ApiKeys
  /\ index \in ApiKeys
  /\ eval = [c \in Evaluations |-> eval[c]]
  /\ \A c \in Evaluations : InOrder(eval[c], resting)

LEMMA EvalFields ==
  ASSUME NEW e \in EvalStates
  PROVE  /\ e.pc \in {"idle", "try", "request", "sleep"}
         /\ e.attempt \in 0..MaxAttempts /\ e.net \in BOOLEAN
         /\ e.key \in ApiKeys \cup {NoKey} /\ e.model \in Models
         /\ e.tokens \in Tokens /\ e.burnt \in SUBSET ApiKeys
  BY DEF EvalStates

(* A step of one evaluation keeps the pool and the others in order when no *)
(* key comes back.                                                         *)
LEMMA OneEvaluationMoves ==
  ASSUME PoolInv, NEW c \in Evaluations, NEW e, eval' = [eval EXCEPT ![c] = e],
         resting \subseteq resting', resting' \subseteq ApiKeys, index' \in ApiKeys,
         InOrder(e, resting')
  PROVE  PoolInv'
  <1>1. \A d \in Evaluations : eval'[d] = IF d = c THEN e ELSE eval[d]
    BY DEF PoolInv
  <1>2. eval' = [d \in Evaluations |-> eval'[d]]
    BY DEF PoolInv
  <1>3. ASSUME NEW d \in Evaluations PROVE InOrder(eval'[d], resting')
    <2>1. CASE d = c
      BY <1>1, <2>1
    <2>2. CASE d # c
      BY <1>1, <2>2 DEF PoolInv, InOrder
    <2> QED BY <2>1, <2>2
  <1> QED BY <1>2, <1>3 DEF PoolInv

LEMMA RestingInOrder ==
  ASSUME NEW e \in EvalStates, NEW resters
  PROVE  InOrder(Resting(e), resters)
  <1> DEFINE r == Resting(e)
  <1>0. /\ r = [e EXCEPT !.pc = "idle", !.attempt = 0, !.net = FALSE, !.key = NoKey,
                      !.model = "requested", !.burnt = {}]
        /\ 0 \in 0..MaxAttempts
    BY EngineAssumption DEF Resting, EngineAssumption
  <1> HIDE DEF r
  <1>1. r \in EvalStates /\ r.burnt = {} /\ r.pc = "idle"
    BY <1>0 DEF EvalStates, Models
  <1> QED BY <1>1 DEF InOrder, r

LEMMA TryInOrder ==
  ASSUME NEW e, NEW resters, InOrder(e, resters), NEW a \in 0..MaxAttempts
  PROVE  InOrder([e EXCEPT !.pc = "try", !.attempt = a], resters)
  <1> DEFINE r == [e EXCEPT !.pc = "try", !.attempt = a]
  <1>1. r \in EvalStates /\ r.burnt = e.burnt /\ r.pc = "try"
    BY DEF InOrder, EvalStates
  <1> HIDE DEF r
  <1>2. InOrder(r, resters)
    BY <1>1 DEF InOrder
  <1> QED BY <1>2 DEF r

LEMMA RequestInOrder ==
  ASSUME NEW e, NEW resters, InOrder(e, resters),
         NEW k \in ApiKeys \ e.burnt, NEW m \in Models
  PROVE  InOrder([e EXCEPT !.pc = "request", !.key = k, !.model = m], resters)
  <1> DEFINE r == [e EXCEPT !.pc = "request", !.key = k, !.model = m]
  <1>1. r \in EvalStates /\ r.burnt = e.burnt /\ r.pc = "request" /\ r.key = k
    BY DEF InOrder, EvalStates
  <1> HIDE DEF r
  <1>2. InOrder(r, resters)
    BY <1>1 DEF InOrder
  <1> QED BY <1>2 DEF r

LEMMA SleepInOrder ==
  ASSUME NEW e \in EvalStates, NEW resters, NEW net \in BOOLEAN,
         NEW burnt \in SUBSET ApiKeys, burnt \subseteq resters
  PROVE  InOrder([e EXCEPT !.pc = "sleep", !.net = net, !.burnt = burnt,
                           !.key = NoKey, !.model = "requested"], resters)
  <1> DEFINE r == [e EXCEPT !.pc = "sleep", !.net = net, !.burnt = burnt,
                            !.key = NoKey, !.model = "requested"]
  <1>1. r \in EvalStates /\ r.burnt = burnt /\ r.pc = "sleep"
    BY DEF EvalStates, Models
  <1> HIDE DEF r
  <1>2. InOrder(r, resters)
    BY <1>1 DEF InOrder
  <1> QED BY <1>2 DEF r

LEMMA CooledInOrder ==
  ASSUME NEW e, NEW resters, InOrder(e, resters), NEW k
  PROVE  InOrder([e EXCEPT !.burnt = @ \ {k}], resters \ {k})
  <1> DEFINE r == [e EXCEPT !.burnt = @ \ {k}]
  <1>1. e.burnt \in SUBSET ApiKeys
    BY DEF InOrder, EvalStates
  <1>2. /\ r \in EvalStates /\ r.burnt = e.burnt \ {k}
        /\ r.pc = e.pc /\ r.key = e.key
    BY <1>1 DEF InOrder, EvalStates
  <1> HIDE DEF r
  <1>3. InOrder(r, resters \ {k})
    BY <1>2 DEF InOrder
  <1> QED BY <1>3 DEF r
-----------------------------------------------------------------------------
(* What the attempts leave in the window: of the last n attempts, none of  *)
(* which produced a report, every success has its failure after it.        *)
Soberly(w, n) ==
  /\ w \in Windows
  /\ n \in 0..Window /\ n <= Len(w)
  /\ Sobered(w, Len(w), n)

LEMMA BadType ==
  ASSUME NEW n \in 0..Window
  PROVE  Bad(n) \in 0..Window /\ n <= Bad(n) /\ Bad(n) <= n + 1
  BY RouterAssumption DEF RouterAssumption, Bad

LEMMA FailureIsSober ==
  ASSUME NEW w, NEW n, Soberly(w, n), NEW t \in Tokens
  PROVE  Soberly(Record(w, FALSE, t), Bad(n))
  <1>1. w \in Windows /\ n \in Nat /\ n <= Len(w) /\ Bad(n) \in 0..Window
        /\ Bad(n) \in Nat /\ Bad(n) <= n + 1 /\ Paired(w, Len(w), n)
    BY BadType DEF Soberly, Sobered
  <1> DEFINE r == Record(w, FALSE, t)
             k == Len(r)
             l == Len(w)
  <1>2. /\ l \in Nat /\ k \in Nat /\ Moved(w, l, r, k) /\ r[k].ok = FALSE
        /\ Bad(n) <= k /\ r \in Windows
    BY <1>1, RecordMoves, RecordType
  <1>3. Sobered(r, k, Bad(n))
    <2> HIDE DEF r, k
    <2>1. Paired(w, l, n)
      BY <1>1
    <2> HIDE DEF l
    <2> QED BY <1>1, <1>2, <2>1, FailureSobers
  <1> QED BY <1>1, <1>2, <1>3 DEF Soberly

LEMMA SuccessIsSober ==
  ASSUME NEW w, NEW n, Soberly(w, n), NEW t \in Tokens
  PROVE  Soberly(Record(w, TRUE, t), 0)
  <1> DEFINE r == Record(w, TRUE, t)
  <1>1. r \in Windows /\ Len(r) \in Nat
    BY RecordMoves, RecordType DEF Soberly
  <1> HIDE DEF r
  <1>2. 0 \in 0..Window /\ 0 <= Len(r)
    BY <1>1, RouterAssumption DEF RouterAssumption
  <1>3. Sobered(r, Len(r), 0)
    <2> DEFINE k == Len(r)
    <2>1. k \in Nat
      BY <1>1
    <2> HIDE DEF k
    <2>2. Sobered(r, k, 0)
      BY <2>1 DEF Sobered, Paired
    <2> QED BY <2>2 DEF k
  <1> QED BY <1>1, <1>2, <1>3 DEF Soberly, r

LEMMA RejectionIsSober ==
  ASSUME NEW w, NEW n, Soberly(w, n), NEW t \in Tokens
  PROVE  Soberly(Record(Record(w, TRUE, t), FALSE, t), Bad(n))
  <1>1. w \in Windows /\ n \in Nat /\ n <= Len(w) /\ Bad(n) \in 0..Window
        /\ Bad(n) \in Nat /\ Bad(n) <= n + 1 /\ Sobered(w, Len(w), n)
        /\ Bad(n) <= Bad(Bad(n))
    BY BadType DEF Soberly
  <1> DEFINE q == Record(w, TRUE, t)
             j == Len(q)
             l == Len(w)
  <1>2. /\ l \in Nat /\ j \in Nat /\ Moved(w, l, q, j)
        /\ Bad(n) <= j /\ q \in Windows
    BY <1>1, RecordMoves, RecordType
  <1>3. Paired(q, j, Bad(n))
    <2> HIDE DEF q, j
    <2>1. Sobered(w, l, n)
      BY <1>1
    <2> HIDE DEF l
    <2> QED BY <1>1, <1>2, <2>1, SuccessPairs
  <1> DEFINE r == Record(q, FALSE, t)
             k == Len(r)
  <1>4. /\ k \in Nat /\ Moved(q, j, r, k) /\ r[k].ok = FALSE
        /\ Bad(Bad(n)) <= k /\ r \in Windows
    <2> HIDE DEF q
    <2> QED BY <1>1, <1>2, RecordMoves, RecordType
  <1>5. Sobered(r, k, Bad(n))
    <2> HIDE DEF r, k, q, j
    <2> DEFINE b == Bad(n)
    <2>1. b \in Nat /\ b <= b + 1 /\ Paired(q, j, b)
      BY <1>1, <1>3
    <2> HIDE DEF b
    <2>2. Sobered(r, k, b)
      BY <1>2, <1>4, <2>1, FailureSobers
    <2> QED BY <2>2 DEF b
  <1>6. Bad(n) <= k
    <2> HIDE DEF k
    <2>1. Bad(Bad(n)) \in Nat
      BY <1>1, BadType
    <2> QED BY <1>1, <1>4, <2>1
  <1> HIDE DEF q
  <1>7. Soberly(r, Bad(n))
    BY <1>1, <1>4, <1>5, <1>6 DEF Soberly
  <1> QED BY <1>7 DEF q

LEMMA DrillIsSober ==
  ASSUME NEW n \in 0..Window, NEW t \in Tokens
  PROVE  Soberly([i \in 1..Window |-> [ok |-> FALSE, tokens |-> t]], n)
  <1> DEFINE w == [i \in 1..Window |-> [ok |-> FALSE, tokens |-> t]]
  <1>1. Window \in Nat \ {0}
    BY RouterAssumption DEF RouterAssumption
  <1>2. w \in [1..Window -> Samples] /\ \A i \in 1..Window : w[i].ok = FALSE
    BY DEF Samples
  <1> HIDE DEF w
  <1>3. w \in Seq(Samples) /\ Len(w) = Window
    BY <1>1, <1>2
  <1>4. w \in Windows
    BY <1>1, <1>3, WindowsAre
  <1>5. Sobered(w, Window, n)
    BY <1>1, <1>2 DEF Sobered, Paired
  <1>6. Soberly(w, n)
    BY <1>1, <1>3, <1>4, <1>5 DEF Soberly
  <1> QED BY <1>6 DEF w

(* A window of attempts without a report is at least half failures, which  *)
(* is a reason to degrade when the rate asked for is no higher.            *)
LEMMA SilenceDegrades ==
  ASSUME RatePercent <= 50, NEW w, Soberly(w, Window), NEW t \in Tokens
  PROVE  Degrades(w, t)
  <1>0. Window \in Nat \ {0} /\ MinSamples \in 1..Window /\ RatePercent \in 1..100
    BY RouterAssumption DEF RouterAssumption
  <1>1. w \in Windows /\ Len(w) = Window
    BY <1>0, WindowsAre DEF Soberly
  <1> DEFINE f == Cardinality(Failures(w))
  <1>2. f \in Nat /\ 2 * f >= Window
    BY <1>1, HalfFail DEF Soberly
  <1> HIDE DEF f
  <1>3. 100 * f >= RatePercent * Window
    <2>1. 100 * f >= 50 * Window
      BY <1>0, <1>2
    <2>2. RatePercent * Window <= 50 * Window
      <3>1. (50 - RatePercent) * Window >= 0
        BY <1>0
      <3>2. (50 - RatePercent) * Window = 50 * Window - RatePercent * Window
        BY <1>0
      <3>3. RatePercent * Window \in Nat
        BY <1>0
      <3> QED BY <1>0, <3>1, <3>2, <3>3
    <2>3. RatePercent * Window \in Nat
      BY <1>0
    <2> QED BY <1>0, <1>2, <2>1, <2>2, <2>3
  <1>4. FailureRateReached(w)
    BY <1>0, <1>1, <1>3 DEF FailureRateReached, f
  <1> QED BY <1>4 DEF Degrades
-----------------------------------------------------------------------------
EngineInv ==
  /\ PoolInv
  /\ Soberly(window, badRun)
  /\ settled \in BOOLEAN

LEMMA EngineStarts == EngineInit => EngineInv
  <1> SUFFICES ASSUME EngineInit PROVE EngineInv
    OBVIOUS
  <1>1. index \in ApiKeys /\ resting \subseteq ApiKeys
    BY KeyPoolAssumption DEF EngineInit, KeyPoolAssumption, ApiKeys
  <1>2. ASSUME NEW c \in Evaluations PROVE InOrder(eval[c], resting)
    <2>1. PICK t \in Tokens :
            eval[c] = [pc |-> "idle", attempt |-> 0, net |-> FALSE, key |-> NoKey,
                       model |-> "requested", tokens |-> t, burnt |-> {}]
      BY DEF EngineInit
    <2>2. 0 \in 0..MaxAttempts
      BY EngineAssumption DEF EngineAssumption
    <2> QED BY <2>1, <2>2 DEF InOrder, EvalStates, Models
  <1>3. Soberly(window, badRun)
    <2>1. <<>> \in Windows
      <3>1. <<>> \in Seq(Samples) /\ Len(<<>>) = 0
        OBVIOUS
      <3>2. 0 <= Window
        BY RouterAssumption DEF RouterAssumption
      <3>3. Len(<<>>) <= Window
        BY <3>1, <3>2, Zenon
      <3> QED BY <3>1, <3>3, WindowsAre, Zenon
    <2>2. Sobered(<<>>, 0, 0) /\ 0 \in 0..Window
      BY RouterAssumption DEF RouterAssumption, Sobered, Paired
    <2> QED BY <2>1, <2>2 DEF EngineInit, Soberly
  <1>4. eval = [c \in Evaluations |-> eval[c]]
    BY DEF EngineInit
  <1> QED BY <1>1, <1>2, <1>3, <1>4 DEF EngineInv, PoolInv, EngineInit

(* The window after a failing attempt of an evaluation.                    *)
LEMMA AttemptIsSober ==
  ASSUME EngineInv, NEW c \in Evaluations
  PROVE  /\ eval[c] \in EvalStates /\ eval[c].tokens \in Tokens
         /\ Soberly(Record(window, FALSE, eval[c].tokens), Bad(badRun))
         /\ Soberly(Record(window, TRUE, eval[c].tokens), 0)
         /\ Soberly(Record(Record(window, TRUE, eval[c].tokens), FALSE,
                           eval[c].tokens), Bad(badRun))
  <1>1. eval[c] \in EvalStates /\ eval[c].tokens \in Tokens
    BY EvalFields DEF EngineInv, PoolInv, InOrder
  <1> QED BY <1>1, FailureIsSober, SuccessIsSober, RejectionIsSober DEF EngineInv

LEMMA EvaluationStep ==
  ASSUME EngineInv, NEW c \in Evaluations, Begin(c) \/ EvalStep(c)
  PROVE  EngineInv'
  <1> DEFINE e == eval[c]
  <1>0. /\ e \in EvalStates /\ InOrder(e, resting) /\ PoolInv
        /\ e.burnt \in SUBSET ApiKeys /\ e.burnt \subseteq resting
        /\ e.attempt \in 0..MaxAttempts /\ e.net \in BOOLEAN
        /\ resting \subseteq ApiKeys /\ index \in ApiKeys
    BY EvalFields DEF EngineInv, PoolInv, InOrder
  <1>s. Soberly(window, badRun) /\ settled \in BOOLEAN
    BY DEF EngineInv
  <1>1. CASE Begin(c)
    <2>1. eval' = [eval EXCEPT ![c] = [e EXCEPT !.pc = "try", !.attempt = e.attempt]]
      BY <1>1, <1>0 DEF Begin, EvalStates
    <2>2. UNCHANGED <<resting, index, window, settled, badRun>>
      BY <1>1 DEF Begin
    <2>3. InOrder([e EXCEPT !.pc = "try", !.attempt = e.attempt], resting)
      BY <1>0, TryInOrder
    <2>4. PoolInv'
      <3> HIDE DEF e
      <3> QED BY <1>0, <2>1, <2>2, <2>3, OneEvaluationMoves
    <2> QED BY <1>s, <2>2, <2>4 DEF EngineInv
  <1>2. CASE TakeKey(c)
    <2> DEFINE k == Pick(index, resting)
               m == IF e.net \/ Degrades(window, e.tokens) THEN "chat" ELSE "requested"
    <2>1. /\ k # NoKey /\ index' = IndexAfter(index, k)
          /\ eval' = [eval EXCEPT ![c] =
                      [e EXCEPT !.pc = "request", !.key = k, !.model = m]]
          /\ UNCHANGED <<resting, window, settled, badRun>>
      BY <1>2 DEF TakeKey
    <2>2. k \in ApiKeys \ resting
      BY <1>0, <2>1, PickPicks
    <2>3. k \in ApiKeys \ e.burnt /\ m \in Models /\ index' \in ApiKeys
      BY <1>0, <2>1, <2>2, IndexType DEF Models
    <2> HIDE DEF k, m
    <2>4. InOrder([e EXCEPT !.pc = "request", !.key = k, !.model = m], resting)
      BY <1>0, <2>3, RequestInOrder
    <2>5. PoolInv'
      <3> HIDE DEF e
      <3> QED BY <1>0, <2>1, <2>3, <2>4, OneEvaluationMoves
    <2> QED BY <1>s, <2>1, <2>5 DEF EngineInv
  <1>3. ASSUME Ends(c), UNCHANGED <<resting, index, settled>>, Soberly(window', badRun')
        PROVE  EngineInv'
    <2>1. eval' = [eval EXCEPT ![c] = Resting(e)]
      BY <1>3 DEF Ends
    <2>2. InOrder(Resting(e), resting)
      BY <1>0, RestingInOrder
    <2>3. PoolInv'
      <3> HIDE DEF e
      <3> QED BY <1>0, <1>3, <2>1, <2>2, OneEvaluationMoves
    <2> QED BY <1>s, <1>3, <2>3 DEF EngineInv, Soberly
  <1>4. ASSUME NEW net \in BOOLEAN, NEW burnt \in SUBSET ApiKeys,
               SleepAfter(c, net, burnt), burnt \subseteq resting',
               resting \subseteq resting', resting' \subseteq ApiKeys,
               UNCHANGED <<index, settled>>, Soberly(window', badRun')
        PROVE  EngineInv'
    <2> DEFINE s == [e EXCEPT !.pc = "sleep", !.net = net, !.burnt = burnt,
                              !.key = NoKey, !.model = "requested"]
    <2>1. eval' = [eval EXCEPT ![c] = s]
      BY <1>4 DEF SleepAfter
    <2>2. InOrder(s, resting')
      BY <1>0, <1>4, SleepInOrder
    <2>3. PoolInv'
      <3> HIDE DEF e, s
      <3> QED BY <1>0, <1>4, <2>1, <2>2, OneEvaluationMoves
    <2> QED BY <1>s, <1>4, <2>3 DEF EngineInv, Soberly
  <1>5. CASE AllKeysExhausted(c) \/ FatalFailure(c) \/ Answered(c)
    <2>1. Soberly(window', badRun')
      BY <1>5, AttemptIsSober DEF AllKeysExhausted, FatalFailure, Answered, Soberly
    <2>2. Ends(c) /\ UNCHANGED <<resting, index, settled>>
      BY <1>5 DEF AllKeysExhausted, FatalFailure, Answered
    <2> QED BY <1>3, <2>1, <2>2
  <1>6. CASE RejectedBySchema(c) \/ RetriableFailure(c)
    <2>1. Soberly(window', badRun')
      BY <1>6, AttemptIsSober DEF RejectedBySchema, RetriableFailure, Soberly
    <2>2. SleepAfter(c, TRUE, e.burnt) /\ UNCHANGED <<resting, index, settled>>
      BY <1>6 DEF RejectedBySchema, RetriableFailure
    <2> QED BY <1>0, <1>4, <2>1, <2>2
  <1>7. CASE RateLimited(c)
    <2>1. Soberly(window', badRun')
      BY <1>7, AttemptIsSober DEF RateLimited, Soberly
    <2>2. /\ SleepAfter(c, FALSE, e.burnt \cup {e.key})
          /\ resting' = resting \cup {e.key}
          /\ UNCHANGED <<index, settled>>
      BY <1>7 DEF RateLimited
    <2>3. e.key \in ApiKeys
      BY <1>0, <1>7 DEF RateLimited, InOrder
    <2>4. /\ e.burnt \cup {e.key} \in SUBSET ApiKeys
          /\ e.burnt \cup {e.key} \subseteq resting'
          /\ resting \subseteq resting' /\ resting' \subseteq ApiKeys
      BY <1>0, <2>2, <2>3
    <2> QED BY <1>4, <2>1, <2>2, <2>4
  <1>8. CASE Wake(c)
    <2>1. UNCHANGED <<resting, index, window, settled, badRun>>
      BY <1>8 DEF Wake
    <2>2. CASE e.attempt < MaxAttempts
      <3> DEFINE a == e.attempt + 1
      <3>1. eval' = [eval EXCEPT ![c] = [e EXCEPT !.pc = "try", !.attempt = a]]
        BY <1>8, <2>2 DEF Wake
      <3>2. a \in 0..MaxAttempts
        BY <1>0, <2>2, EngineAssumption DEF EngineAssumption
      <3> HIDE DEF a
      <3>3. InOrder([e EXCEPT !.pc = "try", !.attempt = a], resting)
        BY <1>0, <3>2, TryInOrder
      <3>4. PoolInv'
        <4> HIDE DEF e
        <4> QED BY <1>0, <2>1, <3>1, <3>3, OneEvaluationMoves
      <3> QED BY <1>s, <2>1, <3>4 DEF EngineInv
    <2>3. CASE ~(e.attempt < MaxAttempts)
      <3>1. Ends(c)
        BY <1>8, <2>3 DEF Wake
      <3>2. Soberly(window', badRun')
        BY <1>s, <2>1 DEF Soberly
      <3> QED BY <1>3, <2>1, <3>1, <3>2
    <2> QED BY <2>2, <2>3
  <1> QED BY <1>1, <1>2, <1>5, <1>6, <1>7, <1>8 DEF EvalStep, Outcome

LEMMA EngineSteps == EngineInv /\ [EngineNext]_engineVars => EngineInv'
  <1> SUFFICES ASSUME EngineInv, [EngineNext]_engineVars PROVE EngineInv'
    OBVIOUS
  <1>0. PoolInv /\ Soberly(window, badRun) /\ settled \in BOOLEAN
    BY DEF EngineInv
  <1>1. ASSUME NEW c \in Evaluations, Begin(c) \/ EvalStep(c) PROVE EngineInv'
    BY <1>1, EvaluationStep
  <1>2. ASSUME NEW k \in ApiKeys, KeyCools(k) PROVE EngineInv'
    <2>1. /\ resting' = resting \ {k}
          /\ eval' = [c \in Evaluations |-> [eval[c] EXCEPT !.burnt = @ \ {k}]]
          /\ UNCHANGED <<index, window, settled, badRun>>
      BY <1>2 DEF KeyCools
    <2>2. ASSUME NEW c \in Evaluations PROVE InOrder(eval'[c], resting')
      <3>1. InOrder(eval[c], resting)
        BY <1>0 DEF PoolInv
      <3>2. eval'[c] = [eval[c] EXCEPT !.burnt = @ \ {k}]
        BY <2>1
      <3> QED BY <2>1, <3>1, <3>2, CooledInOrder
    <2>3. PoolInv'
      BY <1>0, <2>1, <2>2 DEF PoolInv
    <2> QED BY <1>0, <2>1, <2>3 DEF EngineInv
  <1>3. CASE GenerateRubric
    <2>1. index' \in ApiKeys
      BY <1>0, <1>3, PickPicks, IndexType DEF GenerateRubric, PoolInv
    <2> QED BY <1>0, <1>3, <2>1 DEF GenerateRubric, PoolInv, EngineInv
  <1>4. CASE ModelFailureDrill
    <2>1. Soberly(window', badRun')
      BY <1>0, <1>4, DrillIsSober DEF ModelFailureDrill, Soberly
    <2> QED BY <1>0, <1>4, <2>1 DEF ModelFailureDrill, PoolInv, EngineInv, Soberly
  <1>5. CASE ProviderSettles
    BY <1>0, <1>5 DEF ProviderSettles, PoolInv, EngineInv
  <1>6. CASE UNCHANGED engineVars
    BY <1>0, <1>6 DEF engineVars, PoolInv, EngineInv
  <1> QED BY <1>1, <1>2, <1>3, <1>4, <1>5, <1>6 DEF EngineNext

LEMMA EngineKeeps == EngineSpec => []EngineInv
  BY EngineStarts, EngineSteps, PTL DEF EngineSpec
-----------------------------------------------------------------------------
(* The pool, the window and the evaluations stay within their types: the   *)
(* window never outgrows _max_samples, and a request always has a model.   *)
THEOREM EnginesAreTyped == EngineSpec => []EngineTypeOK
  <1>1. EngineInv => EngineTypeOK
    BY DEF EngineInv, PoolInv, InOrder, Soberly, EngineTypeOK
  <1> QED BY <1>1, EngineKeeps, PTL

(* No request goes out on a key that its evaluation saw rate limited and   *)
(* that still cools down, with any number of evaluations and keys, though  *)
(* the evaluations turn the index of the pool for one another.             *)
THEOREM BurntKeysStayUnused == EngineSpec => []BurntKeysRest
  <1>1. EngineInv => BurntKeysRest
    BY DEF EngineInv, PoolInv, InOrder, BurntKeysRest
  <1> QED BY <1>1, EngineKeeps, PTL

(* Window attempts without a report send requests to the fallback model,   *)
(* for a rate threshold of at most one half: a report that fails its       *)
(* schema leaves a success next to its failure, so that a stricter         *)
(* threshold need not be reached.                                          *)
THEOREM SilentProvidersAreNoticed ==
  ASSUME RatePercent <= 50
  PROVE  EngineSpec => []SilenceIsNoticed
  <1>1. EngineInv => SilenceIsNoticed
    <2> SUFFICES ASSUME EngineInv, badRun >= Window, NEW t \in Tokens
                 PROVE  Degrades(window, t)
      BY DEF SilenceIsNoticed
    <2>1. Soberly(window, badRun) /\ badRun \in 0..Window
      BY DEF EngineInv, Soberly
    <2>2. badRun = Window
      BY <2>1, RouterAssumption DEF RouterAssumption
    <2> QED BY <2>1, <2>2, SilenceDegrades
  <1> QED BY <1>1, EngineKeeps, PTL
-----------------------------------------------------------------------------
(***************************************************************************)
(* The papers of a batch.                                                  *)
(***************************************************************************)
Pcs == {"wait", "pick", "queue", "call", "sulk", "pause", "grade", "log", "done",
        "failed", "taken"}
JobVerdicts == {"none", "scored", "rejected"}

(* Where a job holds the batch semaphore, and where the API's.             *)
Holding == {"pick", "queue", "call", "sulk", "pause", "grade", "log"}
Calling == {"call", "sulk"}

In(f, S) == {i \in Papers : f[i].pc \in S}
One(p, S) == IF p \in S THEN 1 ELSE 0

(* A job against its record and its row: it makes its record as its last   *)
(* act, and only then is its result taken and stored.                      *)
Coherent(j, recorded, stored) ==
  /\ j.pc \in {"queue", "call"} => j.key \in ApiKeys
  /\ recorded => j.verdict = "rejected" /\ j.pc \in {"done", "taken"}
  /\ j.pc \in {"log", "done"} => j.verdict \in {"scored", "rejected"}
  /\ j.pc = "done" /\ j.verdict = "rejected" => recorded
  /\ stored => /\ j.pc = "taken" /\ j.verdict \in {"scored", "rejected"}
               /\ j.verdict = "rejected" <=> recorded

JobsInv ==
  /\ job \in [Papers -> JobStates]
  /\ cooling \subseteq ApiKeys /\ turn \in ApiKeys /\ revoked \in BOOLEAN
  /\ rows \subseteq Papers /\ records \subseteq Papers
  /\ \A i \in Papers : Coherent(job[i], i \in records, i \in rows \cup loop.got)

(* A semaphore's free places and the jobs inside make up its size.         *)
SlotsInv ==
  /\ freeSlots \in Nat /\ freeSlots + Cardinality(In(job, Holding)) = BatchSlots
  /\ freeApi \in Nat /\ freeApi + Cardinality(In(job, Calling)) = ApiSlots

(* The loop counts the rows it stored, and holds at most one result.       *)
LoopInv ==
  /\ loop \in [pc : {"next", "await", "insert", "report", "ended", "cancelled", "raised"},
               done : 0..Cardinality(Papers), got : SUBSET Papers]
  /\ loop.pc \in {"next", "await"} => loop.done = Cardinality(rows) /\ loop.got = {}
  /\ loop.pc = "insert" =>
       /\ loop.done = Cardinality(rows)
       /\ \E i \in Papers \ rows : loop.got = {i}
  /\ loop.pc = "report" => loop.done + 1 = Cardinality(rows) /\ loop.got \subseteq rows
  /\ loop.pc = "ended" => rows = Papers

BatchInv == JobsInv /\ SlotsInv /\ LoopInv

LEMMA JobFields ==
  ASSUME NEW j \in JobStates
  PROVE  /\ j.pc \in Pcs /\ j.try \in 0..QwenRetries /\ j.net \in 0..NetErrors
         /\ j.key \in ApiKeys \cup {NoKey} /\ j.verdict \in JobVerdicts
  BY DEF JobStates, Pcs, JobVerdicts

LEMMA PapersFinite ==
  ASSUME NEW f, NEW S
  PROVE  /\ IsFiniteSet(In(f, S)) /\ Cardinality(In(f, S)) \in Nat
         /\ Cardinality(Papers) \in Nat
  <1>1. IsFiniteSet(Papers) /\ In(f, S) \subseteq Papers
    BY BatchAssumption, FS_Interval DEF BatchAssumption, In, Papers
  <1> QED BY <1>1, FS_Subset, FS_CardinalityType

(* One job moves: those inside a place become more by one, or fewer.       *)
LEMMA OneJobMoves ==
  ASSUME NEW f \in [Papers -> JobStates], NEW i \in Papers, NEW r \in JobStates,
         NEW S, NEW g, \A x \in Papers : g[x] = IF x = i THEN r ELSE f[x]
  PROVE  Cardinality(In(g, S)) + One(f[i].pc, S)
           = Cardinality(In(f, S)) + One(r.pc, S)
  <1>0. /\ IsFiniteSet(In(f, S)) /\ Cardinality(In(f, S)) \in Nat
        /\ IsFiniteSet(In(g, S)) /\ Cardinality(In(g, S)) \in Nat
    BY PapersFinite
  <1>1. \A x \in Papers : g[x] = IF x = i THEN r ELSE f[x]
    OBVIOUS
  <1>2. CASE r.pc \in S /\ f[i].pc \notin S
    <2>1. In(g, S) = In(f, S) \cup {i} /\ i \notin In(f, S)
      BY <1>1, <1>2 DEF In
    <2>2. Cardinality(In(g, S)) = Cardinality(In(f, S)) + 1
      BY <1>0, <2>1, FS_AddElement
    <2> QED BY <1>0, <1>2, <2>2 DEF One
  <1>3. CASE r.pc \notin S /\ f[i].pc \in S
    <2>1. In(g, S) = In(f, S) \ {i} /\ i \in In(f, S)
      BY <1>1, <1>3 DEF In
    <2>2. Cardinality(In(g, S)) = Cardinality(In(f, S)) - 1
      BY <1>0, <2>1, FS_RemoveElement
    <2> QED BY <1>0, <1>3, <2>2 DEF One
  <1>4. CASE r.pc \in S <=> f[i].pc \in S
    <2>1. In(g, S) = In(f, S)
      BY <1>1, <1>4 DEF In
    <2> QED BY <1>0, <1>4, <2>1 DEF One
  <1> QED BY <1>2, <1>3, <1>4

(* What a step of a job has to show.                                       *)
LEMMA JobMoves ==
  ASSUME BatchInv, NEW i \in Papers, job[i].pc \notin {"done", "failed", "taken"},
         NEW r \in JobStates, job' = [job EXCEPT ![i] = r],
         r.pc # "taken", r.pc \in {"queue", "call"} => r.key \in ApiKeys,
         r.pc \in {"log", "done"} => r.verdict \in {"scored", "rejected"},
         records' = IF r.pc = "done" /\ r.verdict = "rejected"
                    THEN records \cup {i} ELSE records,
         freeSlots' \in Nat, freeApi' \in Nat,
         freeSlots' + One(r.pc, Holding) = freeSlots + One(job[i].pc, Holding),
         freeApi' + One(r.pc, Calling) = freeApi + One(job[i].pc, Calling),
         cooling' \subseteq ApiKeys, turn' \in ApiKeys, UNCHANGED <<loop, rows, revoked>>
  PROVE  BatchInv'
  <1>0. job \in [Papers -> JobStates]
    BY DEF BatchInv, JobsInv
  <1>1. SlotsInv'
    <2>1. /\ Cardinality(In(job', Holding)) + One(job[i].pc, Holding)
               = Cardinality(In(job, Holding)) + One(r.pc, Holding)
          /\ Cardinality(In(job', Calling)) + One(job[i].pc, Calling)
               = Cardinality(In(job, Calling)) + One(r.pc, Calling)
      <3> DEFINE g == job'
      <3>1. \A x \in Papers : g[x] = IF x = i THEN r ELSE job[x]
        BY <1>0
      <3> HIDE DEF g
      <3>2. ASSUME NEW S
            PROVE  Cardinality(In(g, S)) + One(job[i].pc, S)
                     = Cardinality(In(job, S)) + One(r.pc, S)
        BY ONLY <1>0, <3>1, OneJobMoves, i \in Papers, r \in JobStates
      <3> QED BY <3>2 DEF g
    <2>a. /\ freeSlots' \in Nat /\ freeApi' \in Nat
          /\ freeSlots' + One(r.pc, Holding) = freeSlots + One(job[i].pc, Holding)
          /\ freeApi' + One(r.pc, Calling) = freeApi + One(job[i].pc, Calling)
      OBVIOUS
    <2>3. /\ One(job[i].pc, Holding) \in Nat /\ One(r.pc, Holding) \in Nat
          /\ One(job[i].pc, Calling) \in Nat /\ One(r.pc, Calling) \in Nat
      BY DEF One
    <2>4. /\ Cardinality(In(job, Holding)) \in Nat /\ Cardinality(In(job', Holding)) \in Nat
          /\ Cardinality(In(job, Calling)) \in Nat /\ Cardinality(In(job', Calling)) \in Nat
      BY PapersFinite
    <2>5. /\ freeSlots \in Nat /\ freeSlots + Cardinality(In(job, Holding)) = BatchSlots
          /\ freeApi \in Nat /\ freeApi + Cardinality(In(job, Calling)) = ApiSlots
      BY DEF BatchInv, SlotsInv
    <2>6. freeSlots' + Cardinality(In(job', Holding)) = BatchSlots
      BY ONLY <2>1, <2>3, <2>4, <2>5, <2>a
    <2>7. freeApi' + Cardinality(In(job', Calling)) = ApiSlots
      BY ONLY <2>1, <2>3, <2>4, <2>5, <2>a
    <2> QED BY <2>6, <2>7 DEF SlotsInv
  <1>2. JobsInv'
    <2>1. \A x \in Papers : job'[x] = IF x = i THEN r ELSE job[x]
      BY <1>0
    <2>2. job' \in [Papers -> JobStates]
      BY <1>0
    <2>3. Coherent(job[i], i \in records, i \in rows \cup loop.got)
      BY DEF BatchInv, JobsInv
    <2>4. i \notin records /\ i \notin rows \cup loop.got
      BY <2>3 DEF Coherent
    <2>5. Coherent(job'[i], i \in records', i \in rows' \cup loop'.got)
      BY <2>1, <2>4 DEF Coherent
    <2>6. ASSUME NEW x \in Papers, x # i
          PROVE  Coherent(job'[x], x \in records', x \in rows' \cup loop'.got)
      <3>1. Coherent(job[x], x \in records, x \in rows \cup loop.got)
        BY DEF BatchInv, JobsInv
      <3>2. job'[x] = job[x] /\ (x \in records' <=> x \in records)
        BY <2>1, <2>6
      <3> QED BY <3>1, <3>2 DEF Coherent
    <2>7. /\ rows' \subseteq Papers /\ records' \subseteq Papers
          /\ revoked' \in BOOLEAN
      BY DEF BatchInv, JobsInv
    <2> QED BY <2>2, <2>5, <2>6, <2>7 DEF JobsInv
  <1>3. LoopInv'
    BY DEF BatchInv, LoopInv
  <1> QED BY <1>1, <1>2, <1>3 DEF BatchInv

(* A job that leaves gives its place back and forgets the rest.            *)
LEMMA JobLeaves ==
  ASSUME BatchInv, NEW i \in Papers, job[i].pc \in Holding,
         NEW p \in {"done", "failed"}, Leave(i, p),
         p = "done" => job[i].verdict \in {"scored", "rejected"},
         records' = IF p = "done" /\ job[i].verdict = "rejected"
                    THEN records \cup {i} ELSE records,
         freeApi' \in Nat, freeApi' = freeApi + One(job[i].pc, Calling),
         cooling' \subseteq ApiKeys, turn' \in ApiKeys, UNCHANGED <<loop, rows, revoked>>
  PROVE  BatchInv'
  <1> DEFINE v == job[i].verdict
             r == [Fresh EXCEPT !.pc = p, !.verdict = v]
  <1>1. v \in JobVerdicts /\ freeSlots \in Nat /\ freeApi \in Nat
    BY JobFields DEF BatchInv, JobsInv, SlotsInv
  <1>2. job' = [job EXCEPT ![i] = r] /\ freeSlots' = freeSlots + 1
    BY DEF Leave
  <1>3. 0 \in 0..QwenRetries /\ 0 \in 0..NetErrors
    BY BatchAssumption DEF BatchAssumption
  <1>4. r \in JobStates /\ r.pc = p /\ r.verdict = v
    <2> HIDE DEF v
    <2> QED BY <1>1, <1>3 DEF Fresh, JobStates, JobVerdicts
  <1>5. One(p, Holding) = 0 /\ One(p, Calling) = 0 /\ One(job[i].pc, Holding) = 1
    BY DEF One, Holding, Calling
  <1>6. /\ freeSlots' \in Nat
        /\ freeSlots' + One(p, Holding) = freeSlots + One(job[i].pc, Holding)
        /\ freeApi' + One(p, Calling) = freeApi + One(job[i].pc, Calling)
    BY <1>1, <1>2, <1>5
  <1>7. /\ job[i].pc \notin {"done", "failed", "taken"}
        /\ p # "taken" /\ p \notin {"queue", "call"}
        /\ p \in {"log", "done"} => v \in {"scored", "rejected"}
    BY DEF Holding
  <1>8. records' = IF p = "done" /\ v = "rejected" THEN records \cup {i} ELSE records
    BY DEF v
  <1> HIDE DEF v, r
  <1> QED BY <1>2, <1>4, <1>6, <1>7, <1>8, JobMoves

LEMMA JobTriesAgain ==
  ASSUME BatchInv, NEW i \in Papers, job[i].pc \in {"sulk", "pause"}, TryAgain(i),
         freeApi' \in Nat, freeApi' = freeApi + One(job[i].pc, Calling),
         UNCHANGED <<cooling, turn, loop, rows, records, revoked>>
  PROVE  BatchInv'
  <1> DEFINE j == job[i]
  <1>1. /\ j \in JobStates /\ freeSlots \in Nat /\ freeApi \in Nat
        /\ cooling' \subseteq ApiKeys /\ turn' \in ApiKeys
        /\ j.pc \in Holding
    BY DEF BatchInv, JobsInv, SlotsInv, Holding
  <1>2. CASE j.try = QwenRetries
    <2>1. Leave(i, "failed")
      BY <1>2 DEF TryAgain
    <2> QED BY <1>1, <2>1, JobLeaves
  <1>3. CASE j.try # QwenRetries
    <2> DEFINE a == j.try + 1
               r == [j EXCEPT !.pc = "pick", !.try = a]
    <2>1. job' = [job EXCEPT ![i] = r] /\ freeSlots' = freeSlots
      BY <1>3 DEF TryAgain
    <2>2. a \in 0..QwenRetries
      BY <1>1, <1>3, JobFields, BatchAssumption DEF BatchAssumption
    <2>3. r \in JobStates /\ r.pc = "pick"
      <3> HIDE DEF a, j
      <3> QED BY <1>1, <2>2 DEF JobStates
    <2>4. /\ One("pick", Holding) = 1 /\ One("pick", Calling) = 0
          /\ One(job[i].pc, Holding) = 1
          /\ job[i].pc \notin {"done", "failed", "taken"}
      BY DEF One, Holding, Calling
    <2>5. /\ freeSlots' + One("pick", Holding) = freeSlots + One(job[i].pc, Holding)
          /\ freeApi' + One("pick", Calling) = freeApi + One(job[i].pc, Calling)
          /\ freeSlots' \in Nat
      BY <1>1, <2>1, <2>4
    <2> HIDE DEF r
    <2> QED BY <1>1, <2>1, <2>3, <2>4, <2>5, JobMoves
  <1> QED BY <1>2, <1>3

(* A step from p to q, by the places it takes and gives back.              *)
LEMMA Places ==
  /\ \A q \in Holding \ Calling : One(q, Holding) = 1 /\ One(q, Calling) = 0
  /\ \A q \in Calling : One(q, Holding) = 1 /\ One(q, Calling) = 1
  /\ \A q \in Pcs \ Holding : One(q, Holding) = 0 /\ One(q, Calling) = 0
  BY DEF One, Holding, Calling, Pcs

LEMMA JobSteps ==
  ASSUME BatchInv, NEW i \in Papers, JobStep(i)
  PROVE  BatchInv'
  <1> DEFINE j == job[i]
  <1>0. /\ j \in JobStates /\ freeSlots \in Nat /\ freeApi \in Nat
        /\ cooling \subseteq ApiKeys /\ turn \in ApiKeys
        /\ j.pc \in {"queue", "call"} => j.key \in ApiKeys
        /\ j.pc = "log" => j.verdict \in {"scored", "rejected"}
        /\ j.key \in ApiKeys \cup {NoKey}
        /\ freeSlots + 1 \in Nat /\ freeApi + 1 \in Nat
        /\ NoKey \in ApiKeys \cup {NoKey}
        /\ 0 \in 0..QwenRetries /\ 0 \in 0..NetErrors
    BY JobFields, BatchAssumption
    DEF BatchInv, JobsInv, SlotsInv, Coherent, BatchAssumption
  <1> USE Places DEF Holding, Calling, Pcs
  <1>1. CASE Enter(i)
    <2> DEFINE r == [j EXCEPT !.pc = "pick"]
    <2>1. /\ j.pc = "wait" /\ freeSlots > 0 /\ freeSlots' = freeSlots - 1
          /\ job' = [job EXCEPT ![i] = r]
          /\ UNCHANGED <<freeApi, cooling, turn, loop, rows, records, revoked>>
      BY <1>1 DEF Enter
    <2>2. r \in JobStates /\ r.pc = "pick"
      <3> HIDE DEF j
      <3> QED BY <1>0 DEF JobStates
    <2> HIDE DEF r
    <2>3. /\ freeSlots' \in Nat
          /\ freeSlots' + One("pick", Holding) = freeSlots + One("wait", Holding)
          /\ freeApi' + One("pick", Calling) = freeApi + One("wait", Calling)
      BY <1>0, <2>1
    <2> QED BY <1>0, <2>1, <2>2, <2>3, JobMoves
  <1>2. CASE PickKey(i)
    <2> DEFINE k == Pick(turn, cooling)
               r == [j EXCEPT !.pc = "queue", !.key = k]
    <2>1. /\ j.pc = "pick" /\ turn' = IndexAfter(turn, k)
          /\ UNCHANGED <<freeApi, cooling, loop, rows, records, revoked>>
          /\ k = NoKey => Leave(i, "failed")
          /\ k # NoKey => job' = [job EXCEPT ![i] = r] /\ freeSlots' = freeSlots
      BY <1>2 DEF PickKey
    <2>2. k \in ApiKeys \cup {NoKey} /\ (k # NoKey => k \in ApiKeys)
      BY <1>0, PickPicks
    <2>3. turn' \in ApiKeys
      BY <1>0, <2>1, <2>2, IndexType
    <2> HIDE DEF k
    <2>4. CASE k = NoKey
      BY <1>0, <2>1, <2>3, <2>4, JobLeaves
    <2>5. CASE k # NoKey
      <3>1. r \in JobStates /\ r.pc = "queue" /\ r.key = k
        <4> HIDE DEF j
        <4> QED BY <1>0, <2>2 DEF JobStates
      <3> HIDE DEF r
      <3>2. /\ freeSlots' + One("queue", Holding) = freeSlots + One("pick", Holding)
            /\ freeApi' + One("queue", Calling) = freeApi + One("pick", Calling)
        BY <1>0, <2>1, <2>5
      <3> QED BY <1>0, <2>1, <2>2, <2>3, <2>5, <3>1, <3>2, JobMoves
    <2> QED BY <2>4, <2>5
  <1>3. CASE EnterApi(i)
    <2> DEFINE r == [j EXCEPT !.pc = "call"]
    <2>1. /\ j.pc = "queue" /\ freeApi > 0 /\ freeApi' = freeApi - 1
          /\ job' = [job EXCEPT ![i] = r]
          /\ UNCHANGED <<freeSlots, cooling, turn, loop, rows, records, revoked>>
      BY <1>3 DEF EnterApi
    <2>2. r \in JobStates /\ r.pc = "call" /\ r.key = j.key
      <3> HIDE DEF j
      <3> QED BY <1>0 DEF JobStates
    <2> HIDE DEF r
    <2>3. /\ freeApi' \in Nat /\ freeApi' + One("call", Calling) = freeApi + One("queue", Calling)
          /\ freeSlots' + One("call", Holding) = freeSlots + One("queue", Holding)
      BY <1>0, <2>1
    <2> QED BY <1>0, <2>1, <2>2, <2>3, JobMoves
  <1>4. CASE Perceived(i)
    <2>1. /\ j.pc = "call" /\ freeApi' = freeApi + 1
          /\ UNCHANGED <<freeSlots, cooling, turn, loop, rows, records, revoked>>
      BY <1>4 DEF Perceived, LeaveApi
    <2>2. PICK r \in {[Fresh EXCEPT !.pc = "grade"],
                      [Fresh EXCEPT !.pc = "log", !.verdict = "rejected"]} :
            job' = [job EXCEPT ![i] = r]
      BY <1>4 DEF Perceived
    <2>3. /\ r \in JobStates /\ r.pc \in {"grade", "log"}
          /\ r.pc = "log" => r.verdict = "rejected"
      BY <1>0, <2>2 DEF Fresh, JobStates
    <2>4. /\ freeApi' \in Nat /\ freeApi' + One(r.pc, Calling) = freeApi + One("call", Calling)
          /\ freeSlots' + One(r.pc, Holding) = freeSlots + One("call", Holding)
      BY <1>0, <2>1, <2>3
    <2> QED BY <1>0, <2>1, <2>2, <2>3, <2>4, JobMoves
  <1>5. CASE Unparsable(i)
    <2> DEFINE r == [j EXCEPT !.pc = "sulk", !.net = 0, !.key = NoKey]
    <2>1. /\ j.pc = "call" /\ job' = [job EXCEPT ![i] = r]
          /\ UNCHANGED <<freeSlots, freeApi, cooling, turn, loop, rows, records, revoked>>
      BY <1>5 DEF Unparsable
    <2>2. r \in JobStates /\ r.pc = "sulk"
      <3> HIDE DEF j
      <3> QED BY <1>0 DEF JobStates
    <2> HIDE DEF r
    <2>3. /\ freeApi' + One("sulk", Calling) = freeApi + One("call", Calling)
          /\ freeSlots' + One("sulk", Holding) = freeSlots + One("call", Holding)
      BY <1>0, <2>1
    <2> QED BY <1>0, <2>1, <2>2, <2>3, JobMoves
  <1>6. CASE QwenRateLimited(i)
    <2> DEFINE r == [j EXCEPT !.pc = "pause", !.net = 0, !.key = NoKey]
    <2>1. /\ j.pc = "call" /\ job' = [job EXCEPT ![i] = r] /\ freeApi' = freeApi + 1
          /\ cooling' = cooling \cup {j.key}
          /\ UNCHANGED <<freeSlots, turn, loop, rows, records, revoked>>
      BY <1>6 DEF QwenRateLimited, LeaveApi
    <2>2. r \in JobStates /\ r.pc = "pause"
      <3> HIDE DEF j
      <3> QED BY <1>0 DEF JobStates
    <2> HIDE DEF r
    <2>3. /\ freeApi' \in Nat /\ freeApi' + One("pause", Calling) = freeApi + One("call", Calling)
          /\ freeSlots' + One("pause", Holding) = freeSlots + One("call", Holding)
      BY <1>0, <2>1
    <2>4. cooling' \subseteq ApiKeys
      BY <1>0, <2>1
    <2> QED BY <1>0, <2>1, <2>2, <2>3, <2>4, JobMoves
  <1>7. CASE NetworkError(i)
    <2> DEFINE r == [j EXCEPT !.pc = "pause", !.net = @ + 1, !.key = NoKey]
    <2>1. /\ j.pc = "call" /\ freeApi' = freeApi + 1
          /\ j.net = NetErrors => Leave(i, "failed")
          /\ j.net # NetErrors => job' = [job EXCEPT ![i] = r] /\ freeSlots' = freeSlots
          /\ UNCHANGED <<cooling, turn, loop, rows, records, revoked>>
      BY <1>7 DEF NetworkError, LeaveApi
    <2>2. CASE j.net = NetErrors
      BY <1>0, <2>1, <2>2, JobLeaves
    <2>3. CASE j.net # NetErrors
      <3>1. j.net + 1 \in 0..NetErrors
        BY <1>0, <2>3, JobFields, BatchAssumption DEF BatchAssumption
      <3>2. r \in JobStates /\ r.pc = "pause"
        <4> HIDE DEF j
        <4> QED BY <1>0, <3>1 DEF JobStates
      <3> HIDE DEF r
      <3>3. /\ freeApi' \in Nat /\ freeApi' + One("pause", Calling) = freeApi + One("call", Calling)
            /\ freeSlots' + One("pause", Holding) = freeSlots + One("call", Holding)
        BY <1>0, <2>1, <2>3
      <3> QED BY <1>0, <2>1, <2>3, <3>2, <3>3, JobMoves
    <2> QED BY <2>2, <2>3
  <1>8. CASE CallRaises(i)
    <2>1. /\ j.pc = "call" /\ freeApi' = freeApi + 1 /\ Leave(i, "failed")
          /\ UNCHANGED <<cooling, turn, loop, rows, records, revoked>>
      BY <1>8 DEF CallRaises, LeaveApi
    <2> QED BY <1>0, <2>1, JobLeaves
  <1>9. CASE SulkOver(i)
    <2>1. /\ j.pc = "sulk" /\ freeApi' = freeApi + 1 /\ TryAgain(i)
          /\ UNCHANGED <<cooling, turn, loop, rows, records, revoked>>
      BY <1>9 DEF SulkOver, LeaveApi
    <2> QED BY <1>0, <2>1, JobTriesAgain
  <1>10. CASE PauseOver(i)
    <2>1. /\ j.pc = "pause" /\ freeApi' = freeApi /\ TryAgain(i)
          /\ UNCHANGED <<cooling, turn, loop, rows, records, revoked>>
      BY <1>10 DEF PauseOver
    <2>2. freeApi' = freeApi + One(j.pc, Calling)
      BY <1>0, <2>1
    <2> QED BY <1>0, <2>1, <2>2, JobTriesAgain
  <1>11. CASE Graded(i)
    <2>1. /\ j.pc = "grade" /\ freeApi' = freeApi
          /\ UNCHANGED <<cooling, turn, loop, rows, records, revoked>>
      BY <1>11 DEF Graded
    <2>2. CASE Leave(i, "failed")
      <3>1. freeApi' = freeApi + One(j.pc, Calling)
        BY <1>0, <2>1
      <3> QED BY <1>0, <2>1, <2>2, <3>1, JobLeaves
    <2>3. ASSUME NEW v \in {"scored", "rejected"}, freeSlots' = freeSlots,
                 job' = [job EXCEPT ![i].pc = "log", ![i].verdict = v]
          PROVE  BatchInv'
      <3> DEFINE r == [j EXCEPT !.pc = "log", !.verdict = v]
      <3>1. job' = [job EXCEPT ![i] = r]
        BY <2>3
      <3>2. r \in JobStates /\ r.pc = "log" /\ r.verdict = v
        <4> HIDE DEF j
        <4> QED BY <1>0 DEF JobStates
      <3> HIDE DEF r
      <3>3. /\ freeApi' + One("log", Calling) = freeApi + One("grade", Calling)
            /\ freeSlots' + One("log", Holding) = freeSlots + One("grade", Holding)
        BY <1>0, <2>1, <2>3
      <3> QED BY <1>0, <2>1, <2>3, <3>1, <3>2, <3>3, JobMoves
    <2> QED BY <1>11, <2>2, <2>3 DEF Graded
  <1>12. CASE LogRejected(i)
    <2>1. /\ j.pc = "log" /\ freeApi' = freeApi
          /\ UNCHANGED <<cooling, turn, loop, rows, revoked>>
      BY <1>12 DEF LogRejected
    <2>2. freeApi' = freeApi + One(j.pc, Calling)
      BY <1>0, <2>1
    <2>3. PICK p \in {"done", "failed"} :
            /\ Leave(i, p)
            /\ records' = IF p = "done" /\ j.verdict = "rejected"
                          THEN records \cup {i} ELSE records
      <3>1. ASSUME Leave(i, "done"),
                   records' = IF j.verdict = "rejected" THEN records \cup {i} ELSE records
            PROVE  \E p \in {"done", "failed"} :
                     /\ Leave(i, p)
                     /\ records' = IF p = "done" /\ j.verdict = "rejected"
                                   THEN records \cup {i} ELSE records
        BY <3>1
      <3>2. ASSUME Leave(i, "failed"), records' = records
            PROVE  \E p \in {"done", "failed"} :
                     /\ Leave(i, p)
                     /\ records' = IF p = "done" /\ j.verdict = "rejected"
                                   THEN records \cup {i} ELSE records
        BY <3>2
      <3> QED BY <1>12, <3>1, <3>2 DEF LogRejected
    <2> QED BY <1>0, <2>1, <2>2, <2>3, JobLeaves
  <1> QED BY <1>1, <1>2, <1>3, <1>4, <1>5, <1>6, <1>7, <1>8, <1>9, <1>10, <1>11, <1>12
      DEF JobStep

LEMMA RowsCount ==
  ASSUME NEW R \in SUBSET Papers
  PROVE  /\ Cardinality(R) \in 0..Cardinality(Papers)
         /\ Cardinality(R) = Cardinality(Papers) => R = Papers
         /\ \A i \in Papers \ R : Cardinality(R \cup {i}) = Cardinality(R) + 1
  <1>1. IsFiniteSet(Papers)
    BY BatchAssumption, FS_Interval DEF BatchAssumption, Papers
  <1>2. IsFiniteSet(R) /\ Cardinality(R) <= Cardinality(Papers)
        /\ (Cardinality(R) = Cardinality(Papers) => R = Papers)
    BY <1>1, FS_Subset
  <1>3. Cardinality(R) \in Nat /\ Cardinality(Papers) \in Nat
    BY <1>1, <1>2, FS_CardinalityType
  <1>4. \A i \in Papers \ R : Cardinality(R \cup {i}) = Cardinality(R) + 1
    BY <1>2, FS_AddElement
  <1> QED BY <1>2, <1>3, <1>4

LEMMA LoopSteps ==
  ASSUME BatchInv, LoopStep
  PROVE  BatchInv'
  <1>0. JobsInv /\ SlotsInv /\ LoopInv
    BY DEF BatchInv
  <1>a. /\ rows \subseteq Papers /\ loop.got \subseteq Papers
        /\ loop.done \in 0..Cardinality(Papers) /\ Cardinality(Papers) \in Nat
        /\ Cardinality(rows) \in 0..Cardinality(Papers)
        /\ loop.pc \in {"next", "await", "insert", "report", "ended", "cancelled", "raised"}
    BY <1>0, RowsCount, PapersFinite DEF JobsInv, LoopInv
  <1>1. CASE NextPaper
    <2>1. /\ loop.pc = "next" /\ loop'.got = {} /\ loop'.done = loop.done
          /\ UNCHANGED <<job, freeSlots, freeApi, cooling, turn, rows, records, revoked>>
          /\ loop'.pc \in {"await", "cancelled", "ended"}
          /\ loop'.pc = "ended" => loop.done = Cardinality(Papers)
          /\ loop' \in [pc : {"next", "await", "insert", "report", "ended", "cancelled",
                             "raised"},
                        done : 0..Cardinality(Papers), got : SUBSET Papers]
      BY <1>0, <1>1 DEF NextPaper, LoopInv
    <2>2. /\ loop.done = Cardinality(rows) /\ loop.got = {}
          /\ loop'.pc = "ended" => rows' = Papers
      BY <1>0, <1>a, <2>1, RowsCount DEF LoopInv
    <2>3. LoopInv'
      BY <2>1, <2>2 DEF LoopInv
    <2>4. SlotsInv' /\ JobsInv'
      BY <1>0, <2>1, <2>2 DEF SlotsInv, JobsInv
    <2> QED BY <2>3, <2>4 DEF BatchInv
  <1>2. ASSUME NEW i \in Papers, TakeResult(i) PROVE BatchInv'
    <2> DEFINE j == job[i]
               r == [j EXCEPT !.pc = "taken"]
    <2>1. /\ loop.pc = "await" /\ j.pc \in {"done", "failed"}
          /\ job' = [job EXCEPT ![i] = r]
          /\ loop' = IF j.pc = "done" THEN [loop EXCEPT !.pc = "insert", !.got = {i}]
                     ELSE [loop EXCEPT !.pc = "raised"]
          /\ UNCHANGED <<freeSlots, freeApi, cooling, turn, rows, records, revoked>>
      BY <1>2 DEF TakeResult
    <2>2. /\ job \in [Papers -> JobStates] /\ j \in JobStates
          /\ Coherent(j, i \in records, i \in rows \cup loop.got)
      BY <1>0 DEF JobsInv
    <2>3. r \in JobStates /\ r.pc = "taken" /\ r.verdict = j.verdict
      <3> HIDE DEF j
      <3> QED BY <2>2 DEF JobStates
    <2>4. i \notin rows /\ loop.got = {} /\ loop.done = Cardinality(rows)
      BY <1>0, <2>1, <2>2 DEF Coherent, LoopInv
    <2>5. /\ j.pc = "done" => loop'.pc = "insert" /\ loop'.got = {i}
          /\ j.pc # "done" => loop'.pc = "raised" /\ loop'.got = {}
          /\ loop'.done = loop.done
          /\ loop' \in [pc : {"next", "await", "insert", "report", "ended", "cancelled",
                             "raised"},
                        done : 0..Cardinality(Papers), got : SUBSET Papers]
      BY <1>0, <2>1, <2>4 DEF LoopInv
    <2>6. LoopInv'
      BY <2>1, <2>4, <2>5 DEF LoopInv
    <2>7. \A x \in Papers : job'[x] = IF x = i THEN r ELSE job[x]
      BY <2>1, <2>2
    <2>8. SlotsInv'
      <3> HIDE DEF r
      <3> DEFINE g == job'
      <3>1. \A x \in Papers : g[x] = IF x = i THEN r ELSE job[x]
        BY <2>7
      <3>2. g = job'
        OBVIOUS
      <3> HIDE DEF g
      <3>3. \A x \in Papers : \A S \in {Holding, Calling} :
              g[x].pc \in S <=> job[x].pc \in S
        BY <2>1, <2>3, <3>1 DEF Holding, Calling
      <3>4. In(g, Holding) = In(job, Holding) /\ In(g, Calling) = In(job, Calling)
        BY <3>3 DEF In
      <3>5. In(job', Holding) = In(job, Holding) /\ In(job', Calling) = In(job, Calling)
        BY <3>2, <3>4, Zenon
      <3> QED BY <1>0, <2>1, <3>5 DEF SlotsInv
    <2>9. JobsInv'
      <3>1. ASSUME NEW x \in Papers
            PROVE  Coherent(job'[x], x \in records', x \in rows' \cup loop'.got)
        <4>1. Coherent(job[x], x \in records, x \in rows \cup loop.got)
          BY <1>0 DEF JobsInv
        <4>2. CASE x = i
          <5> HIDE DEF r, j
          <5>1. job'[x] = r /\ (i \in records' <=> i \in records)
            BY <2>1, <2>7, <4>2
          <5>2. i \in rows' \cup loop'.got => j.pc = "done"
            BY <2>1, <2>4, <2>5
          <5> QED BY <2>1, <2>2, <2>3, <4>2, <5>1, <5>2 DEF Coherent
        <4>3. CASE x # i
          <5> HIDE DEF r, j
          <5>1. /\ job'[x] = job[x] /\ (x \in records' <=> x \in records)
                /\ x \in rows' \cup loop'.got <=> x \in rows \cup loop.got
            BY <2>1, <2>4, <2>5, <2>7, <4>3
          <5> QED BY <4>1, <5>1 DEF Coherent
        <4> QED BY <4>2, <4>3
      <3>2. job' \in [Papers -> JobStates]
        <4> HIDE DEF r, j
        <4> QED BY <2>1, <2>2, <2>3
      <3> QED BY <1>0, <2>1, <3>1, <3>2 DEF JobsInv
    <2> QED BY <2>6, <2>8, <2>9 DEF BatchInv
  <1>3. CASE StoreRow
    <2>1. /\ loop.pc = "insert" /\ loop'.done = loop.done
          /\ \/ /\ rows' = rows \cup loop.got
                /\ loop'.pc = "report" /\ loop'.got = loop.got
             \/ rows' = rows /\ loop'.pc = "raised" /\ loop'.got = {}
          /\ UNCHANGED <<job, freeSlots, freeApi, cooling, turn, records, revoked>>
          /\ loop' \in [pc : {"next", "await", "insert", "report", "ended", "cancelled",
                             "raised"},
                        done : 0..Cardinality(Papers), got : SUBSET Papers]
      BY <1>0, <1>3 DEF StoreRow, LoopInv
    <2>2. PICK i \in Papers \ rows : loop.got = {i}
      BY <1>0, <2>1 DEF LoopInv
    <2>3. loop.done = Cardinality(rows) /\ Cardinality(rows \cup {i}) = Cardinality(rows) + 1
      BY <1>0, <1>a, <2>1, RowsCount DEF LoopInv
    <2>4. LoopInv'
      BY <2>1, <2>2, <2>3 DEF LoopInv
    <2>5. JobsInv' /\ SlotsInv'
      <3>1. \A x \in Papers : x \in rows' \cup loop'.got => x \in rows \cup loop.got
        BY <2>1
      <3>2. ASSUME NEW x \in Papers
            PROVE  Coherent(job'[x], x \in records', x \in rows' \cup loop'.got)
        <4>1. Coherent(job[x], x \in records, x \in rows \cup loop.got)
          BY <1>0 DEF JobsInv
        <4> QED BY <2>1, <3>1, <4>1 DEF Coherent
      <3>3. rows' \subseteq Papers
        BY <1>a, <2>1
      <3> QED BY <1>0, <2>1, <3>2, <3>3 DEF JobsInv, SlotsInv
    <2> QED BY <2>4, <2>5 DEF BatchInv
  <1>4. CASE Report
    <2>1. /\ loop.pc = "report" /\ loop'.done = loop.done + 1 /\ loop'.got = {}
          /\ loop'.pc \in {"next", "raised"}
          /\ loop' = [pc |-> loop'.pc, done |-> loop'.done, got |-> loop'.got]
          /\ UNCHANGED <<job, freeSlots, freeApi, cooling, turn, rows, records, revoked>>
      BY <1>4 DEF Report
    <2>2. loop.done + 1 = Cardinality(rows) /\ loop.got \subseteq rows
      BY <1>0, <2>1 DEF LoopInv
    <2>3. loop' \in [pc : {"next", "await", "insert", "report", "ended", "cancelled",
                          "raised"},
                     done : 0..Cardinality(Papers), got : SUBSET Papers]
      BY <1>a, <2>1, <2>2
    <2>4. LoopInv'
      BY <2>1, <2>2, <2>3 DEF LoopInv
    <2>5. ASSUME NEW x \in Papers
          PROVE  Coherent(job'[x], x \in records', x \in rows' \cup loop'.got)
      <3>1. Coherent(job[x], x \in records, x \in rows \cup loop.got)
        BY <1>0 DEF JobsInv
      <3> QED BY <2>1, <2>2, <3>1 DEF Coherent
    <2>6. JobsInv' /\ SlotsInv'
      BY <1>0, <2>1, <2>5 DEF JobsInv, SlotsInv
    <2> QED BY <2>4, <2>6 DEF BatchInv
  <1> QED BY <1>1, <1>2, <1>3, <1>4 DEF LoopStep

LEMMA BatchStarts == BatchInit => BatchInv
  <1> SUFFICES ASSUME BatchInit PROVE BatchInv
    OBVIOUS
  <1>1. /\ Fresh \in JobStates /\ Fresh.pc = "wait" /\ 1 \in ApiKeys
        /\ BatchSlots \in Nat /\ ApiSlots \in Nat
    BY BatchAssumption, KeyPoolAssumption
    DEF Fresh, JobStates, BatchAssumption, KeyPoolAssumption, ApiKeys
  <1> DEFINE f == [i \in Papers |-> Fresh]
  <1>2. In(f, Holding) = {} /\ In(f, Calling) = {}
    BY <1>1 DEF In, Holding, Calling
  <1>3. job = f
    BY DEF BatchInit
  <1>4. f \in [Papers -> JobStates] /\ \A i \in Papers : f[i].pc = "wait"
    BY <1>1
  <1> HIDE DEF f
  <1>5. SlotsInv
    BY <1>1, <1>2, <1>3, FS_EmptySet DEF BatchInit, SlotsInv
  <1>6. JobsInv
    BY <1>1, <1>3, <1>4 DEF BatchInit, JobsInv, Coherent
  <1>7. LoopInv
    BY PapersFinite, FS_EmptySet DEF BatchInit, LoopInv
  <1> QED BY <1>5, <1>6, <1>7 DEF BatchInv

LEMMA BatchSteps == BatchInv /\ [BatchNext]_batchVars => BatchInv'
  <1> SUFFICES ASSUME BatchInv, [BatchNext]_batchVars PROVE BatchInv'
    OBVIOUS
  <1>0. JobsInv /\ SlotsInv /\ LoopInv
    BY DEF BatchInv
  <1>1. ASSUME NEW k \in ApiKeys, QwenKeyCools(k) PROVE BatchInv'
    BY <1>0, <1>1 DEF QwenKeyCools, JobsInv, SlotsInv, LoopInv, BatchInv
  <1>2. CASE Revoke
    BY <1>0, <1>2 DEF Revoke, JobsInv, SlotsInv, LoopInv, BatchInv
  <1>3. CASE UNCHANGED batchVars
    BY <1>0, <1>3 DEF batchVars, JobsInv, SlotsInv, LoopInv, BatchInv
  <1> QED BY <1>1, <1>2, <1>3, JobSteps, LoopSteps DEF BatchNext

LEMMA BatchKeeps == BatchSpec => []BatchInv
  BY BatchStarts, BatchSteps, PTL DEF BatchSpec
-----------------------------------------------------------------------------
(* The jobs and the loop stay within their types, and each semaphore       *)
(* within its size: no way out of a job gives a place back twice, also     *)
(* while the loop is gone and the jobs it left behind go on.               *)
THEOREM BatchIsTyped == BatchSpec => []BatchTypeOK
  <1>1. BatchInv => BatchTypeOK
    <2> SUFFICES ASSUME BatchInv PROVE BatchTypeOK
      OBVIOUS
    <2>1. /\ freeSlots \in Nat /\ freeSlots + Cardinality(In(job, Holding)) = BatchSlots
          /\ freeApi \in Nat /\ freeApi + Cardinality(In(job, Calling)) = ApiSlots
      BY DEF BatchInv, SlotsInv
    <2>2. /\ Cardinality(In(job, Holding)) \in Nat /\ Cardinality(In(job, Calling)) \in Nat
          /\ BatchSlots \in Nat /\ ApiSlots \in Nat
      BY PapersFinite, BatchAssumption DEF BatchAssumption
    <2>3. freeSlots \in 0..BatchSlots /\ freeApi \in 0..ApiSlots
      BY <2>1, <2>2
    <2> QED BY <2>3 DEF BatchInv, JobsInv, LoopInv, BatchTypeOK
  <1> QED BY <1>1, BatchKeeps, PTL

(* No more papers are in the hands of a batch than its semaphore admits,   *)
(* and no more calls to the Qwen engine than the API's semaphore does.     *)
THEOREM SemaphoresLimit ==
  BatchSpec => [](/\ Cardinality(In(job, Holding)) <= BatchSlots
                  /\ Cardinality(In(job, Calling)) <= ApiSlots)
  <1>1. BatchInv => /\ Cardinality(In(job, Holding)) <= BatchSlots
                    /\ Cardinality(In(job, Calling)) <= ApiSlots
    <2> SUFFICES ASSUME BatchInv
                 PROVE  /\ Cardinality(In(job, Holding)) <= BatchSlots
                        /\ Cardinality(In(job, Calling)) <= ApiSlots
      OBVIOUS
    <2>1. /\ freeSlots \in Nat /\ freeSlots + Cardinality(In(job, Holding)) = BatchSlots
          /\ freeApi \in Nat /\ freeApi + Cardinality(In(job, Calling)) = ApiSlots
      BY DEF BatchInv, SlotsInv
    <2>2. /\ Cardinality(In(job, Holding)) \in Nat /\ Cardinality(In(job, Calling)) \in Nat
      BY PapersFinite
    <2> QED BY <2>1, <2>2
  <1> QED BY <1>1, BatchKeeps, PTL

(* Whatever order the papers complete in, and wherever the loop is left: a *)
(* stored paper has a hygiene record exactly when it was rejected, and a   *)
(* loop that ended has stored every paper.                                 *)
THEOREM RecordsFollowRows == BatchSpec => []RecordsMatchRows
  <1>1. BatchInv => RecordsMatchRows
    BY DEF BatchInv, JobsInv, LoopInv, Coherent, RecordsMatchRows
  <1> QED BY <1>1, BatchKeeps, PTL
(***************************************************************************)
(* A batch implements TaskLifecycle's attempt (GradesAsAttempt).  Of a     *)
(* paper only its stored row is seen from outside, and the hygiene record  *)
(* counts from then on: BatchInv says that a job's record was made before  *)
(* its row exactly when its verdict is a rejection, so that row and record *)
(* arrive together, as in TaskLifecycle's GradeItem.                       *)
(***************************************************************************)
AttemptMoves == [GradingStep \/ TeacherCancels]_lifecycleVars

StoredVerdicts == {job[i].verdict : i \in rows}

LEMMA Standing ==
  ASSUME rows' = rows, rows \cap records' = rows \cap records,
         \A i \in rows : job'[i].verdict = job[i].verdict
  PROVE  /\ counted' = counted
         /\ (rows \cap records # {})' = (rows \cap records # {})
         /\ StoredVerdicts' = StoredVerdicts
  <1>1. counted' = counted
    BY DEF counted
  <1>2. StoredVerdicts' = StoredVerdicts
    BY DEF StoredVerdicts
  <1> QED BY <1>1, <1>2

LEMMA AttemptIs ==
  /\ attempt = [pc |-> gradingPc, task |-> "batch", retries |-> 0,
                done |-> rows, verdicts |-> StoredVerdicts]
  /\ attempt' = [pc |-> gradingPc', task |-> "batch", retries |-> 0,
                 done |-> rows', verdicts |-> StoredVerdicts']
  BY DEF attempt, StoredVerdicts

LEMMA AttemptGoes ==
  ASSUME NEW pc, rows' = rows, StoredVerdicts' = StoredVerdicts, gradingPc' = pc
  PROVE  /\ attempt' = [attempt EXCEPT !.pc = pc]
         /\ Lifecycle!Goto("worker", pc)
  <1>1. attempt' = [attempt EXCEPT !.pc = pc]
    BY AttemptIs
  <1>2. idle' = idle
    BY DEF idle
  <1> QED BY <1>1, <1>2 DEF Lifecycle!Goto

LEMMA ColumnStands ==
  ASSUME revoked' = revoked
  PROVE  column' = column
  BY DEF column

LEMMA Raising ==
  ASSUME gradingPc \in {"grade", "check", "commit"}, loop'.pc = "raised",
         rows' = rows, rows \cap records' = rows \cap records,
         \A i \in rows : job'[i].verdict = job[i].verdict, revoked' = revoked
  PROVE  AttemptMoves
  <1>1. gradingPc' = "fail"
    BY DEF gradingPc
  <1>2. Lifecycle!Goto("worker", "fail")
    BY <1>1, Standing, AttemptGoes
  <1>3. attempt.pc = gradingPc
    BY AttemptIs
  <1>4. Lifecycle!StepRaises("worker")
    BY <1>2, <1>3, Standing, ColumnStands
    DEF Lifecycle!StepRaises, Lifecycle!BodyPcs, Lifecycle!store, Lifecycle!broker,
        Lifecycle!calls, Lifecycle!counts, Of
  <1> QED BY <1>4 DEF AttemptMoves, GradingStep

LEMMA Stuttering ==
  ASSUME gradingPc' = gradingPc,
         rows' = rows, rows \cap records' = rows \cap records,
         \A i \in rows : job'[i].verdict = job[i].verdict, revoked' = revoked
  PROVE  AttemptMoves
  BY Standing, AttemptIs, ColumnStands DEF AttemptMoves, lifecycleVars

(* A job that moves has no row yet, so that what is stored stands.         *)
LEMMA JobsStandBy ==
  ASSUME BatchInv, NEW i \in Papers, JobStep(i)
  PROVE  AttemptMoves
  <1>1. Coherent(job[i], i \in records, i \in rows \cup loop.got)
    BY DEF BatchInv, JobsInv
  <1>2. job[i].pc # "taken"
    BY DEF JobStep, Enter, PickKey, EnterApi, Perceived, Unparsable, QwenRateLimited,
           NetworkError, CallRaises, SulkOver, PauseOver, Graded, LogRejected
  <1>3. i \notin rows
    BY <1>1, <1>2 DEF Coherent
  <1>4. /\ UNCHANGED <<loop, rows, revoked>>
        /\ records' \in {records, records \cup {i}}
        /\ \A x \in Papers \ {i} : job'[x] = job[x]
    <2>0. job \in [Papers -> JobStates]
      BY DEF BatchInv, JobsInv
    <2>1. UNCHANGED <<loop, rows, revoked>>
      BY DEF JobStep, Enter, PickKey, EnterApi, Perceived, Unparsable, QwenRateLimited,
             NetworkError, CallRaises, SulkOver, PauseOver, Graded, LogRejected
    <2>2. records' \in {records, records \cup {i}}
      BY DEF JobStep, Enter, PickKey, EnterApi, Perceived, Unparsable, QwenRateLimited,
             NetworkError, CallRaises, SulkOver, PauseOver, Graded, LogRejected
    <2>3. \A p : Leave(i, p) => \A x \in Papers \ {i} : job'[x] = job[x]
      BY <2>0 DEF Leave
    <2>4. CASE Enter(i) \/ PickKey(i) \/ EnterApi(i) \/ Unparsable(i)
      BY <2>0, <2>3, <2>4 DEF Enter, PickKey, EnterApi, Unparsable
    <2>5. CASE Perceived(i) \/ QwenRateLimited(i) \/ NetworkError(i) \/ CallRaises(i)
      BY <2>0, <2>3, <2>5 DEF Perceived, QwenRateLimited, NetworkError, CallRaises
    <2>6. CASE SulkOver(i) \/ PauseOver(i)
      BY <2>0, <2>3, <2>6 DEF SulkOver, PauseOver, TryAgain
    <2>7. CASE Graded(i) \/ LogRejected(i)
      BY <2>0, <2>3, <2>7 DEF Graded, LogRejected
    <2> QED BY <2>1, <2>2, <2>4, <2>5, <2>6, <2>7 DEF JobStep
  <1>5. \A x \in rows : job'[x].verdict = job[x].verdict
    <2>1. rows \subseteq Papers
      BY DEF BatchInv, JobsInv
    <2> QED BY <1>3, <1>4, <2>1
  <1>6. gradingPc' = gradingPc
    BY <1>4 DEF gradingPc
  <1> QED BY <1>3, <1>4, <1>5, <1>6, Stuttering

LEMMA NextPaperGrades ==
  ASSUME BatchInv, NextPaper
  PROVE  AttemptMoves
  <1>1. /\ loop.pc = "next" /\ loop.done = Cardinality(rows) /\ rows \subseteq Papers
        /\ UNCHANGED <<job, rows, records, revoked>>
    BY DEF NextPaper, BatchInv, LoopInv, JobsInv
  <1>2. Cardinality(rows) = Cardinality(Papers) <=> rows = Papers
    BY <1>1, RowsCount
  <1>3. (Cardinality(rows) > 0) <=> rows # {}
    <2>1. IsFiniteSet(Papers)
      BY BatchAssumption, FS_Interval DEF BatchAssumption, Papers
    <2>2. IsFiniteSet(rows)
      BY <1>1, <2>1, FS_Subset
    <2>3. Cardinality(rows) \in Nat /\ (Cardinality(rows) = 0 <=> rows = {})
      BY <2>2, FS_EmptySet, FS_CardinalityType
    <2> QED BY <2>3
  <1>4. loop'.pc \in {"ended", "await", "cancelled"}
    BY DEF NextPaper, BatchInv, LoopInv
  <1>5. CASE loop'.pc = "ended"
    <2>1. rows = Papers
      BY <1>1, <1>2, <1>5 DEF NextPaper, BatchInv, LoopInv
    <2>2. gradingPc = "commit" /\ gradingPc' = "commit"
      BY <1>1, <1>5, <2>1 DEF gradingPc
    <2> QED BY <1>1, <2>2, Stuttering
  <1>6. CASE loop'.pc = "await"
    <2>1. rows # Papers
      BY <1>1, <1>2, <1>6 DEF NextPaper, BatchInv, LoopInv
    <2>2. gradingPc' = "grade" /\ gradingPc \in {"grade", "check"}
      BY <1>1, <1>6, <2>1 DEF gradingPc
    <2>3. CASE gradingPc = "check"
      <3>1. Lifecycle!Goto("worker", "grade") /\ attempt.pc = "check"
        BY <1>1, <2>2, <2>3, Standing, AttemptGoes, AttemptIs
      <3>2. Lifecycle!CheckCancelled("worker")
        BY <1>1, <3>1, Standing, ColumnStands
        DEF Lifecycle!CheckCancelled, Lifecycle!store, Lifecycle!broker, Lifecycle!calls,
            Lifecycle!counts, Of
      <3> QED BY <1>1, <3>2 DEF AttemptMoves, GradingStep
    <2> QED BY <1>1, <2>2, <2>3, Stuttering
  <1>7. CASE loop'.pc = "cancelled"
    <2>1. rows # Papers /\ LooksNow /\ revoked
      BY <1>1, <1>2, <1>7 DEF NextPaper, BatchInv, LoopInv
    <2>2. gradingPc = "check" /\ gradingPc' = "commit"
      BY <1>1, <1>3, <1>7, <2>1 DEF gradingPc, LooksNow
    <2>3. Lifecycle!Goto("worker", "commit") /\ attempt.pc = "check"
      BY <1>1, <2>2, Standing, AttemptGoes, AttemptIs
    <2>4. column.status = "CANCELLED" /\ attempt.task = "batch"
      BY <2>1, AttemptIs DEF column
    <2>5. Lifecycle!CheckCancelled("worker")
      BY <1>1, <2>3, <2>4, Standing, ColumnStands
      DEF Lifecycle!CheckCancelled, Lifecycle!store, Lifecycle!broker, Lifecycle!calls,
          Lifecycle!counts, Of
    <2> QED BY <1>1, <2>5 DEF AttemptMoves, GradingStep
  <1> QED BY <1>4, <1>5, <1>6, <1>7

LEMMA TakeResultGrades ==
  ASSUME BatchInv, NEW i \in Papers, TakeResult(i)
  PROVE  AttemptMoves
  <1>1. /\ loop.pc = "await" /\ job' = [job EXCEPT ![i].pc = "taken"]
        /\ UNCHANGED <<rows, records, revoked>>
        /\ loop'.pc \in {"insert", "raised"}
    BY DEF TakeResult, BatchInv, LoopInv
  <1>2. \A x \in rows : job'[x].verdict = job[x].verdict
    BY <1>1 DEF BatchInv, JobsInv, JobStates
  <1>3. gradingPc = "grade" /\ (loop'.pc = "insert" => gradingPc' = "grade")
    BY <1>1 DEF gradingPc
  <1> QED BY <1>1, <1>2, <1>3, Stuttering, Raising

LEMMA ReportGrades ==
  ASSUME BatchInv, Report
  PROVE  AttemptMoves
  <1>1. /\ loop.pc = "report" /\ loop'.pc \in {"next", "raised"}
        /\ UNCHANGED <<job, rows, records, revoked>>
    BY DEF Report
  <1>2. /\ gradingPc \in {"grade", "check", "commit"}
        /\ loop'.pc = "next" => gradingPc' = gradingPc
    BY <1>1 DEF gradingPc
  <1> QED BY <1>1, <1>2, Stuttering, Raising

LEMMA StoreRowGrades ==
  ASSUME BatchInv, StoreRow
  PROVE  AttemptMoves
  <1>1. /\ loop.pc = "insert" /\ UNCHANGED <<job, records, revoked>>
        /\ rows \subseteq Papers
    BY DEF StoreRow, BatchInv, JobsInv
  <1>2. gradingPc = "grade" /\ attempt.pc = "grade"
    BY <1>1, AttemptIs DEF gradingPc
  <1>3. CASE rows' = rows /\ loop'.pc = "raised"
    BY <1>1, <1>2, <1>3, Raising
  <1>4. CASE rows' = rows \cup loop.got /\ loop'.pc = "report"
    <2>1. PICK i \in Papers \ rows : loop.got = {i}
      BY <1>1 DEF BatchInv, LoopInv
    <2> DEFINE v == job[i].verdict
    <2>2. rows' = rows \cup {i}
      BY <1>4, <2>1
    <2>3. v \in {"scored", "rejected"} /\ (v = "rejected" <=> i \in records)
      <3>1. Coherent(job[i], i \in records, i \in rows \cup loop.got)
        BY DEF BatchInv, JobsInv
      <3> QED BY <2>1, <3>1 DEF Coherent
    <2>4. StoredVerdicts' = StoredVerdicts \cup {v}
      BY <1>1, <2>2 DEF StoredVerdicts
    <2>5. (rows \cap records # {})' <=> (rows \cap records # {} \/ v = "rejected")
      BY <1>1, <2>2, <2>3
    <2>6. counted' = [counted EXCEPT ![i][v] = @ + 1]
      <3>1. v \in Verdicts
        BY <2>3 DEF Verdicts
      <3>2. \A x \in Papers, w \in Verdicts :
              /\ counted[x][w] = IF x \in rows /\ job[x].verdict = w THEN 1 ELSE 0
              /\ counted'[x][w] = IF x \in rows \cup {i} /\ job[x].verdict = w THEN 1 ELSE 0
        BY <1>1, <2>2 DEF counted
      <3>3. /\ counted = [x \in Papers |-> [w \in Verdicts |-> counted[x][w]]]
            /\ counted' = [x \in Papers |-> [w \in Verdicts |-> counted'[x][w]]]
        BY DEF counted
      <3> DEFINE more == [counted EXCEPT ![i][v] = @ + 1]
      <3>4. more = [x \in Papers |-> [w \in Verdicts |-> more[x][w]]]
        BY <2>1, <3>3
      <3>5. ASSUME NEW x \in Papers, NEW w \in Verdicts
            PROVE  more[x][w] = IF x = i /\ w = v THEN counted[x][w] + 1 ELSE counted[x][w]
        BY <2>1, <3>1, <3>3
      <3>6. ASSUME NEW x \in Papers, NEW w \in Verdicts
            PROVE  counted'[x][w] = more[x][w]
        BY <2>1, <3>2, <3>5
      <3> HIDE DEF more
      <3>7. counted' = more
        BY <3>3, <3>4, <3>6
      <3> QED BY <3>7 DEF more
    <2> HIDE DEF v
    <2>7. gradingPc' = CASE rows' = Papers -> "commit"
                         [] rows' # Papers /\ Cardinality(rows') % CheckEvery = 0 -> "check"
                         [] OTHER -> "grade"
      BY <1>4, <2>2 DEF gradingPc
    <2>9. Lifecycle!GradeItem("worker", i, v)
      <3>1. Lifecycle!StoreResult("batch", i, v)
        BY <2>6 DEF Lifecycle!StoreResult, Of
      <3>2. Lifecycle!LogIfRejected("batch", i, v)
        BY <2>5 DEF Lifecycle!LogIfRejected, Of
      <3>3. attempt.task = "batch" /\ attempt.done = rows
        BY AttemptIs
      <3>4. Lifecycle!Items("batch") = Papers
        BY DEF Lifecycle!Items, Papers
      <3>5. idle' = idle
        BY DEF idle
      <3>6. UNCHANGED <<Of(column), Of(TRUE), Of([n \in {0} |-> 0]), {}, Of(0),
                        Lifecycle!calls, Lifecycle!counts>>
        BY <1>1, ColumnStands DEF Of, Lifecycle!calls, Lifecycle!counts
      <3> DEFINE pc == CASE rows' = Papers -> "commit"
                         [] rows' # Papers /\ Cardinality(rows') % CheckEvery = 0 -> "check"
                         [] OTHER -> "grade"
      <3>7. Lifecycle!Cardinality(rows') = Cardinality(rows')
        BY DEF Lifecycle!Cardinality, Cardinality
      <3>8. gradingPc' = pc
        BY <2>7
      <3>9. [r \in {"worker", "batch"} |-> IF r = "worker" THEN attempt ELSE idle]' =
              [[r \in {"worker", "batch"} |-> IF r = "worker" THEN attempt ELSE idle]
                 EXCEPT !["worker"].done = rows', !["worker"].verdicts = @ \cup {v},
                        !["worker"].pc = pc]
        <4> HIDE DEF pc
        <4> DEFINE A(p, d, w) == [pc |-> p, task |-> "batch", retries |-> 0,
                                  done |-> d, verdicts |-> w]
                   Run(a, b) == [r \in {"worker", "batch"} |-> IF r = "worker" THEN a ELSE b]
                   old == A(gradingPc, rows, StoredVerdicts)
                   new == A(pc, rows', StoredVerdicts \cup {v})
        <4>1. attempt = old /\ attempt' = new
          BY <2>4, <3>8, AttemptIs
        <4>2. Run(new, idle) =
                [Run(old, idle) EXCEPT
                   !["worker"].done = rows', !["worker"].verdicts = @ \cup {v},
                   !["worker"].pc = pc]
          OBVIOUS
        <4> HIDE DEF A, Run
        <4>3. Run(attempt, idle)' = Run(new, idle) /\ Run(attempt, idle) = Run(old, idle)
          BY <3>5, <4>1 DEF Run
        <4> HIDE DEF old, new
        <4>4. Run(attempt, idle)' =
                [Run(attempt, idle) EXCEPT
                   !["worker"].done = rows', !["worker"].verdicts = @ \cup {v},
                   !["worker"].pc = pc]
          BY <4>2, <4>3
        <4> QED BY <4>4 DEF Run
      <3>10. [r \in {"worker", "batch"} |-> IF r = "worker" THEN attempt ELSE idle]["worker"]
               = attempt
        OBVIOUS
      <3> QED BY <1>2, <2>1, <2>2, <3>1, <3>2, <3>3, <3>4, <3>6, <3>7, <3>9, <3>10
          DEF Lifecycle!GradeItem
    <2> QED BY <2>1, <2>3, <2>9 DEF AttemptMoves, GradingStep, v
  <1>5. [loop EXCEPT !.pc = "report"].pc = "report"
        /\ [loop EXCEPT !.pc = "raised", !.got = {}].pc = "raised"
    BY DEF BatchInv, LoopInv
  <1> QED BY <1>3, <1>4, <1>5 DEF StoreRow

LEMMA RevokeCancels ==
  ASSUME BatchInv, Revoke
  PROVE  AttemptMoves
  <1>1. Lifecycle!UpdateTaskStatus("batch", Lifecycle!Cancelled("batch"))
    <2>1. ~revoked /\ revoked'
      BY DEF Revoke
    <2>2. /\ column.status = "PROCESSING"
          /\ column' = [column EXCEPT !.status = "CANCELLED",
                                      !.fallback = "TEACHER_CANCELLED"]
      <3> DEFINE C(s, f) == [status |-> s, celeryId |-> "celery", grading |-> "null",
                             review |-> "NOT_REQUIRED", fallback |-> f]
      <3>1. column = C("PROCESSING", "null") /\ column' = C("CANCELLED", "TEACHER_CANCELLED")
        BY <2>1 DEF column
      <3>2. [C("PROCESSING", "null") EXCEPT !.status = "CANCELLED"] = C("CANCELLED", "null")
        OBVIOUS
      <3>4. [C("CANCELLED", "null") EXCEPT !.fallback = "TEACHER_CANCELLED"]
              = C("CANCELLED", "TEACHER_CANCELLED")
        OBVIOUS
      <3>3. C("PROCESSING", "null").status = "PROCESSING"
        OBVIOUS
      <3> HIDE DEF C
      <3> QED BY <3>1, <3>2, <3>3, <3>4
    <2>3. Lifecycle!Outranks("CANCELLED", "PROCESSING")
      BY DEF Lifecycle!Outranks, Lifecycle!Weight, Lifecycle!Statuses
    <2> QED BY <2>2, <2>3 DEF Lifecycle!UpdateTaskStatus, Lifecycle!Cancelled, Of
  <1> QED BY <1>1 DEF AttemptMoves, TeacherCancels

LEMMA BatchGrades == BatchInv /\ [BatchNext]_batchVars => AttemptMoves
  <1> SUFFICES ASSUME BatchInv, [BatchNext]_batchVars PROVE AttemptMoves
    OBVIOUS
  <1>1. ASSUME NEW k \in ApiKeys, QwenKeyCools(k) PROVE AttemptMoves
    BY <1>1, Stuttering DEF QwenKeyCools, gradingPc
  <1>2. CASE UNCHANGED batchVars
    BY <1>2, Stuttering DEF batchVars, gradingPc
  <1> QED BY <1>1, <1>2, JobsStandBy, NextPaperGrades, TakeResultGrades, StoreRowGrades,
             ReportGrades, RevokeCancels
      DEF BatchNext, LoopStep

(* Inside and outside of an attempt agree: whatever its jobs do, in        *)
(* whatever order they complete, and wherever the loop is left, what       *)
(* TaskLifecycle sees is an attempt that stores one paper after the other, *)
(* each with its hygiene record, looks at the status after every           *)
(* CheckEvery papers, raises, or goes on to commit with all its papers or  *)
(* a cancelled task; what is proved of TaskLifecycle's attempts holds of   *)
(* this one.                                                               *)
THEOREM BatchImplementsAttempt == BatchSpec => GradesAsAttempt
  <1>1. BatchInit => gradingPc = "grade" /\ rows = {}
    <2>1. {} # Papers
      BY BatchAssumption DEF BatchAssumption, Papers
    <2> QED BY <2>1 DEF BatchInit, gradingPc
  <1>2. BatchInv /\ [BatchNext]_batchVars => [GradingStep \/ TeacherCancels]_lifecycleVars
    BY BatchGrades DEF AttemptMoves
  <1> QED BY <1>1, <1>2, BatchKeeps, PTL DEF BatchSpec, GradesAsAttempt
=============================================================================
