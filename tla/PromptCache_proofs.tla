------------------------- MODULE PromptCache_proofs -------------------------
(***************************************************************************)
(* For any number of requests, versions, payloads, outages and             *)
(* invalidations: the provider's state keeps its type, a prompt is         *)
(* rendered by one task at a time, and what comes out of a cache or from   *)
(* the source belongs to the request it answers; and that the routing of   *)
(* its callers to variants is steady.                                      *)
(***************************************************************************)
EXTENDS PromptCache, PromptRouting, FiniteSetTheorems, SequenceTheorems,
  WellFoundedInduction, TLAPS

(* Every entry is filed under the payload it was rendered from.            *)
EntriesFiled ==
  /\ \A k \in CacheKeys : l1[k] # NoEntry => l1[k].prompt.payload = k.payload
  /\ \A k \in CacheKeys : l2[k] # NoPrompt => l2[k].payload = k.payload

(* Whoever is on the way to a cache carries its own key and prompt.        *)
CarriesOwn(r) ==
  /\ req[r].pc \in {"l2", "lock", "store"} =>
       req[r].key \in CacheKeys /\ req[r].key.payload = req[r].payload
  /\ req[r].pc = "store" =>
       req[r].built \in Prompts /\ req[r].built.payload = req[r].payload

RefreshCarriesOwn(k) ==
  refresh[k].pc = "store" =>
    refresh[k].built \in Prompts /\ refresh[k].built.payload = k.payload

CarriedOwn ==
  /\ \A r \in Requests : CarriesOwn(r)
  /\ \A k \in CacheKeys : RefreshCarriesOwn(k)

PromptInv ==
  PromptTypeOK /\ EntriesFiled /\ CarriedOwn /\ SingleFlight /\ CachedPromptIsOwn
-----------------------------------------------------------------------------
LEMMA KeyIsKey ==
  ASSUME NEW version \in Versions, NEW payload \in Payloads
  PROVE  /\ Key(version, payload) \in CacheKeys
         /\ Key(version, payload).payload = payload
         /\ Rendered(version, payload) \in Prompts
         /\ Rendered(version, payload).payload = payload
  BY DEF Key, Rendered, CacheKeys, Prompts

(* A payload of a key is a payload.                                        *)
LEMMA KeyPayload == \A k \in CacheKeys : k.payload \in Payloads
  BY DEF CacheKeys, Prompts

(* Builds: the file has a version then.                                    *)
LEMMA BuildsVersion ==
  ASSUME PromptTypeOK, NEW payload, Builds(payload)
  PROVE  file \in Versions
  BY DEF PromptTypeOK, Builds
-----------------------------------------------------------------------------
(* What an answer does to the state, of whichever level.                   *)
LEMMA AnswerType ==
  ASSUME PromptTypeOK, NEW r \in Requests, NEW payload \in Payloads,
         NEW level, NEW prompt, Answer(r, payload, level, prompt),
         \/ level \in {"CACHE", "LKG"} /\ prompt \in Prompts
         \/ level = "error" /\ prompt = NoPrompt
  PROVE  req' \in [Requests -> RequestStates]
  <1>1. [level |-> level, prompt |-> prompt] \in Answers
    BY DEF Answers
  <1>2. [pc |-> "done", payload |-> payload, key |-> NoPrompt, built |-> NoPrompt,
         answer |-> [level |-> level, prompt |-> prompt]] \in RequestStates
    BY <1>1 DEF RequestStates
  <1> QED
    BY <1>2 DEF PromptTypeOK, Answer

LEMMA FallBackAnswers ==
  ASSUME PromptTypeOK, NEW r \in Requests, NEW payload \in Payloads,
         FallBack(r, payload)
  PROVE  /\ req' \in [Requests -> RequestStates]
         /\ \E level \in {"LKG", "error"} : \E prompt : Answer(r, payload, level, prompt)
  <1>1. CASE lkg # NoPrompt
    <2>1. Answer(r, payload, "LKG", lkg)
      BY <1>1 DEF FallBack
    <2>2. lkg \in Prompts
      BY <1>1 DEF PromptTypeOK
    <2> QED
      BY <2>1, <2>2, AnswerType
  <1>2. CASE lkg = NoPrompt
    <2>1. Answer(r, payload, "error", NoPrompt)
      BY <1>2 DEF FallBack
    <2> QED
      BY <2>1, AnswerType
  <1> QED
    BY <1>1, <1>2

(* An answer leaves every other request where it is; its own is done, with *)
(* the payload it came with.                                               *)
LEMMA AnswerEnds ==
  ASSUME PromptTypeOK, NEW r \in Requests, NEW payload, NEW level, NEW prompt,
         Answer(r, payload, level, prompt)
  PROVE  /\ \A q \in Requests \ {r} : req'[q] = req[q]
         /\ req'[r].pc = "done"
         /\ req'[r].payload = payload
         /\ req'[r].answer.level = level
         /\ req'[r].answer.prompt = prompt
  BY DEF PromptTypeOK, Answer

LEMMA EnterType ==
  ASSUME PromptTypeOK, NEW k \in CacheKeys, NEW prompt \in Prompts
  PROVE  Enter(k, prompt) \in [CacheKeys -> Entries]
  <1>1. [age |-> "fresh", prompt |-> prompt] \in Entries
    BY DEF Entries
  <1> QED
    BY <1>1 DEF PromptTypeOK, Enter
-----------------------------------------------------------------------------
(***************************************************************************)
(* Type correctness.                                                       *)
(***************************************************************************)
LEMMA LookupType ==
  ASSUME PromptTypeOK, NEW r \in Requests, NEW payload \in Payloads, Lookup(r, payload)
  PROVE  PromptTypeOK'
  <1>1. CASE lkgMode \/ file = Missing
    <2>1. FallBack(r, payload) /\ UNCHANGED refresh
      BY <1>1 DEF Lookup
    <2> QED
      BY <2>1, FallBackAnswers DEF PromptTypeOK, Lookup
  <1>2. CASE ~(lkgMode \/ file = Missing)
    <2> DEFINE k == Key(file, payload)
    <2>1. k \in CacheKeys
      BY <1>2, KeyIsKey DEF PromptTypeOK
    <2>2. refresh' \in [CacheKeys -> [pc : {"none", "lock", "store"},
                                     built : Prompts \cup {NoPrompt}]]
      BY <1>2, <2>1 DEF PromptTypeOK, Lookup
    <2>3. CASE l1[k] = NoEntry
      <3>1. [pc |-> "l2", payload |-> payload, key |-> k, built |-> NoPrompt,
             answer |-> NoAnswer] \in RequestStates
        BY <2>1 DEF RequestStates, Answers
      <3> QED
        BY <1>2, <2>2, <2>3, <3>1 DEF PromptTypeOK, Lookup
    <2>4. CASE l1[k] # NoEntry
      <3>1. l1[k].prompt \in Prompts
        BY <2>1, <2>4 DEF PromptTypeOK, Entries
      <3>2. Answer(r, payload, "CACHE", l1[k].prompt)
        BY <1>2, <2>4 DEF Lookup
      <3>3. req' \in [Requests -> RequestStates]
        BY <3>1, <3>2, AnswerType
      <3> QED
        BY <2>2, <3>3 DEF PromptTypeOK, Lookup
    <2> QED
      BY <2>3, <2>4
  <1> QED
    BY <1>1, <1>2

LEMMA HitL2Type ==
  ASSUME PromptTypeOK, CarriedOwn, NEW r \in Requests, HitL2(r)
  PROVE  PromptTypeOK'
  <1>1. req[r].key \in CacheKeys
    BY DEF HitL2, CarriedOwn, CarriesOwn
  <1>2. l2[req[r].key] \in Prompts
    BY <1>1 DEF PromptTypeOK, HitL2
  <1>3. l1' \in [CacheKeys -> Entries]
    BY <1>1, <1>2, EnterType DEF HitL2
  <1>4. req' \in [Requests -> RequestStates]
    <2>1. req[r].payload \in Payloads
      BY DEF PromptTypeOK, RequestStates
    <2> QED
      BY <1>2, <2>1, AnswerType DEF HitL2
  <1> QED
    BY <1>3, <1>4 DEF PromptTypeOK, HitL2

(* Both ways from Redis to the lock.                                       *)
LEMMA ToLockType ==
  ASSUME PromptTypeOK, NEW r \in Requests, MissL2(r) \/ L2Fails(r)
  PROVE  PromptTypeOK'
  <1>1. [req[r] EXCEPT !.pc = "lock"] \in RequestStates
    BY DEF PromptTypeOK, RequestStates
  <1>2. req' = [req EXCEPT ![r] = [req[r] EXCEPT !.pc = "lock"]]
    BY DEF MissL2, L2Fails
  <1>3. req' \in [Requests -> RequestStates]
    BY <1>1, <1>2 DEF PromptTypeOK
  <1>4. outages' \in 0..MaxOutages
    BY PromptAssumption DEF PromptTypeOK, MissL2, L2Fails
  <1> QED
    BY <1>3, <1>4 DEF PromptTypeOK, MissL2, L2Fails

LEMMA LockedType ==
  ASSUME PromptTypeOK, CarriedOwn, NEW r \in Requests, Locked(r)
  PROVE  PromptTypeOK'
  <1> DEFINE k == req[r].key
  <1>1. k \in CacheKeys
    BY DEF Locked, CarriedOwn, CarriesOwn
  <1>2. req[r].payload \in Payloads /\ req[r] \in RequestStates
    BY DEF PromptTypeOK, RequestStates
  <1>3. CASE l1[k] # NoEntry
    <2>1. Answer(r, req[r].payload, "CACHE", l1[k].prompt) /\ UNCHANGED lock
      BY <1>3 DEF Locked
    <2>2. l1[k].prompt \in Prompts
      BY <1>1, <1>3 DEF PromptTypeOK, Entries
    <2>3. req' \in [Requests -> RequestStates]
      BY <1>2, <2>1, <2>2, AnswerType
    <2> QED
      BY <2>1, <2>3 DEF PromptTypeOK, Locked
  <1>4. CASE l1[k] = NoEntry /\ Builds(req[r].payload)
    <2>1. /\ lock' = [lock EXCEPT ![k] = r]
          /\ req' = [req EXCEPT ![r].pc = "store",
                                ![r].built = Rendered(file, req[r].payload)]
      BY <1>4 DEF Locked
    <2>2. Rendered(file, req[r].payload) \in Prompts
      BY <1>2, <1>4, BuildsVersion, KeyIsKey
    <2>3. [req[r] EXCEPT !.pc = "store", !.built = Rendered(file, req[r].payload)]
            \in RequestStates
      BY <1>2, <2>2 DEF RequestStates
    <2>4. req' \in [Requests -> RequestStates]
      BY <2>1, <2>3 DEF PromptTypeOK
    <2> QED
      BY <1>1, <2>1, <2>4 DEF PromptTypeOK, Locked
  <1>5. CASE l1[k] = NoEntry /\ ~Builds(req[r].payload)
    <2>1. FallBack(r, req[r].payload) /\ UNCHANGED lock
      BY <1>5 DEF Locked
    <2>2. req' \in [Requests -> RequestStates]
      BY <1>2, <2>1, FallBackAnswers
    <2> QED
      BY <2>1, <2>2 DEF PromptTypeOK, Locked
  <1> QED
    BY <1>3, <1>4, <1>5

LEMMA StoreType ==
  ASSUME PromptTypeOK, CarriedOwn, NEW r \in Requests, NEW reached \in BOOLEAN,
         Store(r, reached)
  PROVE  PromptTypeOK'
  <1>1. req[r].key \in CacheKeys /\ req[r].built \in Prompts
    BY DEF Store, CarriedOwn, CarriesOwn
  <1>2. l1' \in [CacheKeys -> Entries]
    BY <1>1, EnterType DEF Store
  <1>3. req' \in [Requests -> RequestStates]
    <2>1. req[r].payload \in Payloads
      BY DEF PromptTypeOK, RequestStates
    <2> QED
      BY <1>1, <2>1, AnswerType DEF Store
  <1>4. outages' \in 0..MaxOutages
    BY PromptAssumption DEF PromptTypeOK, Store
  <1>5. l2' \in [CacheKeys -> Prompts \cup {NoPrompt}]
    BY <1>1 DEF PromptTypeOK, Store
  <1>6. lock' \in [CacheKeys -> Requests \cup {Refresher, Nobody}] /\ lkg' \in Prompts
    BY <1>1 DEF PromptTypeOK, Store
  <1> QED
    BY <1>2, <1>3, <1>4, <1>5, <1>6 DEF PromptTypeOK, Store

LEMMA RefreshLockedType ==
  ASSUME PromptTypeOK, NEW k \in CacheKeys, RefreshLocked(k)
  PROVE  PromptTypeOK'
  <1>1. CASE Builds(k.payload)
    <2>1. Rendered(file, k.payload) \in Prompts
      BY <1>1, BuildsVersion, KeyPayload, KeyIsKey
    <2>2. /\ refresh' = [refresh EXCEPT
                 ![k] = [pc |-> "store", built |-> Rendered(file, k.payload)]]
          /\ lock' = [lock EXCEPT ![k] = Refresher]
      BY <1>1 DEF RefreshLocked
    <2>3. refresh' \in [CacheKeys -> [pc : {"none", "lock", "store"},
                                     built : Prompts \cup {NoPrompt}]]
      BY <2>1, <2>2 DEF PromptTypeOK
    <2>4. lock' \in [CacheKeys -> Requests \cup {Refresher, Nobody}]
      BY <2>2 DEF PromptTypeOK
    <2> QED
      BY <2>3, <2>4 DEF PromptTypeOK, RefreshLocked
  <1>2. CASE ~Builds(k.payload)
    BY <1>2 DEF PromptTypeOK, RefreshLocked
  <1> QED
    BY <1>1, <1>2

LEMMA RefreshStoreType ==
  ASSUME PromptTypeOK, CarriedOwn, NEW k \in CacheKeys, RefreshStore(k)
  PROVE  PromptTypeOK'
  <1>1. refresh[k].built \in Prompts
    BY DEF RefreshStore, CarriedOwn, RefreshCarriesOwn
  <1>2. l1' \in [CacheKeys -> Entries]
    BY <1>1, EnterType DEF RefreshStore
  <1>3. l2' \in [CacheKeys -> Prompts \cup {NoPrompt}]
    BY <1>1 DEF PromptTypeOK, RefreshStore
  <1> QED
    BY <1>2, <1>3 DEF PromptTypeOK, RefreshStore

(* Time, deployments and the console.                                      *)
LEMMA TimeType ==
  ASSUME PromptTypeOK, NEW k \in CacheKeys, GrowStale(k) \/ ExpireL1(k) \/ ExpireL2(k)
  PROVE  PromptTypeOK'
  <1>1. CASE GrowStale(k)
    <2>1. [l1[k] EXCEPT !.age = "stale"] \in Entries
      BY <1>1 DEF PromptTypeOK, GrowStale, Entries, NoEntry
    <2>2. l1' = [l1 EXCEPT ![k] = [l1[k] EXCEPT !.age = "stale"]]
      BY <1>1 DEF GrowStale
    <2> QED
      BY <1>1, <2>1, <2>2 DEF PromptTypeOK, GrowStale
  <1>2. CASE ExpireL1(k)
    BY <1>2 DEF PromptTypeOK, ExpireL1, Entries
  <1>3. CASE ExpireL2(k)
    BY <1>3 DEF PromptTypeOK, ExpireL2
  <1> QED
    BY <1>1, <1>2, <1>3

LEMMA ConsoleType ==
  ASSUME PromptTypeOK, \/ \E v \in Versions \cup {Missing} : Deploy(v)
                       \/ SwitchLkg \/ InvalidateL1 \/ InvalidateL2
  PROVE  PromptTypeOK'
  <1>1. CASE \E v \in Versions \cup {Missing} : Deploy(v)
    BY <1>1, PromptAssumption DEF PromptTypeOK, Deploy
  <1>2. CASE SwitchLkg
    BY <1>2, PromptAssumption DEF PromptTypeOK, SwitchLkg
  <1>3. CASE InvalidateL1
    <2>1. [k \in CacheKeys |-> NoEntry] \in [CacheKeys -> Entries]
      BY DEF Entries
    <2> QED
      BY <1>3, <2>1, PromptAssumption DEF PromptTypeOK, InvalidateL1
  <1>4. CASE InvalidateL2
    BY <1>4 DEF PromptTypeOK, InvalidateL2
  <1> QED
    BY <1>1, <1>2, <1>3, <1>4
-----------------------------------------------------------------------------
(***************************************************************************)
(* Entries are filed under the payload they were rendered from.            *)
(***************************************************************************)
LEMMA EnterFiles ==
  ASSUME PromptTypeOK, EntriesFiled, NEW k \in CacheKeys, NEW prompt \in Prompts,
         prompt.payload = k.payload, l1' = Enter(k, prompt)
  PROVE  \A j \in CacheKeys : l1'[j] # NoEntry => l1'[j].prompt.payload = j.payload
  BY DEF PromptTypeOK, EntriesFiled, Enter

LEMMA RequestFiles ==
  ASSUME PromptTypeOK, EntriesFiled, CarriedOwn, NEW r \in Requests,
         HitL2(r) \/ \E reached \in BOOLEAN : Store(r, reached)
  PROVE  EntriesFiled'
  <1>1. CASE HitL2(r)
    <2>1. req[r].key \in CacheKeys
      BY <1>1 DEF HitL2, CarriedOwn, CarriesOwn
    <2>2. l2[req[r].key] \in Prompts /\ l2[req[r].key].payload = req[r].key.payload
      BY <1>1, <2>1 DEF PromptTypeOK, HitL2, EntriesFiled
    <2> QED
      BY <1>1, <2>1, <2>2, EnterFiles DEF HitL2, EntriesFiled
  <1>2. ASSUME NEW reached \in BOOLEAN, Store(r, reached) PROVE EntriesFiled'
    <2>1. /\ req[r].key \in CacheKeys /\ req[r].built \in Prompts
          /\ req[r].built.payload = req[r].key.payload
      BY <1>2 DEF Store, CarriedOwn, CarriesOwn
    <2>2. \A j \in CacheKeys : l1'[j] # NoEntry => l1'[j].prompt.payload = j.payload
      BY <1>2, <2>1, EnterFiles DEF Store
    <2>3. \A j \in CacheKeys : l2'[j] # NoPrompt => l2'[j].payload = j.payload
      BY <1>2, <2>1 DEF Store, PromptTypeOK, EntriesFiled
    <2> QED
      BY <2>2, <2>3 DEF EntriesFiled
  <1> QED
    BY <1>1, <1>2

LEMMA RefreshFiles ==
  ASSUME PromptTypeOK, EntriesFiled, CarriedOwn, NEW k \in CacheKeys, RefreshStore(k)
  PROVE  EntriesFiled'
  <1>1. refresh[k].built \in Prompts /\ refresh[k].built.payload = k.payload
    BY DEF RefreshStore, CarriedOwn, RefreshCarriesOwn
  <1>2. \A j \in CacheKeys : l1'[j] # NoEntry => l1'[j].prompt.payload = j.payload
    BY <1>1, EnterFiles DEF RefreshStore
  <1>3. \A j \in CacheKeys : l2'[j] # NoPrompt => l2'[j].payload = j.payload
    BY <1>1 DEF RefreshStore, PromptTypeOK, EntriesFiled
  <1> QED
    BY <1>2, <1>3 DEF EntriesFiled

LEMMA TimeFiles ==
  ASSUME PromptTypeOK, EntriesFiled, NEW k \in CacheKeys,
         GrowStale(k) \/ ExpireL1(k) \/ ExpireL2(k)
  PROVE  EntriesFiled'
  <1>1. CASE GrowStale(k)
    <2>1. l1[k] # NoEntry
      BY <1>1 DEF GrowStale, NoEntry
    <2>2. l1'[k].prompt = l1[k].prompt
      BY <1>1, <2>1 DEF GrowStale, PromptTypeOK, Entries
    <2>3. \A j \in CacheKeys \ {k} : l1'[j] = l1[j]
      BY <1>1 DEF GrowStale, PromptTypeOK
    <2> QED
      BY <1>1, <2>1, <2>2, <2>3 DEF GrowStale, EntriesFiled
  <1>2. CASE ExpireL1(k)
    BY <1>2 DEF ExpireL1, PromptTypeOK, EntriesFiled
  <1>3. CASE ExpireL2(k)
    BY <1>3 DEF ExpireL2, PromptTypeOK, EntriesFiled
  <1> QED
    BY <1>1, <1>2, <1>3

LEMMA ConsoleFiles ==
  ASSUME EntriesFiled, InvalidateL1 \/ InvalidateL2
  PROVE  EntriesFiled'
  BY DEF InvalidateL1, InvalidateL2, EntriesFiled
-----------------------------------------------------------------------------
(***************************************************************************)
(* Requests and refreshes carry their own keys and prompts.                *)
(***************************************************************************)
LEMMA AnswerCarries ==
  ASSUME PromptTypeOK, CarriedOwn, NEW r \in Requests, NEW payload, NEW level,
         NEW prompt, Answer(r, payload, level, prompt)
  PROVE  \A q \in Requests : CarriesOwn(q)'
  <1>1. CarriesOwn(r)'
    BY AnswerEnds DEF CarriesOwn
  <1>2. ASSUME NEW q \in Requests \ {r} PROVE CarriesOwn(q)'
    BY <1>2, AnswerEnds DEF CarriedOwn, CarriesOwn
  <1> QED
    BY <1>1, <1>2

LEMMA LookupCarries ==
  ASSUME PromptTypeOK, CarriedOwn, NEW r \in Requests, NEW payload \in Payloads,
         Lookup(r, payload)
  PROVE  CarriedOwn'
  <1>1. \A k \in CacheKeys : RefreshCarriesOwn(k)'
    BY DEF Lookup, PromptTypeOK, CarriedOwn, RefreshCarriesOwn
  <1>2. CASE lkgMode \/ file = Missing
    <2>1. \E level \in {"LKG", "error"} : \E prompt : Answer(r, payload, level, prompt)
      BY <1>2, FallBackAnswers DEF Lookup
    <2> QED
      BY <1>1, <2>1, AnswerCarries DEF CarriedOwn
  <1>3. CASE ~(lkgMode \/ file = Missing)
    <2> DEFINE k == Key(file, payload)
    <2>1. k \in CacheKeys /\ k.payload = payload
      BY <1>3, KeyIsKey DEF PromptTypeOK
    <2>2. CASE l1[k] = NoEntry
      <3>1. req' = [req EXCEPT ![r] = [pc |-> "l2", payload |-> payload, key |-> k,
                                       built |-> NoPrompt, answer |-> NoAnswer]]
        BY <1>3, <2>2 DEF Lookup
      <3>2. \A q \in Requests : CarriesOwn(q)'
        BY <2>1, <3>1 DEF PromptTypeOK, CarriedOwn, CarriesOwn
      <3> QED
        BY <1>1, <3>2 DEF CarriedOwn
    <2>3. CASE l1[k] # NoEntry
      <3>1. Answer(r, payload, "CACHE", l1[k].prompt)
        BY <1>3, <2>3 DEF Lookup
      <3> QED
        BY <1>1, <3>1, AnswerCarries DEF CarriedOwn
    <2> QED
      BY <2>2, <2>3
  <1> QED
    BY <1>2, <1>3

LEMMA RedisCarries ==
  ASSUME PromptTypeOK, CarriedOwn, NEW r \in Requests, AtRedis(r)
  PROVE  CarriedOwn'
  <1>1. UNCHANGED refresh
    BY DEF AtRedis, HitL2, MissL2, L2Fails, Store
  <1>2. \A k \in CacheKeys : RefreshCarriesOwn(k)'
    BY <1>1 DEF CarriedOwn, RefreshCarriesOwn
  <1>3. CASE MissL2(r) \/ L2Fails(r)
    <2>1. req' = [req EXCEPT ![r].pc = "lock"] /\ req[r].pc = "l2"
      BY <1>3 DEF MissL2, L2Fails
    <2>2. \A q \in Requests : CarriesOwn(q)'
      BY <2>1 DEF PromptTypeOK, RequestStates, CarriedOwn, CarriesOwn
    <2> QED
      BY <1>2, <2>2 DEF CarriedOwn
  <1>4. CASE HitL2(r) \/ \E reached \in BOOLEAN : Store(r, reached)
    <2>1. \E prompt : Answer(r, req[r].payload, "CACHE", prompt)
      BY <1>4 DEF HitL2, Store
    <2> QED
      BY <1>2, <2>1, AnswerCarries DEF CarriedOwn
  <1> QED
    BY <1>3, <1>4 DEF AtRedis

LEMMA LockedCarries ==
  ASSUME PromptTypeOK, CarriedOwn, NEW r \in Requests, Locked(r)
  PROVE  CarriedOwn'
  <1> DEFINE k == req[r].key
  <1>1. \A j \in CacheKeys : RefreshCarriesOwn(j)'
    BY DEF Locked, CarriedOwn, RefreshCarriesOwn
  <1>2. req[r].payload \in Payloads
    BY DEF PromptTypeOK, RequestStates
  <1>3. CASE l1[k] = NoEntry /\ Builds(req[r].payload)
    <2>1. req' = [req EXCEPT ![r].pc = "store",
                             ![r].built = Rendered(file, req[r].payload)]
      BY <1>3 DEF Locked
    <2>2. /\ Rendered(file, req[r].payload) \in Prompts
          /\ Rendered(file, req[r].payload).payload = req[r].payload
      BY <1>2, <1>3, BuildsVersion, KeyIsKey
    <2>3. req[r].key \in CacheKeys /\ req[r].key.payload = req[r].payload
      BY DEF Locked, CarriedOwn, CarriesOwn
    <2>4. CarriesOwn(r)'
      BY <2>1, <2>2, <2>3 DEF PromptTypeOK, RequestStates, CarriesOwn
    <2>5. ASSUME NEW q \in Requests \ {r} PROVE CarriesOwn(q)'
      BY <2>1, <2>5 DEF PromptTypeOK, CarriedOwn, CarriesOwn
    <2> QED
      BY <1>1, <2>4, <2>5 DEF CarriedOwn
  <1>4. CASE ~(l1[k] = NoEntry /\ Builds(req[r].payload))
    <2>1. \E level, prompt : Answer(r, req[r].payload, level, prompt)
      BY <1>2, <1>4, FallBackAnswers DEF Locked
    <2> QED
      BY <1>1, <2>1, AnswerCarries DEF CarriedOwn
  <1> QED
    BY <1>3, <1>4

LEMMA RefreshCarries ==
  ASSUME PromptTypeOK, CarriedOwn, NEW k \in CacheKeys,
         RefreshLocked(k) \/ RefreshStore(k)
  PROVE  CarriedOwn'
  <1>1. \A q \in Requests : CarriesOwn(q)'
    BY DEF RefreshLocked, RefreshStore, CarriedOwn, CarriesOwn
  <1>2. CASE RefreshStore(k)
    <2>1. \A j \in CacheKeys : RefreshCarriesOwn(j)'
      BY <1>2 DEF RefreshStore, PromptTypeOK, CarriedOwn, RefreshCarriesOwn
    <2> QED
      BY <1>1, <2>1 DEF CarriedOwn
  <1>3. CASE RefreshLocked(k) /\ Builds(k.payload)
    <2>1. refresh' = [refresh EXCEPT
                        ![k] = [pc |-> "store", built |-> Rendered(file, k.payload)]]
      BY <1>3 DEF RefreshLocked
    <2>2. /\ Rendered(file, k.payload) \in Prompts
          /\ Rendered(file, k.payload).payload = k.payload
      BY <1>3, BuildsVersion, KeyPayload, KeyIsKey
    <2>3. \A j \in CacheKeys : RefreshCarriesOwn(j)'
      BY <2>1, <2>2 DEF PromptTypeOK, CarriedOwn, RefreshCarriesOwn
    <2> QED
      BY <1>1, <2>3 DEF CarriedOwn
  <1>4. CASE RefreshLocked(k) /\ ~Builds(k.payload)
    <2>1. refresh' = [refresh EXCEPT ![k].pc = "none"]
      BY <1>4 DEF RefreshLocked
    <2>2. \A j \in CacheKeys : RefreshCarriesOwn(j)'
      BY <2>1 DEF PromptTypeOK, CarriedOwn, RefreshCarriesOwn
    <2> QED
      BY <1>1, <2>2 DEF CarriedOwn
  <1> QED
    BY <1>2, <1>3, <1>4
-----------------------------------------------------------------------------
(***************************************************************************)
(* Single flight.                                                          *)
(***************************************************************************)
LEMMA Holders == ASSUME NEW r \in Requests PROVE r # Nobody /\ r # Refresher
  BY PromptAssumption

LEMMA NobodyRefreshes == Nobody # Refresher
  BY DEF Nobody, Refresher

(* Nothing that renders begins or ends.                                    *)
LEMMA SameLocks ==
  ASSUME SingleFlight, UNCHANGED lock,
         \A r \in Requests : (req'[r].pc = "store") <=> (req[r].pc = "store"),
         \A r \in Requests : req[r].pc = "store" => req'[r].key = req[r].key,
         \A k \in CacheKeys : (refresh'[k].pc = "store") <=> (refresh[k].pc = "store")
  PROVE  SingleFlight'
  BY DEF SingleFlight

(* An answer to a request that renders nothing.                            *)
LEMMA AnswerLocks ==
  ASSUME PromptTypeOK, SingleFlight, NEW r \in Requests, NEW payload, NEW level,
         NEW prompt, Answer(r, payload, level, prompt), req[r].pc # "store",
         UNCHANGED lock,
         \A k \in CacheKeys : (refresh'[k].pc = "store") <=> (refresh[k].pc = "store")
  PROVE  SingleFlight'
  <1>1. \A q \in Requests : (req'[q].pc = "store") <=> (req[q].pc = "store")
    BY AnswerEnds
  <1>2. \A q \in Requests : req[q].pc = "store" => req'[q].key = req[q].key
    BY AnswerEnds
  <1> QED
    BY <1>1, <1>2, SameLocks

LEMMA LookupLocks ==
  ASSUME PromptTypeOK, SingleFlight, NEW r \in Requests, NEW payload \in Payloads,
         Lookup(r, payload)
  PROVE  SingleFlight'
  <1>1. \A k \in CacheKeys : (refresh'[k].pc = "store") <=> (refresh[k].pc = "store")
    BY DEF Lookup, PromptTypeOK
  <1>2. req[r].pc # "store" /\ UNCHANGED lock
    BY DEF Lookup
  <1>3. CASE \E level, prompt : Answer(r, payload, level, prompt)
    BY <1>1, <1>2, <1>3, AnswerLocks
  <1>4. CASE ~\E level, prompt : Answer(r, payload, level, prompt)
    <2>1. ~(lkgMode \/ file = Missing)
      BY <1>4, FallBackAnswers DEF Lookup
    <2>2. req' = [req EXCEPT ![r] = [pc |-> "l2", payload |-> payload,
                                     key |-> Key(file, payload),
                                     built |-> NoPrompt, answer |-> NoAnswer]]
      BY <1>4, <2>1 DEF Lookup
    <2>3. \A q \in Requests : (req'[q].pc = "store") <=> (req[q].pc = "store")
      BY <1>2, <2>2 DEF PromptTypeOK
    <2>4. \A q \in Requests : req[q].pc = "store" => req'[q].key = req[q].key
      BY <1>2, <2>2 DEF PromptTypeOK
    <2> QED
      BY <1>1, <1>2, <2>3, <2>4, SameLocks
  <1> QED
    BY <1>3, <1>4

LEMMA RedisLocks ==
  ASSUME PromptTypeOK, CarriedOwn, SingleFlight, NEW r \in Requests, AtRedis(r)
  PROVE  SingleFlight'
  <1>1. CASE MissL2(r) \/ L2Fails(r)
    <2>1. req' = [req EXCEPT ![r].pc = "lock"] /\ req[r].pc = "l2"
      BY <1>1 DEF MissL2, L2Fails
    <2>2. UNCHANGED <<lock, refresh>>
      BY <1>1 DEF MissL2, L2Fails
    <2> QED
      BY <2>1, <2>2, SameLocks DEF PromptTypeOK, RequestStates
  <1>2. CASE HitL2(r)
    <2>1. Answer(r, req[r].payload, "CACHE", l2[req[r].key])
      BY <1>2 DEF HitL2
    <2> QED
      BY <1>2, <2>1, AnswerLocks DEF HitL2
  <1>3. ASSUME NEW reached \in BOOLEAN, Store(r, reached) PROVE SingleFlight'
    <2>1. Answer(r, req[r].payload, "CACHE", req[r].built)
      BY <1>3 DEF Store
    <2>2. /\ req[r].pc = "store" /\ req[r].key \in CacheKeys
          /\ lock' = [lock EXCEPT ![req[r].key] = Nobody]
          /\ UNCHANGED refresh
      BY <1>3 DEF Store, CarriedOwn, CarriesOwn
    <2>3. lock[req[r].key] = r
      BY <2>2 DEF SingleFlight
    <2>4. req'[r].pc = "done" /\ \A q \in Requests \ {r} : req'[q] = req[q]
      BY <2>1, AnswerEnds
    <2>5. ASSUME NEW k \in CacheKeys, k # req[r].key
          PROVE  /\ \A q \in Requests : lock'[k] = q <=> (req'[q].pc = "store" /\ req'[q].key = k)
                 /\ lock'[k] = Refresher <=> refresh'[k].pc = "store"
      BY <2>2, <2>4, <2>5 DEF PromptTypeOK, SingleFlight
    <2>6. lock'[req[r].key] = Nobody
      BY <2>2 DEF PromptTypeOK
    <2>7. ASSUME NEW q \in Requests
          PROVE  ~(req'[q].pc = "store" /\ req'[q].key = req[r].key)
      <3>1. CASE q = r
        BY <3>1, <2>4
      <3>2. CASE q # r
        BY <3>2, <2>2, <2>3, <2>4, <2>7 DEF SingleFlight
      <3> QED
        BY <3>1, <3>2
    <2>8. refresh'[req[r].key].pc # "store"
      BY <2>2, <2>3, Holders DEF SingleFlight
    <2> QED
      BY <2>5, <2>6, <2>7, <2>8, Holders, NobodyRefreshes DEF SingleFlight
  <1> QED
    BY <1>1, <1>2, <1>3 DEF AtRedis

LEMMA LockedLocks ==
  ASSUME PromptTypeOK, CarriedOwn, SingleFlight, NEW r \in Requests, Locked(r)
  PROVE  SingleFlight'
  <1> DEFINE k == req[r].key
  <1>1. k \in CacheKeys /\ req[r].pc = "lock" /\ lock[k] = Nobody /\ UNCHANGED refresh
    BY DEF Locked, Free, CarriedOwn, CarriesOwn
  <1>2. req[r].payload \in Payloads
    BY DEF PromptTypeOK, RequestStates
  <1>3. CASE l1[k] = NoEntry /\ Builds(req[r].payload)
    <2>1. /\ lock' = [lock EXCEPT ![k] = r]
          /\ req' = [req EXCEPT ![r].pc = "store",
                                ![r].built = Rendered(file, req[r].payload)]
      BY <1>3 DEF Locked
    <2>2. /\ req'[r].pc = "store" /\ req'[r].key = k
          /\ \A q \in Requests \ {r} : req'[q] = req[q]
      BY <2>1 DEF PromptTypeOK, RequestStates
    <2>3. lock'[k] = r /\ \A j \in CacheKeys \ {k} : lock'[j] = lock[j]
      BY <1>1, <2>1 DEF PromptTypeOK
    <2>4. \A q \in Requests : ~(req[q].pc = "store" /\ req[q].key = k)
      BY <1>1, Holders DEF SingleFlight
    <2>5. refresh[k].pc # "store"
      BY <1>1, NobodyRefreshes DEF SingleFlight
    <2>6. \A q \in Requests : lock'[k] = q <=> (req'[q].pc = "store" /\ req'[q].key = k)
      BY <2>2, <2>3, <2>4
    <2>7. ASSUME NEW j \in CacheKeys \ {k}, NEW q \in Requests
          PROVE  lock'[j] = q <=> (req'[q].pc = "store" /\ req'[q].key = j)
      BY <1>1, <2>2, <2>3, <2>7 DEF SingleFlight
    <2>8. \A j \in CacheKeys : lock'[j] = Refresher <=> refresh'[j].pc = "store"
      BY <1>1, <2>3, <2>5, Holders DEF SingleFlight
    <2> QED
      BY <2>6, <2>7, <2>8 DEF SingleFlight
  <1>4. CASE ~(l1[k] = NoEntry /\ Builds(req[r].payload))
    <2>1. \E level, prompt : Answer(r, req[r].payload, level, prompt)
      BY <1>2, <1>4, FallBackAnswers DEF Locked
    <2>2. UNCHANGED lock
      BY <1>4 DEF Locked
    <2> QED
      BY <1>1, <2>1, <2>2, AnswerLocks
  <1> QED
    BY <1>3, <1>4

LEMMA RefreshLocks ==
  ASSUME PromptTypeOK, SingleFlight, NEW k \in CacheKeys,
         RefreshLocked(k) \/ RefreshStore(k)
  PROVE  SingleFlight'
  <1>1. CASE RefreshLocked(k) /\ ~Builds(k.payload)
    <2>1. UNCHANGED <<lock, req>> /\ refresh' = [refresh EXCEPT ![k].pc = "none"]
      BY <1>1 DEF RefreshLocked
    <2>2. refresh[k].pc # "store"
      BY <1>1 DEF RefreshLocked
    <2>3. \A j \in CacheKeys : (refresh'[j].pc = "store") <=> (refresh[j].pc = "store")
      BY <2>1, <2>2 DEF PromptTypeOK
    <2> QED
      BY <2>1, <2>3, SameLocks
  <1>2. CASE RefreshLocked(k) /\ Builds(k.payload)
    <2>1. /\ refresh' = [refresh EXCEPT
               ![k] = [pc |-> "store", built |-> Rendered(file, k.payload)]]
          /\ lock' = [lock EXCEPT ![k] = Refresher]
          /\ lock[k] = Nobody /\ UNCHANGED req
      BY <1>2 DEF RefreshLocked, Free
    <2>2. \A q \in Requests : ~(req[q].pc = "store" /\ req[q].key = k)
      BY <2>1, Holders DEF SingleFlight
    <2>3. /\ lock'[k] = Refresher /\ refresh'[k].pc = "store"
          /\ \A j \in CacheKeys \ {k} : lock'[j] = lock[j] /\ refresh'[j] = refresh[j]
      BY <2>1 DEF PromptTypeOK
    <2> QED
      BY <2>1, <2>2, <2>3, Holders DEF SingleFlight
  <1>3. CASE RefreshStore(k)
    <2>1. /\ refresh' = [refresh EXCEPT ![k] = [pc |-> "none", built |-> NoPrompt]]
          /\ lock' = [lock EXCEPT ![k] = Nobody]
          /\ refresh[k].pc = "store" /\ UNCHANGED req
      BY <1>3 DEF RefreshStore
    <2>2. lock[k] = Refresher
      BY <2>1 DEF SingleFlight
    <2>3. \A q \in Requests : ~(req[q].pc = "store" /\ req[q].key = k)
      BY <2>2, Holders DEF SingleFlight
    <2>4. /\ lock'[k] = Nobody /\ refresh'[k].pc = "none"
          /\ \A j \in CacheKeys \ {k} : lock'[j] = lock[j] /\ refresh'[j] = refresh[j]
      BY <2>1 DEF PromptTypeOK
    <2> QED
      BY <2>1, <2>3, <2>4, Holders, NobodyRefreshes DEF SingleFlight
  <1> QED
    BY <1>1, <1>2, <1>3
-----------------------------------------------------------------------------
(***************************************************************************)
(* Answers from a cache or the source.                                     *)
(***************************************************************************)
LEMMA AnswerOwn ==
  ASSUME PromptTypeOK, CachedPromptIsOwn, NEW r \in Requests, NEW payload,
         NEW level, NEW prompt, Answer(r, payload, level, prompt),
         level = "CACHE" => prompt.payload = payload
  PROVE  CachedPromptIsOwn'
  BY AnswerEnds DEF CachedPromptIsOwn

LEMMA FallBackOwn ==
  ASSUME PromptTypeOK, CachedPromptIsOwn, NEW r \in Requests,
         NEW payload \in Payloads, FallBack(r, payload)
  PROVE  CachedPromptIsOwn'
  <1>1. \E level \in {"LKG", "error"} : \E prompt : Answer(r, payload, level, prompt)
    BY FallBackAnswers
  <1> QED
    BY <1>1, AnswerOwn

LEMMA LookupOwn ==
  ASSUME PromptTypeOK, EntriesFiled, CachedPromptIsOwn, NEW r \in Requests,
         NEW payload \in Payloads, Lookup(r, payload)
  PROVE  CachedPromptIsOwn'
  <1>1. CASE lkgMode \/ file = Missing
    BY <1>1, FallBackOwn DEF Lookup
  <1>2. CASE ~(lkgMode \/ file = Missing)
    <2> DEFINE k == Key(file, payload)
    <2>1. k \in CacheKeys /\ k.payload = payload
      BY <1>2, KeyIsKey DEF PromptTypeOK
    <2>2. CASE l1[k] = NoEntry
      <3>1. req' = [req EXCEPT ![r] = [pc |-> "l2", payload |-> payload, key |-> k,
                                       built |-> NoPrompt, answer |-> NoAnswer]]
        BY <1>2, <2>2 DEF Lookup
      <3> QED
        BY <3>1 DEF PromptTypeOK, CachedPromptIsOwn, NoAnswer
    <2>3. CASE l1[k] # NoEntry
      <3>1. Answer(r, payload, "CACHE", l1[k].prompt)
        BY <1>2, <2>3 DEF Lookup
      <3>2. l1[k].prompt.payload = payload
        BY <2>1, <2>3 DEF EntriesFiled
      <3> QED
        BY <3>1, <3>2, AnswerOwn
    <2> QED
      BY <2>2, <2>3
  <1> QED
    BY <1>1, <1>2

LEMMA RedisOwn ==
  ASSUME PromptTypeOK, EntriesFiled, CarriedOwn, CachedPromptIsOwn,
         NEW r \in Requests, AtRedis(r)
  PROVE  CachedPromptIsOwn'
  <1>1. CASE MissL2(r) \/ L2Fails(r)
    <2>1. req' = [req EXCEPT ![r].pc = "lock"]
      BY <1>1 DEF MissL2, L2Fails
    <2> QED
      BY <2>1 DEF PromptTypeOK, RequestStates, CachedPromptIsOwn
  <1>2. CASE HitL2(r)
    <2>1. req[r].key \in CacheKeys /\ req[r].key.payload = req[r].payload
      BY <1>2 DEF HitL2, CarriedOwn, CarriesOwn
    <2>2. l2[req[r].key].payload = req[r].payload
      BY <1>2, <2>1 DEF HitL2, EntriesFiled
    <2> QED
      BY <1>2, <2>2, AnswerOwn DEF HitL2
  <1>3. CASE \E reached \in BOOLEAN : Store(r, reached)
    <2>1. req[r].built.payload = req[r].payload
      BY <1>3 DEF Store, CarriedOwn, CarriesOwn
    <2>2. Answer(r, req[r].payload, "CACHE", req[r].built)
      BY <1>3 DEF Store
    <2> QED
      BY <2>1, <2>2, AnswerOwn
  <1> QED
    BY <1>1, <1>2, <1>3 DEF AtRedis

LEMMA LockedOwn ==
  ASSUME PromptTypeOK, EntriesFiled, CarriedOwn, CachedPromptIsOwn,
         NEW r \in Requests, Locked(r)
  PROVE  CachedPromptIsOwn'
  <1> DEFINE k == req[r].key
  <1>1. /\ k \in CacheKeys /\ k.payload = req[r].payload
        /\ req[r].payload \in Payloads
    BY DEF Locked, CarriedOwn, CarriesOwn, PromptTypeOK, RequestStates
  <1>2. CASE l1[k] # NoEntry
    <2>1. Answer(r, req[r].payload, "CACHE", l1[k].prompt)
      BY <1>2 DEF Locked
    <2>2. l1[k].prompt.payload = req[r].payload
      BY <1>1, <1>2 DEF EntriesFiled
    <2> QED
      BY <2>1, <2>2, AnswerOwn
  <1>3. CASE l1[k] = NoEntry /\ Builds(req[r].payload)
    <2>1. req' = [req EXCEPT ![r].pc = "store",
                             ![r].built = Rendered(file, req[r].payload)]
      BY <1>3 DEF Locked
    <2> QED
      BY <2>1 DEF PromptTypeOK, RequestStates, CachedPromptIsOwn
  <1>4. CASE l1[k] = NoEntry /\ ~Builds(req[r].payload)
    <2>1. FallBack(r, req[r].payload)
      BY <1>4 DEF Locked
    <2> QED
      BY <1>1, <2>1, FallBackOwn
  <1> QED
    BY <1>2, <1>3, <1>4
-----------------------------------------------------------------------------
(***************************************************************************)
(* The invariant holds at the start, and every step keeps it.              *)
(***************************************************************************)
LEMMA PromptInvInit == PromptInit => PromptInv
  <1> SUFFICES ASSUME PromptInit PROVE PromptInv
    OBVIOUS
  <1>1. PromptTypeOK
    <2>1. (CHOOSE v \in Versions : TRUE) \in Versions
          /\ (CHOOSE p \in Payloads : TRUE) \in Payloads
      BY PromptAssumption
    <2>2. [pc |-> "idle", payload |-> CHOOSE p \in Payloads : TRUE, key |-> NoPrompt,
           built |-> NoPrompt, answer |-> NoAnswer] \in RequestStates
      BY <2>1 DEF RequestStates, Answers
    <2>3. req \in [Requests -> RequestStates]
      BY <2>2 DEF PromptInit
    <2>4. file \in Versions /\ deploys \in 0..MaxDeploys /\ outages \in 0..MaxOutages
      BY <2>1, PromptAssumption DEF PromptInit
    <2>5. l1 \in [CacheKeys -> Entries]
      BY DEF PromptInit, Entries
    <2>6. refresh \in [CacheKeys -> [pc : {"none", "lock", "store"},
                                    built : Prompts \cup {NoPrompt}]]
      BY DEF PromptInit
    <2>7. /\ l2 \in [CacheKeys -> Prompts \cup {NoPrompt}]
          /\ lock \in [CacheKeys -> Requests \cup {Refresher, Nobody}]
          /\ lkg = NoPrompt /\ lkgMode \in BOOLEAN /\ purge \in BOOLEAN
      BY DEF PromptInit
    <2> QED
      BY <2>3, <2>4, <2>5, <2>6, <2>7 DEF PromptTypeOK
  <1>2. EntriesFiled
    BY DEF PromptInit, EntriesFiled
  <1>3. CarriedOwn
    BY DEF PromptInit, CarriedOwn, CarriesOwn, RefreshCarriesOwn
  <1>4. SingleFlight
    BY Holders, NobodyRefreshes DEF PromptInit, SingleFlight
  <1>5. CachedPromptIsOwn
    BY DEF PromptInit, CachedPromptIsOwn, NoAnswer
  <1> QED
    BY <1>1, <1>2, <1>3, <1>4, <1>5 DEF PromptInv

LEMMA PromptInvStep == PromptInv /\ [PromptNext]_promptVars => PromptInv'
  <1> SUFFICES ASSUME PromptInv, [PromptNext]_promptVars PROVE PromptInv'
    OBVIOUS
  <1> USE DEF PromptInv
  <1>1. CASE UNCHANGED promptVars
    <2> USE <1>1 DEF promptVars
    <2>1. PromptTypeOK'
      BY DEF PromptTypeOK
    <2>2. EntriesFiled' /\ CachedPromptIsOwn'
      BY DEF EntriesFiled, CachedPromptIsOwn
    <2>3. CarriedOwn'
      BY DEF CarriedOwn, CarriesOwn, RefreshCarriesOwn
    <2> QED
      BY <2>1, <2>2, <2>3, SameLocks
  <1>2. ASSUME NEW r \in Requests, NEW p \in Payloads, Lookup(r, p) PROVE PromptInv'
    <2>1. EntriesFiled'
      BY <1>2 DEF Lookup, EntriesFiled
    <2> QED
      BY <1>2, <2>1, LookupType, LookupCarries, LookupLocks, LookupOwn
  <1>3. ASSUME NEW r \in Requests, AtRedis(r) PROVE PromptInv'
    <2>1. PromptTypeOK'
      BY <1>3, HitL2Type, ToLockType, StoreType DEF AtRedis
    <2>2. EntriesFiled'
      <3>1. CASE MissL2(r) \/ L2Fails(r)
        BY <3>1 DEF MissL2, L2Fails, EntriesFiled
      <3> QED
        BY <1>3, <3>1, RequestFiles DEF AtRedis
    <2> QED
      BY <1>3, <2>1, <2>2, RedisCarries, RedisLocks, RedisOwn
  <1>4. ASSUME NEW r \in Requests, Locked(r) PROVE PromptInv'
    <2>1. EntriesFiled'
      BY <1>4 DEF Locked, EntriesFiled
    <2> QED
      BY <1>4, <2>1, LockedType, LockedCarries, LockedLocks, LockedOwn
  <1>5. ASSUME NEW k \in CacheKeys, RefreshLocked(k) \/ RefreshStore(k) PROVE PromptInv'
    <2>1. PromptTypeOK'
      BY <1>5, RefreshLockedType, RefreshStoreType
    <2>2. EntriesFiled'
      <3>1. CASE RefreshLocked(k)
        BY <3>1 DEF RefreshLocked, EntriesFiled
      <3> QED
        BY <1>5, <3>1, RefreshFiles
    <2>3. CachedPromptIsOwn'
      BY <1>5 DEF RefreshLocked, RefreshStore, CachedPromptIsOwn
    <2> QED
      BY <1>5, <2>1, <2>2, <2>3, RefreshCarries, RefreshLocks
  <1>6. ASSUME NEW k \in CacheKeys, GrowStale(k) \/ ExpireL1(k) \/ ExpireL2(k)
        PROVE  PromptInv'
    <2>1. UNCHANGED <<req, refresh, lock>>
      BY <1>6 DEF GrowStale, ExpireL1, ExpireL2
    <2>2. CarriedOwn' /\ CachedPromptIsOwn'
      BY <2>1 DEF CarriedOwn, CarriesOwn, RefreshCarriesOwn, CachedPromptIsOwn
    <2> QED
      BY <1>6, <2>1, <2>2, TimeType, TimeFiles, SameLocks
  <1>7. ASSUME \/ \E v \in Versions \cup {Missing} : Deploy(v)
               \/ SwitchLkg \/ InvalidateL1 \/ InvalidateL2
        PROVE  PromptInv'
    <2>1. UNCHANGED <<req, refresh, lock>>
      BY <1>7 DEF Deploy, SwitchLkg, InvalidateL1, InvalidateL2
    <2>2. CarriedOwn' /\ CachedPromptIsOwn'
      BY <2>1 DEF CarriedOwn, CarriesOwn, RefreshCarriesOwn, CachedPromptIsOwn
    <2>3. EntriesFiled'
      <3>1. CASE SwitchLkg \/ \E v \in Versions \cup {Missing} : Deploy(v)
        BY <3>1 DEF SwitchLkg, Deploy, EntriesFiled
      <3> QED
        BY <1>7, <3>1, ConsoleFiles
    <2> QED
      BY <1>7, <2>1, <2>2, <2>3, ConsoleType, SameLocks
  <1> QED
    BY <1>1, <1>2, <1>3, <1>4, <1>5, <1>6, <1>7 DEF PromptNext

LEMMA PromptInvariant == PromptSpec => []PromptInv
  BY PromptInvInit, PromptInvStep, PTL DEF PromptSpec

(* The provider's state keeps its type; no answer is a prompt that was     *)
(* never rendered.                                                         *)
THEOREM PromptTypeCorrect == PromptSpec => []PromptTypeOK
  BY PromptInvariant, PTL DEF PromptInv

(* One task at a time renders and stores under a cache key, and nobody     *)
(* else holds its lock (resolve and _refresh_cache_key).                   *)
THEOREM FlightsAreSingle == PromptSpec => []SingleFlight
  BY PromptInvariant, PTL DEF PromptInv

(* What resolve answers from L1, L2 or the source was rendered from the    *)
(* variables of the request.                                               *)
THEOREM CachedPromptsAreOwn == PromptSpec => []CachedPromptIsOwn
  BY PromptInvariant, PTL DEF PromptInv
-----------------------------------------------------------------------------
(***************************************************************************)
(* The cumulative weights.                                                 *)
(***************************************************************************)
(* What a function of cumulative weights satisfies up to n.                *)
Cumulates(a, w, n, f) == f = [i \in 0..n |-> IF i = 0 THEN 0 ELSE f[i - 1] + w[a[i]]]

Cumulated(a, w, n) == (CHOOSE f : Cumulates(a, w, n, f))[n]

LEMMA SumCumulates ==
  \A n : Sum(n) = Cumulated(asset, ab.weights, n)
  BY DEF Sum, Cumulated, Cumulates

LEMMA SumCumulatesNext ==
  \A n : Sum(n)' = Cumulated(asset', ab'.weights, n)
  BY DEF Sum, Cumulated, Cumulates

LEMMA LeastNumber ==
  ASSUME NEW S \in SUBSET Nat, S # {}
  PROVE  \E n \in S : \A m \in Nat : m < n => m \notin S
  <1>1. PICK n \in S : \A m \in S : ~ (<<m, n>> \in OpToRel(<, Nat))
    BY NatLessThanWellFounded, WFMin, Zenon
  <1>2. \A m \in S : <<m, n>> \in Nat \X Nat
    OBVIOUS
  <1>3. \A m \in S : ~ (m < n)
    BY <1>1, <1>2 DEF OpToRel
  <1> QED BY <1>3

(* Weights[i] is the weight of the i-th variant.                           *)
LEMMA CumulatesExists ==
  ASSUME NEW a, NEW w, NEW n \in Nat
  PROVE  \E f : Cumulates(a, w, n, f)
  <1> DEFINE S == {k \in Nat : ~ \E f : Cumulates(a, w, k, f)}
  <1>1. SUFFICES S = {}
    OBVIOUS
  <1>2. SUFFICES ASSUME S # {} PROVE FALSE
    OBVIOUS
  <1>3. PICK k \in S : \A m \in Nat : m < k => m \notin S
    <2>1. S \in SUBSET Nat
      OBVIOUS
    <2> HIDE DEF S
    <2> QED BY <1>2, <2>1, LeastNumber
  <1>4. CASE k = 0
    <2> DEFINE f == [i \in 0..0 |-> 0]
    <2>1. Cumulates(a, w, 0, f)
      <3>1. \A i \in 0..0 : i = 0
        OBVIOUS
      <3> QED BY <3>1 DEF Cumulates
    <2> QED BY <1>4, <2>1
  <1>5. CASE k # 0
    <2>1. k \in Nat /\ k - 1 \in Nat /\ k - 1 < k
      BY <1>5
    <2>2. PICK f : Cumulates(a, w, k - 1, f)
      BY <1>3, <2>1
    <2> DEFINE g == [i \in 0..k |-> IF i = k THEN f[k - 1] + w[a[k]] ELSE f[i]]
    <2> HIDE DEF S
    <2>3. \A i \in 0..k - 1 : f[i] = IF i = 0 THEN 0 ELSE f[i - 1] + w[a[i]]
      BY <2>2 DEF Cumulates
    <2>4. \A i \in 0..k : g[i] = IF i = 0 THEN 0 ELSE g[i - 1] + w[a[i]]
      <3> SUFFICES ASSUME NEW i \in 0..k PROVE g[i] = IF i = 0 THEN 0 ELSE g[i - 1] + w[a[i]]
        OBVIOUS
      <3>1. CASE i = k
        <4>1. g[k] = f[k - 1] + w[a[k]] /\ g[k - 1] = f[k - 1]
          BY <2>1
        <4> QED BY <1>5, <3>1, <4>1
      <3>2. CASE i # k
        <4>1. i \in 0..k - 1 /\ g[i] = f[i] /\ (i # 0 => i - 1 \in 0..k /\ i - 1 # k)
          BY <2>1, <3>2
        <4>2. i # 0 => g[i - 1] = f[i - 1]
          BY <4>1
        <4> HIDE DEF g
        <4> QED BY <2>3, <4>1, <4>2
      <3> QED BY <3>1, <3>2
    <2>5. Cumulates(a, w, k, g)
      <3>1. g = [i \in 0..k |-> g[i]]
        OBVIOUS
      <3> HIDE DEF g
      <3> QED BY <2>4, <3>1 DEF Cumulates
    <2>6. k \notin S
      BY <2>1, <2>5 DEF S
    <2> QED BY <1>3, <2>6
  <1> QED BY <1>4, <1>5

(* Two such functions agree as far as their weights do.                    *)
Alike(a, w, b, v, n) == \A i \in 1..n : w[a[i]] = v[b[i]]

LEMMA CumulatesAgree ==
  ASSUME NEW a, NEW w, NEW b, NEW v, NEW m \in Nat, NEW n \in Nat, m <= n,
         NEW f, Cumulates(a, w, m, f), NEW g, Cumulates(b, v, n, g),
         Alike(a, w, b, v, m)
  PROVE  \A i \in 0..m : f[i] = g[i]
  <1> DEFINE S == {i \in 0..m : f[i] # g[i]}
  <1>1. SUFFICES ASSUME S # {} PROVE FALSE
    OBVIOUS
  <1>2. PICK k \in S : \A j \in Nat : j < k => j \notin S
    <2>1. S \in SUBSET Nat
      OBVIOUS
    <2> HIDE DEF S
    <2> QED BY <1>1, <2>1, LeastNumber
  <1>3. /\ \A i \in 0..m : f[i] = IF i = 0 THEN 0 ELSE f[i - 1] + w[a[i]]
        /\ \A i \in 0..n : g[i] = IF i = 0 THEN 0 ELSE g[i - 1] + v[b[i]]
        /\ \A i \in 1..m : w[a[i]] = v[b[i]]
    BY DEF Cumulates, Alike
  <1>4. k \in 0..m /\ k \in 0..n /\ f[k] # g[k]
    OBVIOUS
  <1>5. k # 0
    BY <1>3, <1>4
  <1>6. k - 1 \in Nat /\ k - 1 < k /\ k - 1 \in 0..m /\ k \in 1..m
    BY <1>4, <1>5
  <1>7. f[k - 1] = g[k - 1]
    BY <1>2, <1>6
  <1> HIDE DEF S
  <1> QED BY <1>3, <1>4, <1>5, <1>6, <1>7

LEMMA CumulatedIs ==
  ASSUME NEW a, NEW w, NEW n \in Nat
  PROVE  \E f : Cumulates(a, w, n, f) /\ Cumulated(a, w, n) = f[n]
  <1>1. Cumulates(a, w, n, CHOOSE f : Cumulates(a, w, n, f))
    BY CumulatesExists
  <1> QED BY <1>1 DEF Cumulated

LEMMA CumulatedAgrees ==
  ASSUME NEW a, NEW w, NEW b, NEW v, NEW n \in Nat, Alike(a, w, b, v, n)
  PROVE  Cumulated(a, w, n) = Cumulated(b, v, n)
  <1>1. PICK f : Cumulates(a, w, n, f) /\ Cumulated(a, w, n) = f[n]
    BY CumulatedIs
  <1>2. PICK g : Cumulates(b, v, n, g) /\ Cumulated(b, v, n) = g[n]
    BY CumulatedIs
  <1>3. \A i \in 0..n : f[i] = g[i]
    <2>1. n <= n
      OBVIOUS
    <2> QED BY <1>1, <1>2, <2>1, CumulatesAgree
  <1> QED BY <1>1, <1>2, <1>3

LEMMA CumulatedSteps ==
  ASSUME NEW a, NEW w
  PROVE  /\ Cumulated(a, w, 0) = 0
         /\ \A n \in Nat \ {0} : Cumulated(a, w, n) = Cumulated(a, w, n - 1) + w[a[n]]
  <1>1. Cumulated(a, w, 0) = 0
    <2>1. PICK f : Cumulates(a, w, 0, f) /\ Cumulated(a, w, 0) = f[0]
      BY CumulatedIs
    <2> QED BY <2>1 DEF Cumulates
  <1>2. ASSUME NEW n \in Nat \ {0}
        PROVE  Cumulated(a, w, n) = Cumulated(a, w, n - 1) + w[a[n]]
    <2>1. PICK f : Cumulates(a, w, n, f) /\ Cumulated(a, w, n) = f[n]
      BY CumulatedIs
    <2>2. n - 1 \in Nat /\ n - 1 <= n
      OBVIOUS
    <2>3. PICK g : Cumulates(a, w, n - 1, g) /\ Cumulated(a, w, n - 1) = g[n - 1]
      BY <2>2, CumulatedIs
    <2>4. \A i \in 0..n - 1 : g[i] = f[i]
      <3>1. Alike(a, w, a, w, n - 1)
        BY DEF Alike
      <3> QED BY <2>1, <2>2, <2>3, <3>1, CumulatesAgree
    <2>5. f[n] = f[n - 1] + w[a[n]]
      BY <2>1 DEF Cumulates
    <2> QED BY <2>1, <2>2, <2>3, <2>4, <2>5
  <1> QED BY <1>1, <1>2

(* An asset with its weights.                                              *)
Weighed(a, w) ==
  /\ a \in Seq(Variants) \ {<<>>}
  /\ \A i, j \in DOMAIN a : a[i] = a[j] => i = j
  /\ w \in [Variants -> Nat]

LEMMA WeighedAsset ==
  ASSUME NEW a, NEW w, Weighed(a, w)
  PROVE  /\ Len(a) \in Nat \ {0} /\ DOMAIN a = 1..Len(a)
         /\ \A i \in 1..Len(a) : w[a[i]] \in Nat
  BY EmptySeq DEF Weighed

LEMMA CumulatedGrows ==
  ASSUME NEW a, NEW w, Weighed(a, w)
  PROVE  /\ \A k \in 0..Len(a) : Cumulated(a, w, k) \in Nat
         /\ \A j, k \in 0..Len(a) : j <= k => Cumulated(a, w, j) <= Cumulated(a, w, k)
  <1> DEFINE n == Len(a)
             C(k) == Cumulated(a, w, k)
             Good(k) == C(k) \in Nat /\ \A j \in 0..k : C(j) <= C(k)
             S == {k \in 0..n : ~Good(k)}
  <1>0. n \in Nat /\ \A i \in 1..n : w[a[i]] \in Nat
    BY WeighedAsset
  <1>1. C(0) = 0 /\ \A k \in Nat \ {0} : C(k) = C(k - 1) + w[a[k]]
    BY CumulatedSteps
  <1> HIDE DEF C, n
  <1>2. S = {}
    <2> SUFFICES ASSUME S # {} PROVE FALSE
      OBVIOUS
    <2>1. PICK k \in S : \A m \in Nat : m < k => m \notin S
      <3>1. S \in SUBSET Nat
        BY <1>0
      <3> HIDE DEF S
      <3> QED BY <3>1, LeastNumber
    <2>2. k \in 0..n /\ ~Good(k)
      OBVIOUS
    <2>3. k # 0
      BY <1>1, <2>2
    <2>4. k - 1 \in Nat /\ k - 1 < k /\ k - 1 \in 0..n /\ k \in 1..n
      BY <1>0, <2>2, <2>3
    <2>5. Good(k - 1)
      BY <2>1, <2>4
    <2>6. C(k) = C(k - 1) + w[a[k]] /\ w[a[k]] \in Nat /\ C(k - 1) \in Nat
      BY <1>0, <1>1, <2>4, <2>5
    <2>7. C(k) \in Nat /\ C(k - 1) <= C(k)
      BY <2>6
    <2>8. ASSUME NEW j \in 0..k PROVE C(j) <= C(k)
      <3>1. CASE j = k
        BY <2>7, <3>1
      <3>2. CASE j # k
        <4>1. j \in 0..k - 1 /\ j \in 0..n
          BY <2>2, <2>4, <3>2, <1>0
        <4>2. C(j) <= C(k - 1)
          BY <2>5, <4>1
        <4>3. C(j) \in Nat
          <5>1. j \notin S
            BY <2>1, <2>2, <3>2, <1>0
          <5> QED BY <4>1, <5>1
        <4> QED BY <2>6, <2>7, <4>2, <4>3
      <3> QED BY <3>1, <3>2
    <2> QED BY <2>2, <2>7, <2>8
  <1>3. \A k \in 0..n : Good(k)
    BY <1>2
  <1>4. \A k \in 0..n : C(k) \in Nat
    BY <1>3
  <1>5. \A j, k \in 0..n : j <= k => C(j) <= C(k)
    <2> SUFFICES ASSUME NEW j \in 0..n, NEW k \in 0..n, j <= k PROVE C(j) <= C(k)
      OBVIOUS
    <2>1. j \in 0..k
      BY <1>0
    <2> QED BY <1>3, <2>1
  <1> QED BY <1>4, <1>5 DEF C, n

(***************************************************************************)
(* The variant at a position.                                              *)
(***************************************************************************)
Located(a, w, pos) ==
  a[CHOOSE n \in DOMAIN a :
      /\ pos < Cumulated(a, w, n)
      /\ \A k \in 1..n - 1 : ~(pos < Cumulated(a, w, k))]

(* A position in the share of the k-th variant.                            *)
Falls(a, w, pos, k) ==
  k \in DOMAIN a /\ Cumulated(a, w, k - 1) <= pos /\ pos < Cumulated(a, w, k)

LEMMA LocatedIs ==
  ASSUME NEW a, NEW w, Weighed(a, w), NEW pos \in Nat, NEW k, Falls(a, w, pos, k)
  PROVE  Located(a, w, pos) = a[k]
  <1> DEFINE C(n) == Cumulated(a, w, n)
             First(n) == pos < C(n) /\ \A j \in 1..n - 1 : ~(pos < C(j))
             L == Len(a)
  <1>0. /\ L \in Nat \ {0} /\ DOMAIN a = 1..L
        /\ \A n \in 0..L : C(n) \in Nat
        /\ \A j, n \in 0..L : j <= n => C(j) <= C(n)
    BY WeighedAsset, CumulatedGrows
  <1>1. k \in 1..L /\ C(k - 1) <= pos /\ pos < C(k)
    BY <1>0 DEF Falls
  <1> HIDE DEF C, L
  <1>2. First(k)
    <2> SUFFICES ASSUME NEW j \in 1..k - 1 PROVE ~(pos < C(j))
      BY <1>1
    <2>1. j \in 0..L /\ k - 1 \in 0..L /\ j <= k - 1
      BY <1>0, <1>1
    <2>2. C(j) <= C(k - 1) /\ C(j) \in Nat /\ C(k - 1) \in Nat
      BY <1>0, <2>1
    <2> QED BY <1>1, <2>2
  <1>3. \A n \in DOMAIN a : First(n) => n = k
    <2> SUFFICES ASSUME NEW n \in 1..L, First(n), n # k PROVE FALSE
      BY <1>0
    <2>1. CASE n < k
      <3>1. n \in 1..k - 1
        BY <1>0, <1>1, <2>1
      <3> QED BY <1>2, <3>1
    <2>2. CASE k < n
      <3>1. k \in 1..n - 1
        BY <1>0, <1>1, <2>2
      <3> QED BY <1>1, <3>1
    <2> QED BY <1>0, <1>1, <2>1, <2>2
  <1>4. (CHOOSE n \in DOMAIN a : First(n)) = k
    <2>1. k \in DOMAIN a
      BY <1>0, <1>1
    <2> HIDE DEF First
    <2> QED BY <1>2, <1>3, <2>1
  <1> QED BY <1>4 DEF Located, C

LEMMA PositionFalls ==
  ASSUME NEW a, NEW w, Weighed(a, w), NEW pos \in Nat, pos < Cumulated(a, w, Len(a))
  PROVE  \E k \in DOMAIN a : Falls(a, w, pos, k)
  <1> DEFINE C(n) == Cumulated(a, w, n)
             L == Len(a)
             S == {n \in 0..L : pos < C(n)}
  <1>0. /\ L \in Nat \ {0} /\ DOMAIN a = 1..L /\ C(0) = 0
        /\ \A n \in 0..L : C(n) \in Nat
    BY WeighedAsset, CumulatedGrows, CumulatedSteps
  <1>1. pos < C(L)
    OBVIOUS
  <1> HIDE DEF C, L
  <1>2. S \in SUBSET Nat /\ S # {}
    BY <1>0, <1>1
  <1>3. PICK k \in S : \A m \in Nat : m < k => m \notin S
    <2> HIDE DEF S
    <2> QED BY <1>2, LeastNumber
  <1>4. k \in 0..L /\ pos < C(k) /\ k # 0
    BY <1>0, <1>3
  <1>5. k \in 1..L /\ k - 1 \in 0..L /\ k - 1 \in Nat /\ k - 1 < k
    BY <1>0, <1>4
  <1>6. ~(pos < C(k - 1))
    BY <1>3, <1>5
  <1>7. C(k - 1) <= pos
    BY <1>0, <1>5, <1>6
  <1> QED BY <1>0, <1>4, <1>5, <1>7 DEF Falls, C

(* The share of a variant is its weight.                                   *)
LEMMA SharesAre ==
  ASSUME NEW a, NEW w, Weighed(a, w), NEW i \in DOMAIN a
  PROVE  Cardinality({pos \in 0..Cumulated(a, w, Len(a)) - 1 : Located(a, w, pos) = a[i]})
           = w[a[i]]
  <1> DEFINE C(n) == Cumulated(a, w, n)
             L == Len(a)
             P == {pos \in 0..C(L) - 1 : Located(a, w, pos) = a[i]}
  <1>0. /\ L \in Nat \ {0} /\ DOMAIN a = 1..L
        /\ \A n \in 0..L : C(n) \in Nat
        /\ \A j, n \in 0..L : j <= n => C(j) <= C(n)
        /\ \A n \in Nat \ {0} : C(n) = C(n - 1) + w[a[n]]
        /\ \A n \in 1..L : w[a[n]] \in Nat
    BY WeighedAsset, CumulatedGrows, CumulatedSteps
  <1>1. i \in 1..L /\ i - 1 \in 0..L /\ i \in 0..L /\ L \in 0..L
    BY <1>0
  <1>2. C(i) \in Nat /\ C(i - 1) \in Nat /\ C(L) \in Nat /\ C(i) <= C(L)
        /\ C(i) = C(i - 1) + w[a[i]] /\ w[a[i]] \in Nat
    BY <1>0, <1>1
  <1>3. \A pos \in Nat : pos < C(L) => (Located(a, w, pos) = a[i] <=> C(i - 1) <= pos /\ pos < C(i))
    <2> SUFFICES ASSUME NEW pos \in Nat, pos < C(L)
                 PROVE  Located(a, w, pos) = a[i] <=> C(i - 1) <= pos /\ pos < C(i)
      OBVIOUS
    <2>1. PICK k \in DOMAIN a : Falls(a, w, pos, k)
      BY PositionFalls
    <2>2. Located(a, w, pos) = a[k]
      BY <2>1, LocatedIs
    <2>3. a[k] = a[i] <=> k = i
      BY DEF Weighed
    <2>4. k = i => C(i - 1) <= pos /\ pos < C(i)
      BY <2>1 DEF Falls
    <2>5. C(i - 1) <= pos /\ pos < C(i) => Located(a, w, pos) = a[i]
      BY LocatedIs DEF Falls
    <2> HIDE DEF C
    <2> QED BY <2>2, <2>3, <2>4, <2>5
  <1> HIDE DEF C, L
  <1>4. P = C(i - 1)..C(i) - 1
    <2>1. \A pos : pos \in 0..C(L) - 1 <=> pos \in Nat /\ pos < C(L)
      BY <1>2
    <2>2. \A pos : pos \in C(i - 1)..C(i) - 1 <=> pos \in Nat /\ C(i - 1) <= pos /\ pos < C(i)
      BY <1>2
    <2>3. \A pos \in Nat : pos < C(i) => pos < C(L)
      BY <1>2
    <2> QED BY <1>3, <2>1, <2>2, <2>3
  <1>5. Cardinality(C(i - 1)..C(i) - 1) =
          IF C(i - 1) > C(i) - 1 THEN 0 ELSE (C(i) - 1 - C(i - 1)) + 1
    <2>1. C(i) - 1 \in Int /\ C(i - 1) \in Int
      BY <1>2
    <2> QED BY <2>1, FS_Interval
  <1>6. Cardinality(C(i - 1)..C(i) - 1) = w[a[i]]
    BY <1>2, <1>5
  <1> QED BY <1>4, <1>6 DEF C, L

(***************************************************************************)
(* The routing.                                                            *)
(***************************************************************************)
(* The file, the configuration and the caller stay within their types.     *)
THEOREM RoutingIsTyped == RoutingSpec => []RoutingTypeOK
  <1> USE RoutingAssumption DEF RoutingAssumption
  <1>1. RoutingInit => RoutingTypeOK
    BY DEF RoutingInit, RoutingTypeOK
  <1>2. RoutingTypeOK /\ [RoutingNext]_routingVars => RoutingTypeOK'
    <2> SUFFICES ASSUME RoutingTypeOK, [RoutingNext]_routingVars PROVE RoutingTypeOK'
      OBVIOUS
    <2>1. ASSUME NEW v \in Variants \cup {None}, SetForcedVariant(v) PROVE RoutingTypeOK'
      BY <2>1 DEF SetForcedVariant, RoutingTypeOK
    <2>2. ASSUME NEW c \in Configs, NEW h \in Hashes, SetAbConfig(c, h) PROVE RoutingTypeOK'
      BY <2>2 DEF SetAbConfig, RoutingTypeOK, Callers
    <2>3. ASSUME NEW b \in Assets, ChangeAsset(b) PROVE RoutingTypeOK'
      BY <2>3 DEF ChangeAsset, RoutingTypeOK
    <2>4. CASE UNCHANGED routingVars
      BY <2>4 DEF routingVars, RoutingTypeOK
    <2> QED BY <2>1, <2>2, <2>3, <2>4 DEF RoutingNext
  <1> QED BY <1>1, <1>2, PTL DEF RoutingSpec

LEMMA AssetIsWeighed ==
  ASSUME NEW a \in Assets, NEW c \in Configs
  PROVE  Weighed(a, c.weights)
  BY RoutingAssumption DEF RoutingAssumption, Configs, Weighed

(* The operators of the module, in a state and in the next.                *)
LEMMA AsCumulated ==
  /\ Total = Cumulated(asset, ab.weights, Len(asset))
  /\ Total' = Cumulated(asset', ab'.weights, Len(asset'))
  /\ \A pos : AtPosition(pos) = Located(asset, ab.weights, pos)
  /\ \A pos : AtPosition(pos)' = Located(asset', ab'.weights, pos)
  BY SumCumulates, SumCumulatesNext DEF Total, AtPosition, Located

LEMMA WeightsAre ==
  ASSUME RoutingTypeOK
  PROVE  WeightsAreShares
  <1>1. Weighed(asset, ab.weights)
    BY AssetIsWeighed DEF RoutingTypeOK
  <1> SUFFICES ASSUME NEW i \in DOMAIN asset
               PROVE  Cardinality({pos \in 0..Total - 1 : AtPosition(pos) = asset[i]})
                        = ab.weights[asset[i]]
    BY DEF WeightsAreShares
  <1>2. {pos \in 0..Total - 1 : AtPosition(pos) = asset[i]}
          = {pos \in 0..Cumulated(asset, ab.weights, Len(asset)) - 1 :
               Located(asset, ab.weights, pos) = asset[i]}
    BY AsCumulated
  <1> QED BY <1>1, <1>2, SharesAre

(* The caller is still in the experiment.                                  *)
LEMMA StillIn ==
  ASSUME RoutingTypeOK, RoutingTypeOK', InExperiment, caller' = caller, WiderRollout
  PROVE  InExperiment' /\ ab'.weights = ab.weights
  <1>1. /\ ab.rollout \in 0..Slices /\ ab'.rollout \in 0..Slices /\ Slices \in Nat
        /\ caller.slice \in Nat
    BY RoutingAssumption DEF RoutingAssumption, RoutingTypeOK, Configs, Callers
  <1>2. /\ ab'.enabled = ab.enabled /\ ab'.prefixes = ab.prefixes /\ ab'.weights = ab.weights
        /\ ab'.rollout >= ab.rollout
    BY DEF WiderRollout, RoutingTypeOK, Configs
  <1>3. ab'.rollout = Slices \/ caller.slice < ab'.rollout
    BY <1>1, <1>2 DEF InExperiment
  <1> QED BY <1>2, <1>3 DEF InExperiment

LEMMA WiderKeeps ==
  ASSUME RoutingTypeOK, RoutingTypeOK', InExperiment, caller' = caller, forced' = forced,
         WiderRollout, asset' = asset
  PROVE  Selected' = Selected
  <1>1. InExperiment' /\ ab'.weights = ab.weights
    BY StillIn
  <1>2. Total' = Total /\ \A pos : AtPosition(pos)' = AtPosition(pos)
    BY <1>1, AsCumulated
  <1>3. Even' = Even
    BY DEF Even
  <1>4. (AtPosition(caller.salted % Total))' = AtPosition(caller.salted % Total)
    BY <1>1, <1>2, AsCumulated DEF AtPosition, Sum
  <1>5. Weighted' = Weighted
    BY <1>2, <1>3, <1>4 DEF Weighted
  <1> QED BY <1>1, <1>5 DEF Selected

LEMMA AddedKeeps ==
  ASSUME RoutingTypeOK, RoutingTypeOK', InExperiment, caller' = caller, forced' = forced,
         UnweightedAdded, ab' = ab, Total > 0, forced = None
  PROVE  Selected' = Selected
  <1> DEFINE w == ab.weights
             pos == caller.salted % Total
  <1>0. /\ Weighed(asset, w) /\ Weighed(asset', w)
    BY AssetIsWeighed DEF RoutingTypeOK
  <1>1. InExperiment'
    BY DEF InExperiment
  <1>2. /\ \A i \in DOMAIN asset : asset[i] # None
        /\ \A i \in DOMAIN asset' : asset'[i] # None
    BY RoutingAssumption DEF RoutingAssumption, RoutingTypeOK, Variants
  <1>3. Total \in Nat /\ Total = Cumulated(asset, w, Len(asset)) /\ Total' = Total
    <2>1. Len(asset) \in 0..Len(asset)
      BY <1>0, WeighedAsset
    <2> QED BY <1>0, <2>1, AsCumulated, CumulatedGrows DEF UnweightedAdded
  <1>4. Total # 0 /\ Total' # 0
    BY <1>3
  <1>5. Selected = Located(asset, w, pos) /\ Selected' = Located(asset', w, pos)
    <2>1. Selected = Weighted /\ Selected' = Weighted'
      BY <1>1, <1>2 DEF Selected
    <2>2. Weighted = AtPosition(pos) /\ Weighted' = (AtPosition(caller.salted % Total))'
      BY <1>4 DEF Weighted
    <2>3. (AtPosition(caller.salted % Total))'
            = Located(asset', ab'.weights, caller'.salted % Total')
      BY SumCumulatesNext DEF AtPosition, Located, Sum, Cumulated, Cumulates
    <2> QED BY <1>3, <2>1, <2>2, <2>3, AsCumulated
  <1>6. pos \in Nat /\ pos < Total
    <2>1. caller.salted \in Nat
      BY RoutingAssumption DEF RoutingAssumption, RoutingTypeOK, Callers
    <2> QED BY <1>3, <1>4, <2>1
  <1> HIDE DEF pos
  <1>7. PICK k \in DOMAIN asset : Falls(asset, w, pos, k)
    BY <1>0, <1>3, <1>6, PositionFalls
  <1>8. /\ k \in 1..Len(asset) /\ k \in 1..Len(asset') /\ k \in DOMAIN asset'
        /\ \A i \in 1..k : asset'[i] = asset[i]
    <2>1. /\ Len(asset) \in Nat /\ Len(asset') \in Nat /\ DOMAIN asset = 1..Len(asset)
          /\ DOMAIN asset' = 1..Len(asset') /\ Len(asset) <= Len(asset')
      BY <1>0, WeighedAsset DEF UnweightedAdded
    <2>2. \A i \in 1..Len(asset) : SubSeq(asset', 1, Len(asset))[i] = asset'[i]
      <3>1. asset' \in Seq(Variants)
        BY <1>0 DEF Weighed
      <3> QED BY <2>1, <3>1
    <2> QED BY <2>1, <2>2 DEF UnweightedAdded
  <1>9. Falls(asset', w, pos, k)
    <2>1. k \in Nat /\ k - 1 \in Nat /\ Alike(asset', w, asset, w, k)
          /\ Alike(asset', w, asset, w, k - 1)
      BY <1>8 DEF Alike
    <2>2. Cumulated(asset', w, k) = Cumulated(asset, w, k)
          /\ Cumulated(asset', w, k - 1) = Cumulated(asset, w, k - 1)
      BY <2>1, CumulatedAgrees
    <2> QED BY <1>7, <1>8, <2>2 DEF Falls
  <1>10. Located(asset, w, pos) = asset[k] /\ Located(asset', w, pos) = asset'[k]
    BY <1>0, <1>6, <1>7, <1>9, LocatedIs
  <1>11. asset'[k] = asset[k]
    BY <1>8
  <1> QED BY <1>5, <1>10, <1>11

(* For any file with its weights, any rollout and any hashes: a caller in  *)
(* an experiment keeps its variant while the rollout is widened or the     *)
(* file gains variants without a weight, and the weights are the shares of *)
(* the positions.  The walk through the cumulative weights is summed by    *)
(* induction on the number of variants.                                    *)
THEOREM RoutingStaysSteady == RoutingSpec => RoutingIsSteady
  <1> DEFINE A == /\ ab' # ab => WeightsAreShares
                  /\ InExperiment /\ caller' = caller /\ forced' = forced =>
                       /\ WiderRollout /\ asset' = asset => Selected' = Selected
                       /\ UnweightedAdded /\ ab' = ab /\ Total > 0 /\ forced = None =>
                            Selected' = Selected
  <1>1. RoutingTypeOK /\ RoutingTypeOK' => A
    BY WeightsAre, WiderKeeps, AddedKeeps
  <1>2. RoutingTypeOK /\ RoutingTypeOK' => [A]_routingVars
    BY <1>1
  <1> QED BY <1>2, RoutingIsTyped, PTL DEF RoutingIsSteady
=============================================================================
