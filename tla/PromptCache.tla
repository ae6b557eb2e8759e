---------------------------- MODULE PromptCache ----------------------------
(***************************************************************************)
(* PromptProviderService for one prompt key: the asset file, the cache in  *)
(* memory (L1), the cache in Redis (L2), the lock per cache key under      *)
(* which a prompt is rendered, the last known good prompt (LKG) and the    *)
(* two ways of invalidation.  Within the process a resolve only yields at  *)
(* Redis and at the lock; the file may change under it at any time.        *)
(***************************************************************************)
EXTENDS Naturals

CONSTANTS
  Requests,    \* resolves in flight
  Payloads,    \* what the variables of a request can be
  Oversized,   \* payloads whose prompt exceeds the token budget
  Versions,    \* version hashes of the asset file
  MaxDeploys,  \* bound: changes of the file
  MaxOutages   \* bound: Redis errors and invalidations

VARIABLES
  file,      \* version of the asset on disk, or Missing
  l1,        \* memory: cache key -> entry
  l2,        \* Redis: cache key -> prompt
  lock,      \* who holds the single-flight lock of a cache key
  lkg,       \* the last known good prompt
  lkgMode,   \* the console's LKG switch
  req,       \* where each resolve is
  refresh,   \* background refreshes of stale entries
  purge,     \* an invalidation between L1 and L2
  deploys, outages

promptVars == <<file, l1, l2, lock, lkg, lkgMode, req, refresh, purge,
                deploys, outages>>

Missing == "missing"
Nobody == "nobody"
Refresher == "refresher"

NoPrompt == [version |-> "none", payload |-> "none"]

ASSUME PromptAssumption ==
  /\ Versions # {} /\ Payloads # {}
  /\ {Nobody, Refresher} \cap Requests = {}
  /\ MaxDeploys \in Nat /\ MaxOutages \in Nat

(* A rendered prompt, by the asset version and the variables in it, and    *)
(* the key it is cached under.                                             *)
Prompts   == [version : Versions, payload : Payloads]
CacheKeys == Prompts

(* Mutant: the key without the fingerprint of the variables.               *)
KeyOfVersion(version, payload) ==
  [version |-> version, payload |-> CHOOSE p \in Payloads : TRUE]

Key(version, payload) == [version |-> version, payload |-> payload]

Rendered(version, payload) == [version |-> version, payload |-> payload]

NoEntry == [age |-> "none", prompt |-> NoPrompt]
Entries == [age : {"fresh", "stale"}, prompt : Prompts] \cup {NoEntry}

(* An answer; its level L1, L2 and SOURCE in one.                          *)
NoAnswer == [level |-> "none", prompt |-> NoPrompt]
Answers  == [level : {"CACHE", "LKG"}, prompt : Prompts]
            \cup {NoAnswer, [level |-> "error", prompt |-> NoPrompt]}

RequestStates ==
  [pc : {"idle", "l2", "lock", "store", "done"}, payload : Payloads,
   key : CacheKeys \cup {NoPrompt}, built : Prompts \cup {NoPrompt},
   answer : Answers]

PromptTypeOK ==
  /\ file \in Versions \cup {Missing}
  /\ l1 \in [CacheKeys -> Entries]
  /\ l2 \in [CacheKeys -> Prompts \cup {NoPrompt}]
  /\ lock \in [CacheKeys -> Requests \cup {Refresher, Nobody}]
  /\ lkg \in Prompts \cup {NoPrompt}
  /\ lkgMode \in BOOLEAN
  /\ req \in [Requests -> RequestStates]
  /\ refresh \in [CacheKeys -> [pc : {"none", "lock", "store"},
                                built : Prompts \cup {NoPrompt}]]
  /\ purge \in BOOLEAN
  /\ deploys \in 0..MaxDeploys
  /\ outages \in 0..MaxOutages

PromptInit ==
  /\ file = CHOOSE v \in Versions : TRUE
  /\ l1 = [k \in CacheKeys |-> NoEntry]
  /\ l2 = [k \in CacheKeys |-> NoPrompt]
  /\ lock = [k \in CacheKeys |-> Nobody]
  /\ lkg = NoPrompt
  /\ lkgMode = FALSE
  /\ req = [r \in Requests |->
       [pc |-> "idle", payload |-> CHOOSE p \in Payloads : TRUE,
        key |-> NoPrompt, built |-> NoPrompt, answer |-> NoAnswer]]
  /\ refresh = [k \in CacheKeys |-> [pc |-> "none", built |-> NoPrompt]]
  /\ purge = FALSE
  /\ deploys = 0
  /\ outages = 0
-----------------------------------------------------------------------------
Answer(r, payload, level, prompt) ==
  req' = [req EXCEPT ![r] =
            [pc |-> "done", payload |-> payload, key |-> NoPrompt, built |-> NoPrompt,
             answer |-> [level |-> level, prompt |-> prompt]]]

(* Mutant: the fallback forgets that there may be no prompt yet.           *)
FallBackUnchecked(r, payload) == Answer(r, payload, "LKG", lkg)

(* The except clause of resolve: the last known good prompt, if any.       *)
FallBack(r, payload) ==
  IF lkg # NoPrompt THEN Answer(r, payload, "LKG", lkg)
  ELSE Answer(r, payload, "error", NoPrompt)

(* _get_key_lock: the lock of a key is made, free, when it is first asked  *)
(* for.                                                                    *)
Free(k) == lock[k] = Nobody

(* _build_from_source reads the file again and renders, within budget.     *)
Builds(payload) == file # Missing /\ payload \notin Oversized

Enter(key, prompt) == [l1 EXCEPT ![key] = [age |-> "fresh", prompt |-> prompt]]

(* The start of resolve, for a first caller or for one that asks again     *)
(* with other variables: the LKG switch, the asset, then L1.               *)
Lookup(r, payload) ==
  /\ req[r].pc \in {"idle", "done"}
  /\ IF lkgMode \/ file = Missing
     THEN FallBack(r, payload) /\ UNCHANGED refresh
     ELSE LET k == Key(file, payload)
          IN /\ IF l1[k] = NoEntry
                THEN req' = [req EXCEPT ![r] = [pc |-> "l2", payload |-> payload, key |-> k,
                                                built |-> NoPrompt, answer |-> NoAnswer]]
                ELSE Answer(r, payload, "CACHE", l1[k].prompt)
             /\ refresh' = IF l1[k].age = "stale" /\ refresh[k].pc = "none"
                           THEN [refresh EXCEPT ![k].pc = "lock"]
                           ELSE refresh
  /\ UNCHANGED <<file, l1, l2, lock, lkg, lkgMode, purge, deploys, outages>>

HitL2(r) ==
  /\ req[r].pc = "l2"
  /\ l2[req[r].key] # NoPrompt
  /\ l1' = Enter(req[r].key, l2[req[r].key])
  /\ Answer(r, req[r].payload, "CACHE", l2[req[r].key])
  /\ UNCHANGED <<file, l2, lock, lkg, lkgMode, refresh, purge, deploys, outages>>

MissL2(r) ==
  /\ req[r].pc = "l2"
  /\ l2[req[r].key] = NoPrompt
  /\ req' = [req EXCEPT ![r].pc = "lock"]
  /\ UNCHANGED <<file, l1, l2, lock, lkg, lkgMode, refresh, purge, deploys,
                 outages>>

(* A Redis error counts as a miss.                                         *)
L2Fails(r) ==
  /\ req[r].pc = "l2"
  /\ outages < MaxOutages
  /\ outages' = outages + 1
  /\ req' = [req EXCEPT ![r].pc = "lock"]
  /\ UNCHANGED <<file, l1, l2, lock, lkg, lkgMode, refresh, purge, deploys>>

(* Mutant: a render that fails leaves the lock taken.                      *)
LockedAndKept(r) ==
  /\ req[r].pc = "lock"
  /\ Free(req[r].key)
  /\ lock' = [lock EXCEPT ![req[r].key] = r]
  /\ IF Builds(req[r].payload)
     THEN req' = [req EXCEPT ![r].pc = "store",
                             ![r].built = Rendered(file, req[r].payload)]
     ELSE FallBack(r, req[r].payload)
  /\ UNCHANGED <<file, l1, l2, lkg, lkgMode, refresh, purge, deploys, outages>>

(* Under the lock: look at L1 once more, or render.  A render that fails   *)
(* releases the lock at once; one that succeeds goes on to Redis.          *)
Locked(r) ==
  /\ req[r].pc = "lock"
  /\ Free(req[r].key)
  /\ LET k == req[r].key
     IN CASE l1[k] # NoEntry ->
               Answer(r, req[r].payload, "CACHE", l1[k].prompt) /\ UNCHANGED lock
          [] l1[k] = NoEntry /\ Builds(req[r].payload) ->
               /\ lock' = [lock EXCEPT ![k] = r]
               /\ req' = [req EXCEPT ![r].pc = "store",
                                     ![r].built = Rendered(file, req[r].payload)]
          [] OTHER -> FallBack(r, req[r].payload) /\ UNCHANGED lock
  /\ UNCHANGED <<file, l1, l2, lkg, lkgMode, refresh, purge, deploys, outages>>

(* L2, whether or not Redis takes it, then L1, LKG and the lock.           *)
Store(r, reached) ==
  /\ req[r].pc = "store"
  /\ reached \/ outages < MaxOutages
  /\ outages' = IF reached THEN outages ELSE outages + 1
  /\ l2' = IF reached THEN [l2 EXCEPT ![req[r].key] = req[r].built] ELSE l2
  /\ l1' = Enter(req[r].key, req[r].built)
  /\ lkg' = req[r].built
  /\ lock' = [lock EXCEPT ![req[r].key] = Nobody]
  /\ Answer(r, req[r].payload, "CACHE", req[r].built)
  /\ UNCHANGED <<file, lkgMode, refresh, purge, deploys>>

-----------------------------------------------------------------------------
(***************************************************************************)
(* The refresh of a stale entry in the background.  Each stale hit starts  *)
(* one; of those that wait for the lock of a key one is kept.              *)
(***************************************************************************)

RefreshLocked(k) ==
  /\ refresh[k].pc = "lock"
  /\ Free(k)
  /\ IF Builds(k.payload)
     THEN /\ refresh' = [refresh EXCEPT
               ![k] = [pc |-> "store", built |-> Rendered(file, k.payload)]]
          /\ lock' = [lock EXCEPT ![k] = Refresher]
     ELSE /\ refresh' = [refresh EXCEPT ![k].pc = "none"]
          /\ UNCHANGED lock
  /\ UNCHANGED <<file, l1, l2, lkg, lkgMode, req, purge, deploys, outages>>

RefreshStore(k) ==
  /\ refresh[k].pc = "store"
  /\ refresh' = [refresh EXCEPT ![k] = [pc |-> "none", built |-> NoPrompt]]
  /\ l1' = Enter(k, refresh[k].built)
  /\ l2' \in {l2, [l2 EXCEPT ![k] = refresh[k].built]}
  /\ lock' = [lock EXCEPT ![k] = Nobody]
  /\ UNCHANGED <<file, lkg, lkgMode, req, purge, deploys, outages>>
-----------------------------------------------------------------------------
(***************************************************************************)
(* Time, deployments and the console.                                      *)
(***************************************************************************)

GrowStale(k) ==
  /\ l1[k].age = "fresh"
  /\ l1' = [l1 EXCEPT ![k].age = "stale"]
  /\ UNCHANGED <<file, l2, lock, lkg, lkgMode, req, refresh, purge, deploys,
                 outages>>

ExpireL1(k) ==
  /\ l1[k].age = "stale"
  /\ l1' = [l1 EXCEPT ![k] = NoEntry]
  /\ UNCHANGED <<file, l2, lock, lkg, lkgMode, req, refresh, purge, deploys,
                 outages>>

ExpireL2(k) ==
  /\ l2[k] # NoPrompt
  /\ l2' = [l2 EXCEPT ![k] = NoPrompt]
  /\ UNCHANGED <<file, l1, lock, lkg, lkgMode, req, refresh, purge, deploys,
                 outages>>

Deploy(v) ==
  /\ deploys < MaxDeploys
  /\ file # v
  /\ deploys' = deploys + 1
  /\ file' = v
  /\ UNCHANGED <<l1, l2, lock, lkg, lkgMode, req, refresh, purge, outages>>

(* set_lkg_mode.                                                           *)
SwitchLkg ==
  /\ outages < MaxOutages
  /\ outages' = outages + 1
  /\ lkgMode' = ~lkgMode
  /\ UNCHANGED <<file, l1, l2, lock, lkg, req, refresh, purge, deploys>>

(* invalidate, from the console, the bus or the pull reconciler: all of L1 *)
(* at once, then L2 unless Redis fails.                                    *)
InvalidateL1 ==
  /\ ~purge
  /\ outages < MaxOutages
  /\ outages' = outages + 1
  /\ purge' = TRUE
  /\ l1' = [k \in CacheKeys |-> NoEntry]
  /\ UNCHANGED <<file, l2, lock, lkg, lkgMode, req, refresh, deploys>>

InvalidateL2 ==
  /\ purge
  /\ purge' = FALSE
  /\ l2' \in {l2, [k \in CacheKeys |-> NoPrompt]}
  /\ UNCHANGED <<file, l1, lock, lkg, lkgMode, req, refresh, deploys, outages>>
-----------------------------------------------------------------------------
AtRedis(r) ==
  \/ HitL2(r)
  \/ MissL2(r)
  \/ L2Fails(r)
  \/ \E reached \in BOOLEAN : Store(r, reached)

PromptNext ==
  \/ \E r \in Requests : AtRedis(r) \/ Locked(r) \/ \E p \in Payloads : Lookup(r, p)
  \/ \E k \in CacheKeys :
       RefreshLocked(k) \/ RefreshStore(k) \/ GrowStale(k) \/ ExpireL1(k) \/ ExpireL2(k)
  \/ \E v \in Versions \cup {Missing} : Deploy(v)
  \/ SwitchLkg \/ InvalidateL1 \/ InvalidateL2

PromptSpec == PromptInit /\ [][PromptNext]_promptVars
-----------------------------------------------------------------------------
(* A prompt out of a cache or from the source is the caller's own: it was  *)
(* rendered from the variables of the request it answers.  (The fallback   *)
(* to LKG is the exception; MCPromptCache states what its comment says.)   *)
CachedPromptIsOwn ==
  \A r \in Requests :
    req[r].answer.level = "CACHE" =>
      req[r].answer.prompt.payload = req[r].payload

(* Single flight: whoever renders and stores a prompt holds its lock, so   *)
(* that no two tasks do, be they requests or the background refresh; and   *)
(* nobody else holds it, so that no path leaves a lock behind.             *)
SingleFlight ==
  \A k \in CacheKeys :
    /\ \A r \in Requests : lock[k] = r <=> (req[r].pc = "store" /\ req[r].key = k)
    /\ lock[k] = Refresher <=> refresh[k].pc = "store"
=============================================================================
