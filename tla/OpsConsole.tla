----------------------------- MODULE OpsConsole -----------------------------
(***************************************************************************)
(* The operations console: requests that change the settings of the        *)
(* running process, the rows that persist some of them, and the audit log. *)
(* A request checks its feature flag, changes the process, writes the row  *)
(* and then the log entry; between the steps, which are database calls,    *)
(* other requests run.                                                     *)
(***************************************************************************)
EXTENDS Naturals, Sequences, FiniteSetsExt

CONSTANTS
  Operators,  \* requests in flight
  Settings,   \* values a setting can be given; 0 is the environment's
  Requested,  \* the changes that are asked for
  PageSize,   \* rows of the audit log per page
  MaxLog,     \* bound: entries in the audit log
  MaxFaults   \* bound: failed database calls and restarts

VARIABLES
  live,       \* what the process runs with
  stored,     \* what the rows say
  call,       \* where each request is
  audit,      \* prompt_ops_audit_log, oldest first
  boot,       \* length of the log when the process started
  disturbed,  \* history: conflicting changes overlapped, or one failed midway
  faults,
  reader      \* somebody who pages through the log

opsVars == <<live, stored, call, audit, boot, disturbed, faults, reader>>

(* The endpoints.  Each has the feature flag that guards it, and its       *)
(* change goes into the process, into a row, or both, in this order.       *)
Endpoint(flag, process, row) == [flag |-> flag, process |-> process, row |-> row]

SetPromptControl  == Endpoint("prompt", TRUE, TRUE)
SetPromptAbConfig == Endpoint("prompt", TRUE, TRUE)
RefreshAssets     == Endpoint("prompt", FALSE, FALSE)
InvalidateAsset   == Endpoint("prompt", FALSE, FALSE)
SwitchProvider    == Endpoint("provider", TRUE, FALSE)
RouterControl     == Endpoint("router", TRUE, FALSE)
SetFeatureFlags   == Endpoint("none", TRUE, TRUE)
ReleaseControl    == Endpoint("none", FALSE, TRUE)
RunFaultDrill     == Endpoint("none", FALSE, TRUE)

EndpointOf ==
  [control |-> SetPromptControl, ab |-> SetPromptAbConfig, refresh |-> RefreshAssets,
   invalidate |-> InvalidateAsset, provider |-> SwitchProvider,
   router |-> RouterControl, flags |-> SetFeatureFlags, release |-> ReleaseControl,
   drill |-> RunFaultDrill]

Actions   == DOMAIN EndpointOf
Gates     == {"prompt", "provider", "router"}
InProcess == {a \in Actions : EndpointOf[a].process}
Persisted == {a \in Actions : EndpointOf[a].row}
OpsLogged == {"provider", "router", "flags", "release", "drill"}

(* The values of a setting.  A refresh or an invalidation sets nothing: it *)
(* acts on the caches, which module PromptCache models.                    *)
ValuesOf(a) == CASE a = "flags" -> SUBSET Gates
                 [] a \in {"refresh", "invalidate"} -> {0}
                 [] OTHER -> Settings

Default(a) == IF a = "flags" THEN Gates ELSE 0

LiveDefaults   == [a \in InProcess |-> Default(a)]
StoredDefaults == [a \in Persisted |-> Default(a)]

Changes == UNION {[action : {a}, value : ValuesOf(a)] : a \in Actions}

ASSUME ConsoleAssumption ==
  /\ 0 \in Settings /\ Requested \subseteq Changes
  /\ PageSize \in Nat \ {0} /\ MaxLog \in Nat /\ MaxFaults \in Nat

NoChange == [action |-> "none", value |-> 0]

OpsTypeOK ==
  /\ \A a \in InProcess : live[a] \in ValuesOf(a)
  /\ \A a \in Persisted : stored[a] \in ValuesOf(a)
  /\ \A o \in Operators :
       /\ call[o].pc \in {"idle", "apply", "store", "log"}
       /\ call[o].change \in Changes \/ call[o].change = NoChange
  /\ Len(audit) <= MaxLog
  /\ \A i \in DOMAIN audit : audit[i] \in Changes
  /\ boot \in 0..Len(audit)
  /\ disturbed \in BOOLEAN
  /\ faults \in 0..MaxFaults
  /\ reader.from \in 0..Len(audit)
  /\ reader.seen \subseteq 1..Len(audit)

OpsInit ==
  /\ live = LiveDefaults
  /\ stored = StoredDefaults
  /\ call = [o \in Operators |-> [pc |-> "idle", change |-> NoChange]]
  /\ audit = <<>>
  /\ boot = 0
  /\ disturbed = FALSE
  /\ faults = 0
  /\ reader = [page |-> 0, from |-> 0, seen |-> {}]
-----------------------------------------------------------------------------
(* get_ops_feature_flags: the row decides, not the settings.               *)
Enabled(a) == EndpointOf[a].flag \in stored["flags"] \cup {"none"}

(* Mutant: the switch changes nothing but the provider.                    *)
AppliedAlone(settings, change) ==
  [a \in DOMAIN settings |->
     IF a = change.action THEN change.value ELSE settings[a]]

(* What a change makes of the settings.  The provider switch reloads all   *)
(* of them from the environment, so the router policy and the process's    *)
(* copy of the flags are lost; the prompt provider keeps its own state.    *)
Applied(settings, change) ==
  [a \in DOMAIN settings |->
     CASE a = change.action -> change.value
       [] change.action = "provider" /\ a \in {"router", "flags"} -> Default(a)
       [] OTHER -> settings[a]]

Written(rows, change) ==
  [a \in DOMAIN rows |-> IF a = change.action THEN change.value ELSE rows[a]]

(* Which changes decide what the process runs with for a setting.          *)
Touches(a, setting) ==
  a = setting \/ (a = "provider" /\ setting \in {"router", "flags"})

Idle(o) == call' = [call EXCEPT ![o] = [pc |-> "idle", change |-> NoChange]]
-----------------------------------------------------------------------------
(* A request reads its flag; 403, and nothing has happened, if it is off.  *)
Arrive(o, change) ==
  /\ call[o].pc = "idle"
  /\ Len(audit) < MaxLog
  /\ Enabled(change.action)
  /\ call' = [call EXCEPT ![o] = [pc |-> "apply", change |-> change]]
  /\ UNCHANGED <<live, stored, audit, boot, disturbed, faults, reader>>

Apply(o) ==
  /\ call[o].pc = "apply"
  /\ live' = Applied(live, call[o].change)
  /\ call' = [call EXCEPT ![o].pc =
                IF call[o].change.action \in Persisted THEN "store" ELSE "log"]
  /\ disturbed' = \/ disturbed
                  \/ \E p \in Operators \ {o} :
                       /\ call[p].pc \in {"store", "log"}
                       /\ \/ Touches(call[o].change.action, call[p].change.action)
                          \/ Touches(call[p].change.action, call[o].change.action)
  /\ UNCHANGED <<stored, audit, boot, faults, reader>>

(* The upsert of the row, in a transaction of its own.                     *)
Upsert(o) ==
  /\ call[o].pc = "store"
  /\ stored' = Written(stored, call[o].change)
  /\ call' = [call EXCEPT ![o].pc = "log"]
  /\ UNCHANGED <<live, audit, boot, disturbed, faults, reader>>

(* append_prompt_ops_audit, and the answer.                                *)
Log(o) ==
  /\ call[o].pc = "log"
  /\ Len(audit) < MaxLog
  /\ audit' = Append(audit, call[o].change)
  /\ Idle(o)
  /\ UNCHANGED <<live, stored, boot, disturbed, faults, reader>>

(* A database call fails and the request with it; what was done stays.     *)
CallFails(o) ==
  /\ call[o].pc \in {"store", "log"}
  /\ faults < MaxFaults
  /\ faults' = faults + 1
  /\ disturbed' = TRUE
  /\ Idle(o)
  /\ UNCHANGED <<live, stored, audit, boot, reader>>

(* The process starts again from its environment; nothing reads the rows   *)
(* back into it.                                                           *)
Restart ==
  /\ faults < MaxFaults
  /\ faults' = faults + 1
  /\ live' = LiveDefaults
  /\ boot' = Len(audit)
  /\ disturbed' = (disturbed \/ \E o \in Operators : call[o].pc = "log")
  /\ call' = [o \in Operators |-> [pc |-> "idle", change |-> NoChange]]
  /\ UNCHANGED <<stored, audit, reader>>
-----------------------------------------------------------------------------
(***************************************************************************)
(* Paging through the log, newest first, with a filter on the action: of   *)
(* three pages of rows from the offset on, the first page that matches.    *)
(***************************************************************************)

(* Mutant: the first page is taken to be page 0.                           *)
OffsetFromZero(page) == page * PageSize

Offset(page) == (page - 1) * PageSize

PageOf(page) ==
  LET place(i) == Len(audit) - i
      rows  == {i \in DOMAIN audit :
                  place(i) \in Offset(page)..Offset(page) + 3 * PageSize - 1}
      items == {i \in rows : audit[i].action \in OpsLogged}
  IN {i \in items : Cardinality({j \in items : j > i}) < PageSize}

OpenLog ==
  /\ reader.page = 0
  /\ audit # <<>>
  /\ reader' = [page |-> 1, from |-> Len(audit), seen |-> PageOf(1)]
  /\ UNCHANGED <<live, stored, call, audit, boot, disturbed, faults>>

TurnPage ==
  /\ reader.page # 0
  /\ reader.page * PageSize < Len(audit)
  /\ reader' = [reader EXCEPT !.page = @ + 1, !.seen = @ \cup PageOf(reader.page + 1)]
  /\ UNCHANGED <<live, stored, call, audit, boot, disturbed, faults>>
-----------------------------------------------------------------------------
OpsNext ==
  \/ \E o \in Operators :
       \/ \E change \in Requested : Arrive(o, change)
       \/ Apply(o) \/ Upsert(o) \/ Log(o) \/ CallFails(o)
  \/ Restart
  \/ OpenLog \/ TurnPage

OpsSpec == OpsInit /\ [][OpsNext]_opsVars
-----------------------------------------------------------------------------
(* What the last of some entries of the log says of a setting.             *)
LastSaid(setting, entries) ==
  IF entries = {} THEN Default(setting)
  ELSE LET last == audit[Max(entries)]
       IN IF last.action = setting THEN last.value ELSE Default(setting)

(* The log tells the truth: unless conflicting changes overlapped or one   *)
(* failed midway, the process runs with what the last entry since its      *)
(* start that touches a setting says, hidden resets included, and the row  *)
(* holds what the last entry for it says.                                  *)
LogReplays ==
  (~disturbed /\ \A o \in Operators : call[o].pc \notin {"store", "log"}) =>
    /\ \A s \in InProcess :
         live[s] = LastSaid(s, {i \in boot + 1..Len(audit) :
                                  Touches(audit[i].action, s)})
    /\ \A s \in Persisted :
         stored[s] = LastSaid(s, {i \in DOMAIN audit : audit[i].action = s})

(* Somebody who has turned the pages to the end of the log has seen every  *)
(* entry of interest that was there when they began, although the log grew *)
(* at its head meanwhile.                                                  *)
ReaderMissesNothing ==
  (reader.page # 0 /\ reader.page * PageSize >= Len(audit)) =>
    \A i \in 1..reader.from : audit[i].action \in OpsLogged => i \in reader.seen
=============================================================================
