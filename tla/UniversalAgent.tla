--------------------------- MODULE UniversalAgent ---------------------------
(***************************************************************************)
(* One universal agent with a DirectAgentDriver, the control plane (CP)    *)
(* rows it talks to, and the data plane (DP) it manages.                   *)
(*                                                                         *)
(* The agent repeats one iteration: fetch the payload, apply every         *)
(* capability to the DP (list, then create / delete / update), list the    *)
(* facts, report the differences to the Status API, and save what it       *)
(* collected as the payload file of the next iteration.  Between any two   *)
(* calls of an iteration the CP may change its targets, the DP may drift,  *)
(* a call may fail (with or without its effect) and the agent may crash.   *)
(*                                                                         *)
(* Abstractions.  A value is a pair of t (the fields the CP declared) and  *)
(* x (the fields only the DP owns); hash is a function of t, full_hash of  *)
(* t and x, and hashes are injective.  The one exception is kept: `full`   *)
(* says that the target fields stored for the resource are the shape of a  *)
(* whole DP value, which makes hash a function of t and x as well.         *)
(***************************************************************************)
EXTENDS Naturals, FiniteSets

CONSTANTS
    CapRes,     \* resources the CP manages (TargetResource rows)
    FactRes,    \* resources the DP only reports
    KindOf,     \* the kind of every resource
    Values,     \* what the declared fields can hold
    Extras,     \* what the fields owned by the DP can hold
    None,       \* no row, no object, no file
    Client,     \* the orchestration client: "http" or "db"
    MaxEnv,     \* bound: changes of targets and drifts of the DP
    MaxFaults   \* bound: failed calls and crashes

Res == CapRes \cup FactRes
CapKinds  == {KindOf[r] : r \in CapRes}
FactKinds == {KindOf[r] : r \in FactRes}
Kinds == CapKinds \cup FactKinds

\* An object of the backend, a resource row, the target fields kept for it.
Object   == [t : Values, x : Extras]
Resource == [t : Values, x : Extras, full : BOOLEAN]
Shapes   == {"target", "full"}

ASSUME AgentAssumption ==
    /\ CapRes \cap FactRes = {}
    /\ KindOf \in [Res -> Kinds]
    /\ CapKinds \cap FactKinds = {}
    /\ Client \in {"http", "db"}
    /\ MaxEnv \in Nat
    /\ MaxFaults \in Nat
    /\ Extras # {}
    /\ \A v \in Object \cup Resource : v # None
    /\ None \notin Values /\ None \notin Shapes
    /\ None \notin Kinds
    /\ None \notin [Res -> Resource \cup {None}]

VARIABLES
    \* control plane
    registered,   \* the ua_agents row exists
    target,       \* ua_target_resources rows of this agent: declared value
    records,      \* ua_actual_resources rows of this node
    \* data plane
    dp,           \* the objects of the backend
    \* agent, on disk
    file,         \* the payload file: what was collected when it was saved
    storageFile,  \* the target fields file
    \* agent, in memory
    storage,      \* target fields per resource: None, "target" or "full"
    pc,           \* where the iteration is
    payload,      \* the payload the iteration works on
    todo,         \* kinds the iteration still has to list
    cur,          \* the capability being actualized, or None
    pend,         \* its resources that are not actualized yet
    actual,       \* its resources as driver.list returned them
    collected,    \* collected_payload
    processed,    \* processed_capabilities
    complete,     \* collected_payload_all_caps
    unreported,   \* resources whose report still differs
    \* history, for the properties only
    made,         \* objects of the DP a create call of this agent made
    lost,         \* resources whose target fields a crash lost
    absent,       \* seen absent, or not updated, in this iteration
    \* bounds
    envLeft, faultsLeft

cpVars     == <<registered, target, records>>
diskVars   == <<file, storageFile>>
workVars   == <<todo, cur, pend, actual>>
resultVars == <<collected, processed, complete>>
boundVars  == <<envLeft, faultsLeft>>
vars == <<cpVars, dp, diskVars, storage, pc, payload, workVars, resultVars,
          unreported, made, lost, absent, boundVars>>

-----------------------------------------------------------------------------
(* Values *)

NoneOn(S) == [r \in S |-> None]

\* Resource.from_value / replace_value: the row made of a DP object.
FromValue(obj, shape) == [t |-> obj.t, x |-> obj.x, full |-> shape = "full"]

\* utils.calculate_hash of a resource: full_hash, and hash against a target.
SameFullHash(a, b) == a.t = b.t /\ a.x = b.x
SameHash(want, res) == res.t = want /\ ~res.full

\* (mutant) the capability baskets are left out of the payload hash.
SameFactsHash(snap, want, seen) ==
    \A r \in Res : IF seen[r] = None THEN snap[r] = None
                   ELSE snap[r] # None /\ SameFullHash(seen[r], snap[r])

\* Payload.calculate_hash: equal hashes mean the same resources, with the
\* same hash in the capability baskets and the same full_hash in the facts.
SamePayloadHash(snap, want, seen) ==
    /\ \A r \in CapRes : IF want[r] = None THEN snap[r] = None
                         ELSE snap[r] # None /\ SameHash(want[r], snap[r])
    /\ \A r \in Res : IF seen[r] = None THEN snap[r] = None
                      ELSE snap[r] # None /\ SameFullHash(seen[r], snap[r])

-----------------------------------------------------------------------------
(* UniversalAgent.get_payload and what the two orchestration clients make  *)
(* of its light answer.  A hash is the content it was computed from; caps  *)
(* and facts are the baskets the agent finds in the payload it works on.   *)

UpToDate == file # None /\ SamePayloadHash(file, target, records)

FullPayload(hash) ==
    [hash |-> hash, light |-> FALSE, caps |-> CapKinds, facts |-> Kinds]

\* The client for the DB hands the light answer on: it has no basket.  The
\* HTTP client returns the payload file instead: it has a basket for every
\* kind the agent collected something of.
LightPayload(hash) ==
    LET collectedOf(S) == {KindOf[r] : r \in {q \in S : file[q] # None}}
    IN  [hash  |-> hash, light |-> TRUE,
         caps  |-> IF Client = "http" THEN collectedOf(CapRes) ELSE {},
         facts |-> IF Client = "http" THEN collectedOf(Res) ELSE {}]

GetPayload ==
    LET hash == [want |-> target, seen |-> records]
    IN  IF UpToDate THEN LightPayload(hash) ELSE FullPayload(hash)

\* The declared value payload.caps_resources asks for, if any.
Wanted(r) ==
    IF KindOf[r] \notin payload.caps THEN None
    ELSE IF ~payload.light THEN payload.hash.want[r]
    ELSE IF file[r] = None THEN None ELSE file[r].t

\* The row the facts of the payload hold, if any.
Seen(r) ==
    IF KindOf[r] \notin payload.facts THEN None
    ELSE IF payload.light THEN file[r] ELSE payload.hash.seen[r]

\* value_shape of the value the agent applies: with a light answer that is
\* the whole DP value the payload file holds.
AppliedShape == IF payload.light THEN "full" ELSE "target"

-----------------------------------------------------------------------------
(* DirectAgentDriver.list: an object is listed only with its target fields *)

Listed(r) ==
    IF dp[r] = None THEN None
    ELSE IF r \in FactRes THEN FromValue(dp[r], "target")
    ELSE IF storage[r] = None THEN None
    ELSE FromValue(dp[r], storage[r])

-----------------------------------------------------------------------------
(* Initial state and the agent's locals between two iterations *)

NoPayload == [hash |-> [want |-> NoneOn(CapRes), seen |-> NoneOn(Res)],
              light |-> FALSE, caps |-> {}, facts |-> {}]

Init ==
    /\ registered = TRUE
    /\ target = NoneOn(CapRes)
    /\ records = NoneOn(Res)
    /\ dp \in {NoneOn(Res)} \cup
              {[NoneOn(Res) EXCEPT ![f] = o] : f \in FactRes, o \in Object}
    /\ file = None
    /\ storageFile = NoneOn(CapRes)
    /\ storage = NoneOn(CapRes)
    /\ pc = "idle"
    /\ payload = NoPayload
    /\ todo = {} /\ cur = None /\ pend = {} /\ actual = NoneOn(CapRes)
    /\ collected = NoneOn(Res) /\ processed = {} /\ complete = TRUE
    /\ unreported = {}
    /\ made = {} /\ lost = {} /\ absent = {}
    /\ envLeft = MaxEnv
    /\ faultsLeft = MaxFaults

EndIteration ==
    /\ pc' = "idle"
    /\ payload' = NoPayload
    /\ todo' = {} /\ cur' = None /\ pend' = {} /\ actual' = NoneOn(CapRes)
    /\ collected' = NoneOn(Res) /\ processed' = {} /\ complete' = TRUE
    /\ unreported' = {}

\* A call fails; bounded by MaxFaults.
Fault == faultsLeft > 0 /\ faultsLeft' = faultsLeft - 1 /\ UNCHANGED envLeft

-----------------------------------------------------------------------------
(* The agent: start of an iteration *)

\* AgentNotFound: the auto discovery registers the agent and returns.
Register ==
    /\ pc = "idle" /\ ~registered
    /\ registered' = TRUE
    /\ UNCHANGED <<target, records, dp, diskVars, storage, pc, payload,
                   workVars, resultVars, unreported, boundVars>>

\* (mutant) a light answer counts as an iteration that failed.
FetchPayloadCountingSkips ==
    /\ pc = "idle" /\ registered
    /\ payload' = GetPayload
    /\ todo' = payload'.caps
    /\ pc' = "caps"
    /\ complete' = ~payload'.light
    /\ UNCHANGED <<cpVars, dp, diskVars, storage, cur, pend, actual,
                   collected, processed, unreported, boundVars>>

\* (mutant) a kind without a basket is actualized as if its basket were empty.
FetchPayloadUnskipped ==
    /\ pc = "idle" /\ registered
    /\ payload' = GetPayload
    /\ todo' = CapKinds
    /\ pc' = "caps"
    /\ UNCHANGED <<cpVars, dp, diskVars, storage, cur, pend, actual,
                   resultVars, unreported, boundVars>>

FetchPayload ==
    /\ pc = "idle" /\ registered
    /\ payload' = GetPayload
    /\ todo' = payload'.caps
    /\ pc' = "caps"
    /\ UNCHANGED <<cpVars, dp, diskVars, storage, cur, pend, actual,
                   resultVars, unreported, boundVars>>

-----------------------------------------------------------------------------
(* The agent: one capability *)

ListKind(k) ==
    /\ pc = "caps" /\ cur = None /\ k \in todo
    /\ cur' = k
    /\ actual' = [r \in CapRes |-> IF KindOf[r] = k THEN Listed(r) ELSE None]
    /\ pend' = {r \in CapRes : /\ KindOf[r] = k
                               /\ Wanted(r) # None \/ Listed(r) # None}
    /\ UNCHANGED <<cpVars, dp, diskVars, storage, pc, payload, todo,
                   resultVars, unreported, boundVars>>

\* driver.list or start_capability raises: the capability is not processed.
ListKindFails(k) ==
    /\ pc = "caps" /\ cur = None /\ k \in todo
    /\ todo' = todo \ {k}
    /\ complete' = FALSE
    /\ Fault
    /\ UNCHANGED <<cpVars, dp, diskVars, storage, pc, payload, cur, pend,
                   actual, collected, processed, unreported>>

Collect(r, res) == collected' = [collected EXCEPT ![r] = res]

\* What every operation on one resource of the current capability shares.
OnResource(r) ==
    /\ pc = "caps" /\ cur # None /\ r \in pend
    /\ pend' = pend \ {r}
    /\ UNCHANGED <<cpVars, diskVars, pc, payload, todo, cur, actual,
                   processed, complete, unreported>>

NeedsCreate(r) == Wanted(r) # None /\ actual[r] = None
NeedsDelete(r) == Wanted(r) = None
NeedsUpdate(r) == /\ Wanted(r) # None /\ actual[r] # None
                  /\ ~SameHash(Wanted(r), actual[r])

\* driver.create: target fields first, then the backend; an object that
\* exists already is read back instead.
CreateResource(r) ==
    /\ OnResource(r) /\ NeedsCreate(r)
    /\ storage' = [storage EXCEPT ![r] = AppliedShape]
    /\ IF dp[r] = None
       THEN \E x \in Extras :
              dp' = [dp EXCEPT ![r] = [t |-> Wanted(r), x |-> x]]
       ELSE UNCHANGED dp
    /\ Collect(r, FromValue(dp'[r], AppliedShape))
    /\ UNCHANGED boundVars

\* driver.update: the backend first, then the target fields.
UpdateResource(r) ==
    /\ OnResource(r) /\ NeedsUpdate(r)
    /\ dp[r] # None
    /\ \E x \in Extras : dp' = [dp EXCEPT ![r] = [t |-> Wanted(r), x |-> x]]
    /\ storage' = [storage EXCEPT ![r] = AppliedShape]
    /\ Collect(r, FromValue(dp'[r], AppliedShape))
    /\ UNCHANGED boundVars

\* The object vanished since the list: the backend answers not found.
UpdateNotFound(r) ==
    /\ OnResource(r) /\ NeedsUpdate(r)
    /\ dp[r] = None
    /\ UNCHANGED <<dp, storage, collected, boundVars>>

\* driver.delete: the backend first (not found is fine), then the target
\* fields.
DeleteResource(r) ==
    /\ OnResource(r) /\ NeedsDelete(r)
    /\ dp' = [dp EXCEPT ![r] = None]
    /\ storage' = [storage EXCEPT ![r] = None]
    /\ UNCHANGED <<collected, boundVars>>

\* Nothing to do: the hashes are the same.
KeepResource(r) ==
    /\ OnResource(r)
    /\ Wanted(r) # None /\ actual[r] # None /\ SameHash(Wanted(r), actual[r])
    /\ Collect(r, actual[r])
    /\ UNCHANGED <<dp, storage, boundVars>>

\* (mutant) the target fields are stored only after the backend answered.
CreateFailsUnstored(r) ==
    /\ OnResource(r) /\ NeedsCreate(r)
    /\ \/ UNCHANGED dp
       \/ /\ dp[r] = None
          /\ \E x \in Extras :
               dp' = [dp EXCEPT ![r] = [t |-> Wanted(r), x |-> x]]
    /\ Fault
    /\ UNCHANGED <<storage, collected>>

\* The backend call fails, or only its answer is lost.
CreateFails(r) ==
    /\ OnResource(r) /\ NeedsCreate(r)
    /\ storage' = [storage EXCEPT ![r] = AppliedShape]
    /\ \/ UNCHANGED dp
       \/ /\ dp[r] = None
          /\ \E x \in Extras :
               dp' = [dp EXCEPT ![r] = [t |-> Wanted(r), x |-> x]]
    /\ Fault
    /\ UNCHANGED collected

UpdateFails(r) ==
    /\ OnResource(r) /\ NeedsUpdate(r)
    /\ \/ UNCHANGED dp
       \/ /\ dp[r] # None
          /\ \E x \in Extras :
               dp' = [dp EXCEPT ![r] = [t |-> Wanted(r), x |-> x]]
    /\ Fault
    /\ UNCHANGED <<storage, collected>>

DeleteFails(r) ==
    /\ OnResource(r) /\ NeedsDelete(r)
    /\ \/ UNCHANGED dp
       \/ dp' = [dp EXCEPT ![r] = None]
    /\ Collect(r, actual[r])
    /\ Fault
    /\ UNCHANGED storage

\* finalize_capability: the capability is processed.
FinishKind ==
    /\ pc = "caps" /\ cur # None /\ pend = {}
    /\ processed' = processed \cup {cur}
    /\ todo' = todo \ {cur}
    /\ cur' = None
    /\ actual' = NoneOn(CapRes)
    /\ UNCHANGED <<cpVars, dp, diskVars, storage, pc, payload, pend,
                   collected, complete, unreported, boundVars>>

-----------------------------------------------------------------------------
(* The agent: driver.finalize, facts, report, save *)

StartFacts == pc' = "facts" /\ todo' = FactKinds \cap payload.facts

Finalize ==
    /\ pc = "caps" /\ cur = None /\ todo = {}
    /\ storageFile' = storage
    /\ StartFacts
    /\ UNCHANGED <<cpVars, dp, file, storage, payload, cur, pend, actual,
                   resultVars, unreported, boundVars>>

\* The storage cannot be persisted: no capability counts as processed.
FinalizeFails ==
    /\ pc = "caps" /\ cur = None /\ todo = {}
    /\ processed' = {}
    /\ complete' = FALSE
    /\ StartFacts
    /\ Fault
    /\ UNCHANGED <<cpVars, dp, diskVars, storage, payload, cur, pend, actual,
                   collected, unreported>>

CollectFacts(k) ==
    /\ pc = "facts" /\ k \in todo
    /\ collected' = [r \in Res |-> IF KindOf[r] = k THEN Listed(r)
                                   ELSE collected[r]]
    /\ processed' = processed \cup {k}
    /\ todo' = todo \ {k}
    /\ UNCHANGED <<cpVars, dp, diskVars, storage, pc, payload, cur, pend,
                   actual, complete, unreported, boundVars>>

CollectFactsFails(k) ==
    /\ pc = "facts" /\ k \in todo
    /\ complete' = FALSE
    /\ todo' = todo \ {k}
    /\ Fault
    /\ UNCHANGED <<cpVars, dp, diskVars, storage, pc, payload, cur, pend,
                   actual, collected, processed, unreported>>

\* (mutant) resources that disappeared are not deleted from the Status API.
DiffersUnlessGone(r) ==
    /\ collected[r] # None
    /\ Seen(r) # None => ~SameFullHash(Seen(r), collected[r])

\* The resources _actualize_resource_facts creates, updates or deletes.
Differs(r) ==
    IF Seen(r) # None /\ collected[r] # None
    THEN ~SameFullHash(Seen(r), collected[r])
    ELSE Seen(r) # collected[r]

\* (mutant) the processed capabilities are not looked at.
StartReportOfAll ==
    /\ pc = "facts" /\ todo = {}
    /\ pc' = "report"
    /\ unreported' =
         IF SamePayloadHash(collected, payload.hash.want, payload.hash.seen) THEN {}
         ELSE {r \in Res : Differs(r)}
    /\ UNCHANGED <<cpVars, dp, diskVars, storage, payload, workVars,
                   resultVars, boundVars>>

StartReport ==
    /\ pc = "facts" /\ todo = {}
    /\ pc' = "report"
    /\ unreported' =
         IF SamePayloadHash(collected, payload.hash.want, payload.hash.seen) THEN {}
         ELSE {r \in Res : KindOf[r] \in processed /\ Differs(r)}
    /\ UNCHANGED <<cpVars, dp, diskVars, storage, payload, workVars,
                   resultVars, boundVars>>

\* Create, update or delete through the Status API; the answers "exists
\* already" and "not found" are logged.
Report(r) ==
    /\ pc = "report" /\ r \in unreported
    /\ records' = IF (Seen(r) = None) = (records[r] = None)
                  THEN [records EXCEPT ![r] = collected[r]]
                  ELSE records
    /\ unreported' = unreported \ {r}
    /\ UNCHANGED <<registered, target, dp, diskVars, storage, pc, payload,
                   workVars, resultVars, boundVars>>

ReportFails(r) ==
    /\ pc = "report" /\ r \in unreported
    /\ unreported' = unreported \ {r}
    /\ Fault
    /\ UNCHANGED <<cpVars, dp, diskVars, storage, pc, payload, workVars,
                   resultVars>>

Save ==
    /\ pc = "report" /\ unreported = {}
    /\ file' = IF complete THEN collected ELSE file
    /\ EndIteration
    /\ UNCHANGED <<cpVars, dp, storageFile, storage, boundVars>>

SaveFails ==
    /\ pc = "report" /\ unreported = {} /\ complete
    /\ EndIteration
    /\ Fault
    /\ UNCHANGED <<cpVars, dp, diskVars, storage>>

\* The process dies and starts again: the target fields are read from their
\* file and _setup registers the agent.
Crash ==
    /\ EndIteration
    /\ storage' = storageFile
    /\ registered' = TRUE
    /\ Fault
    /\ UNCHANGED <<target, records, dp, diskVars>>

-----------------------------------------------------------------------------
(* The environment: the builders and schedulers of the CP, and the DP *)

Change == envLeft > 0 /\ envLeft' = envLeft - 1 /\ UNCHANGED faultsLeft

SetTarget(r) ==
    /\ registered
    /\ \E v \in (Values \cup {None}) \ {target[r]} :
         target' = [target EXCEPT ![r] = v]
    /\ Change
    /\ UNCHANGED <<registered, records, dp, diskVars, storage, pc, payload,
                   workVars, resultVars, unreported>>

\* The agent row is deleted; its target rows go with it.
RemoveAgent ==
    /\ registered
    /\ registered' = FALSE
    /\ target' = NoneOn(CapRes)
    /\ Change
    /\ UNCHANGED <<records, dp, diskVars, storage, pc, payload, workVars,
                   resultVars, unreported>>

Drift(r) ==
    /\ \E o \in (Object \cup {None}) \ {dp[r]} : dp' = [dp EXCEPT ![r] = o]
    /\ Change
    /\ UNCHANGED <<cpVars, diskVars, storage, pc, payload, workVars,
                   resultVars, unreported>>

-----------------------------------------------------------------------------
(* Specification *)

AgentStep ==
    \/ Register \/ FetchPayload \/ FinishKind \/ Finalize \/ FinalizeFails
    \/ StartReport \/ Save \/ SaveFails
    \/ \E k \in CapKinds : ListKind(k) \/ ListKindFails(k)
    \/ \E k \in FactKinds : CollectFacts(k) \/ CollectFactsFails(k)
    \/ \E r \in CapRes :
         \/ CreateResource(r) \/ UpdateResource(r) \/ UpdateNotFound(r)
         \/ DeleteResource(r) \/ KeepResource(r)
         \/ CreateFails(r) \/ UpdateFails(r) \/ DeleteFails(r)
    \/ \E r \in Res : Report(r) \/ ReportFails(r)

Environment ==
    \/ RemoveAgent
    \/ \E r \in CapRes : SetTarget(r)
    \/ \E r \in Res : Drift(r)

\* made: objects the agent brought into being that still exist.
\* absent: resources this iteration could have seen missing, or whose create
\* or update failed.
History ==
    /\ made' = {r \in made \cup {q \in CapRes : /\ dp[q] = None
                                                /\ envLeft' = envLeft} :
                  dp'[r] # None}
    /\ absent' = IF pc' = "idle" THEN {}
                 ELSE absent \cup {r \in Res : Listed(r)' = None}
                             \cup {r \in pend \ pend' : /\ faultsLeft' # faultsLeft
                                                        /\ Wanted(r) # None}

StillLost == lost' = {r \in lost : storage'[r] = None}

Agent == AgentStep /\ History /\ StillLost
World == Environment /\ History /\ StillLost
Restart ==
    /\ Crash /\ History
    /\ lost' = {r \in CapRes : /\ storage'[r] = None
                               /\ r \in lost \/ storage[r] # None}

Next == Agent \/ World \/ Restart

\* The looper runs one iteration after the other for ever; nothing obliges
\* the environment to move, or a call to fail.
Spec == Init /\ [][Next]_vars /\ WF_vars(Agent)

-----------------------------------------------------------------------------
(* Properties *)

OrNone(S) == S \cup {None}

\* Types of all variables.
TypeOK ==
    /\ registered \in BOOLEAN
    /\ target \in [CapRes -> OrNone(Values)]
    /\ records \in [Res -> OrNone(Resource)]
    /\ dp \in [Res -> OrNone(Object)]
    /\ file \in OrNone([Res -> OrNone(Resource)])
    /\ storageFile \in [CapRes -> OrNone(Shapes)]
    /\ storage \in [CapRes -> OrNone(Shapes)]
    /\ pc \in {"idle", "caps", "facts", "report"}
    /\ payload \in [hash : [want : [CapRes -> OrNone(Values)],
                            seen : [Res -> OrNone(Resource)]],
                    light : BOOLEAN,
                    caps : SUBSET CapKinds, facts : SUBSET Kinds]
    /\ todo \subseteq Kinds
    /\ cur \in OrNone(CapKinds)
    /\ pend \subseteq CapRes
    /\ actual \in [CapRes -> OrNone(Resource)]
    /\ collected \in [Res -> OrNone(Resource)]
    /\ processed \subseteq Kinds
    /\ complete \in BOOLEAN
    /\ unreported \subseteq Res
    /\ made \subseteq CapRes /\ lost \subseteq CapRes /\ absent \subseteq Res
    /\ envLeft \in 0..MaxEnv
    /\ faultsLeft \in 0..MaxFaults

\* The target fields are stored before the backend is asked to create and
\* dropped only after it deleted, so whatever fails in between the agent can
\* still list (and later delete) every object it made, unless a crash lost
\* the target fields before finalize persisted them.
NoSilentOrphan == \A r \in made : storage[r] # None \/ r \in lost

\* A light payload answer carries no targets, a capability may fail to list,
\* the CP may change in between: none of that makes the agent delete an
\* object that the CP wanted when the payload was fetched.
WantedNeverDestroyed ==
    [][\A r \in CapRes : /\ dp[r] # None /\ dp'[r] = None
                         /\ envLeft' = envLeft
                         => payload.hash.want[r] = None]_vars

\* The report of a resource is withdrawn from the Status API only if the
\* resource was absent from the DP at some point of this very iteration (or
\* could not be created or updated in it); a kind that failed to list, or
\* whose storage could not be persisted, keeps its reports.
WithdrawnOnlyIfGone ==
    [][\A r \in Res : records[r] # None /\ records'[r] = None
                      => r \in absent]_vars

\* A resource the CP wants ends up in the DP with the declared value,
\* whatever drifted, failed or crashed before.
WantedConverges ==
    <>[](\A r \in CapRes : target[r] # None
           => dp[r] # None /\ dp[r].t = target[r])

\* The Status API row of the resource is what the DP holds.
Truthful(r) == /\ dp[r] # None /\ records[r] # None
               /\ records[r].t = dp[r].t /\ records[r].x = dp[r].x

\* What the Status API says ends up being what the DP holds: of a resource that
\* is wanted, and of one that is not but still has a record, which has to be
\* looked at again although an unchanged payload is answered without resources.
ReportsConverge ==
    <>[](\A r \in Res : records[r] # None \/ (r \in CapRes /\ target[r] # None)
                        => Truthful(r))

=============================================================================
