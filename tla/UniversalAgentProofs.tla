------------------------ MODULE UniversalAgentProofs ------------------------
(***************************************************************************)
(* Theorems about UniversalAgent, for every set of resources, every value  *)
(* and every bound.                                                        *)
(***************************************************************************)
EXTENDS UniversalAgent, TLAPS

\* TypeOK without the history variables.
CoreTypeOK ==
    /\ registered \in BOOLEAN
    /\ target \in [CapRes -> OrNone(Values)]
    /\ records \in [Res -> OrNone(Resource)]
    /\ dp \in [Res -> OrNone(Object)]
    /\ file \in OrNone([Res -> OrNone(Resource)])
    /\ storageFile \in [CapRes -> OrNone(Shapes)]
    /\ storage \in [CapRes -> OrNone(Shapes)]
    /\ pc \in {"idle", "caps", "facts", "report"}
    /\ payload \in [hash : [want : [CapRes -> OrNone(Values)],
                            seen : [Res -> OrNone(Resource)]],
                    light : BOOLEAN,
                    caps : SUBSET CapKinds, facts : SUBSET Kinds]
    /\ todo \subseteq Kinds
    /\ cur \in OrNone(CapKinds)
    /\ pend \subseteq CapRes
    /\ actual \in [CapRes -> OrNone(Resource)]
    /\ collected \in [Res -> OrNone(Resource)]
    /\ processed \subseteq Kinds
    /\ complete \in BOOLEAN
    /\ unreported \subseteq Res
    /\ envLeft \in 0..MaxEnv
    /\ faultsLeft \in 0..MaxFaults

\* A row made of an object is a resource row.
LEMMA FromValueType ==
    ASSUME NEW obj \in Object, NEW shape
    PROVE  FromValue(obj, shape) \in Resource
  BY DEF FromValue, Object, Resource

\* driver.list returns resource rows.
LEMMA ListedType ==
    ASSUME TypeOK, NEW r \in Res
    PROVE  Listed(r) \in OrNone(Resource)
  BY FromValueType DEF Listed, TypeOK, OrNone

\* The light answer exists only when there is a payload file, and so does a
\* light payload: the file is not written before the iteration ends.
LightInv == payload.light => file # None

\* What the payload asks for is a declared value.
LEMMA WantedType ==
    ASSUME TypeOK, LightInv, NEW r \in CapRes
    PROVE  Wanted(r) \in OrNone(Values)
<1>1. r \in Res
  BY DEF Res
<1>2. CASE payload.light
  <2>1. file[r] \in OrNone(Resource)
    BY <1>1, <1>2 DEF TypeOK, LightInv, OrNone
  <2> QED
    BY <2>1 DEF Wanted, OrNone, Resource, TypeOK
<1>3. CASE ~payload.light
  BY <1>3 DEF Wanted, OrNone, TypeOK
<1> QED
  BY <1>2, <1>3

LEMMA GetPayloadType ==
    ASSUME TypeOK
    PROVE  GetPayload \in [hash : [want : [CapRes -> OrNone(Values)],
                                   seen : [Res -> OrNone(Resource)]],
                           light : BOOLEAN,
                           caps : SUBSET CapKinds, facts : SUBSET Kinds]
<1>1. Kinds = CapKinds \cup FactKinds /\ Res = CapRes \cup FactRes
  BY DEF Kinds, Res
<1>2. {KindOf[r] : r \in {q \in CapRes : file[q] # None}} \subseteq CapKinds
  BY DEF CapKinds
<1>3. {KindOf[r] : r \in {q \in Res : file[q] # None}} \subseteq Kinds
  BY <1>1 DEF CapKinds, FactKinds
<1> QED
  BY <1>1, <1>2, <1>3 DEF GetPayload, LightPayload, FullPayload, TypeOK

-----------------------------------------------------------------------------
(* Type correctness *)

\* The iteration's locals are well typed when it ends.
LEMMA EndIterationType ==
    ASSUME EndIteration
    PROVE  /\ pc' = "idle"
           /\ payload' \in [hash : [want : [CapRes -> OrNone(Values)],
                                    seen : [Res -> OrNone(Resource)]],
                            light : BOOLEAN,
                            caps : SUBSET CapKinds, facts : SUBSET Kinds]
           /\ ~payload'.light
           /\ todo' = {} /\ cur' = None /\ pend' = {}
           /\ actual' \in [CapRes -> OrNone(Resource)]
           /\ collected' \in [Res -> OrNone(Resource)]
           /\ processed' = {} /\ complete' = TRUE /\ unreported' = {}
  BY DEF EndIteration, NoPayload, NoneOn, OrNone

\* A fault and a change of the environment keep the bounds typed.
LEMMA BoundType ==
    ASSUME TypeOK, Fault \/ Change \/ UNCHANGED boundVars
    PROVE  envLeft' \in 0..MaxEnv /\ faultsLeft' \in 0..MaxFaults
  BY AgentAssumption DEF TypeOK, Fault, Change, boundVars

\* The steps on one resource of the current capability.
LEMMA OperationType ==
    ASSUME TypeOK, LightInv, NEW r \in CapRes,
           \/ CreateResource(r) \/ UpdateResource(r) \/ UpdateNotFound(r)
           \/ DeleteResource(r) \/ KeepResource(r)
           \/ CreateFails(r) \/ UpdateFails(r) \/ DeleteFails(r)
    PROVE  CoreTypeOK' /\ LightInv'
<1> USE DEF TypeOK
<1>0. r \in Res
  BY DEF Res
<1>1. Wanted(r) \in OrNone(Values)
  BY WantedType
<1>2. AppliedShape \in Shapes
  BY DEF AppliedShape, Shapes
<1>3. /\ UNCHANGED <<cpVars, diskVars, pc, payload, todo, cur, actual,
                     processed, complete, unreported>>
      /\ pend' \subseteq CapRes
  BY DEF OnResource, CreateResource, UpdateResource, UpdateNotFound,
         DeleteResource, KeepResource, CreateFails, UpdateFails, DeleteFails
<1>4. envLeft' \in 0..MaxEnv /\ faultsLeft' \in 0..MaxFaults
  BY BoundType DEF CreateResource, UpdateResource, UpdateNotFound,
         DeleteResource, KeepResource, CreateFails, UpdateFails, DeleteFails
<1>5. storage' \in [CapRes -> OrNone(Shapes)]
  BY <1>2 DEF OrNone, CreateResource, UpdateResource, UpdateNotFound,
         DeleteResource, KeepResource, CreateFails, UpdateFails, DeleteFails
<1>6. dp' \in [Res -> OrNone(Object)]
  <2>1. \A x \in Extras : Wanted(r) # None
                          => [t |-> Wanted(r), x |-> x] \in Object
    BY <1>1 DEF Object, OrNone
  <2> QED
    BY <1>0, <2>1 DEF OrNone, NeedsCreate, NeedsUpdate,
         CreateResource, UpdateResource, UpdateNotFound,
         DeleteResource, KeepResource, CreateFails, UpdateFails, DeleteFails
<1>7. collected' \in [Res -> OrNone(Resource)]
  <2>1. CASE CreateResource(r)
    <3>1. dp'[r] \in Object
      <4>1. CASE dp[r] = None
        BY <1>0, <1>1, <2>1, <4>1 DEF CreateResource, NeedsCreate, Object, OrNone
      <4>2. CASE dp[r] # None
        BY <1>0, <2>1, <4>2 DEF CreateResource, OrNone
      <4> QED
        BY <4>1, <4>2
    <3> QED
      BY <1>0, <2>1, <3>1, FromValueType DEF CreateResource, Collect, OrNone
  <2>2. CASE UpdateResource(r)
    <3>1. dp'[r] \in Object
      BY <1>0, <1>1, <2>2 DEF UpdateResource, NeedsUpdate, Object, OrNone
    <3> QED
      BY <1>0, <2>2, <3>1, FromValueType DEF UpdateResource, Collect, OrNone
  <2>3. CASE KeepResource(r) \/ DeleteFails(r)
    BY <1>0, <2>3 DEF KeepResource, DeleteFails, Collect
  <2>4. CASE \/ UpdateNotFound(r) \/ DeleteResource(r)
             \/ CreateFails(r) \/ UpdateFails(r)
    BY <2>4 DEF UpdateNotFound, DeleteResource, CreateFails, UpdateFails
  <2> QED
    BY <2>1, <2>2, <2>3, <2>4
<1> QED
  BY <1>3, <1>4, <1>5, <1>6, <1>7
     DEF CoreTypeOK, LightInv, cpVars, diskVars


\* Every step keeps the types and the light payload's file.
LEMMA StepType ==
    ASSUME TypeOK, LightInv, AgentStep \/ Environment \/ Crash
    PROVE  CoreTypeOK' /\ LightInv'
<1> USE DEF TypeOK, CoreTypeOK, LightInv
<1>k. CapKinds \subseteq Kinds /\ FactKinds \subseteq Kinds /\ CapRes \subseteq Res
  BY DEF Kinds, Res
<1>n. NoneOn(CapRes) \in [CapRes -> OrNone(Resource) \cap OrNone(Values)]
  BY DEF NoneOn, OrNone
<1>1. CASE Register
  BY <1>1 DEF Register, diskVars, workVars, resultVars, boundVars
<1>2. CASE FetchPayload
  <2>1. /\ payload' = GetPayload /\ todo' = payload'.caps /\ pc' = "caps"
        /\ UNCHANGED <<cpVars, dp, diskVars, storage, cur, pend, actual,
                       resultVars, unreported, boundVars>>
    BY <1>2 DEF FetchPayload
  <2>2. todo' \subseteq Kinds
    BY <2>1, <1>k, GetPayloadType
  <2>3. GetPayload.light => file # None
    BY DEF GetPayload, LightPayload, FullPayload, UpToDate
  <2> QED
    BY <2>1, <2>2, <2>3, GetPayloadType
       DEF cpVars, diskVars, resultVars, boundVars
<1>3. CASE FinishKind
  BY <1>3, <1>k DEF FinishKind, cpVars, diskVars, boundVars, OrNone, NoneOn
<1>4. CASE Finalize
  BY <1>4, <1>k DEF Finalize, StartFacts, cpVars, resultVars, boundVars
<1>5. CASE FinalizeFails
  BY <1>5, <1>k, BoundType DEF FinalizeFails, StartFacts, cpVars, diskVars
<1>6. CASE StartReport
  BY <1>6 DEF StartReport, cpVars, diskVars, workVars, resultVars, boundVars
<1>7. CASE Save
  BY <1>7, EndIterationType DEF Save, cpVars, boundVars, OrNone
<1>8. CASE SaveFails
  BY <1>8, EndIterationType, BoundType DEF SaveFails, cpVars, diskVars, OrNone
<1>9. ASSUME NEW k \in CapKinds, ListKind(k)
      PROVE  CoreTypeOK' /\ LightInv'
  <2>1. actual' \in [CapRes -> OrNone(Resource)]
    BY <1>9, <1>k, ListedType DEF ListKind, OrNone
  <2> QED
    BY <1>9, <2>1 DEF ListKind, cpVars, diskVars, resultVars, boundVars, OrNone
<1>10. ASSUME NEW k \in CapKinds, ListKindFails(k)
       PROVE  CoreTypeOK' /\ LightInv'
  BY <1>10, BoundType DEF ListKindFails, cpVars, diskVars
<1>11. ASSUME NEW k \in FactKinds, CollectFacts(k)
       PROVE  CoreTypeOK' /\ LightInv'
  <2>1. collected' \in [Res -> OrNone(Resource)]
    BY <1>11, ListedType DEF CollectFacts
  <2> QED
    BY <1>11, <1>k, <2>1 DEF CollectFacts, cpVars, diskVars, boundVars
<1>12. ASSUME NEW k \in FactKinds, CollectFactsFails(k)
       PROVE  CoreTypeOK' /\ LightInv'
  BY <1>12, BoundType DEF CollectFactsFails, cpVars, diskVars
<1>13. ASSUME NEW r \in CapRes,
              \/ CreateResource(r) \/ UpdateResource(r) \/ UpdateNotFound(r)
              \/ DeleteResource(r) \/ KeepResource(r)
              \/ CreateFails(r) \/ UpdateFails(r) \/ DeleteFails(r)
       PROVE  CoreTypeOK' /\ LightInv'
  BY <1>13, OperationType
<1>14. ASSUME NEW r \in Res, Report(r)
       PROVE  CoreTypeOK' /\ LightInv'
  BY <1>14 DEF Report, diskVars, workVars, resultVars, boundVars
<1>15. ASSUME NEW r \in Res, ReportFails(r)
       PROVE  CoreTypeOK' /\ LightInv'
  BY <1>15, BoundType DEF ReportFails, cpVars, diskVars, workVars, resultVars
<1>16. CASE RemoveAgent
  BY <1>16, BoundType
     DEF RemoveAgent, diskVars, workVars, resultVars, NoneOn, OrNone
<1>17. ASSUME NEW r \in CapRes, SetTarget(r)
       PROVE  CoreTypeOK' /\ LightInv'
  BY <1>17, BoundType
     DEF SetTarget, diskVars, workVars, resultVars, OrNone
<1>18. ASSUME NEW r \in Res, Drift(r)
       PROVE  CoreTypeOK' /\ LightInv'
  BY <1>18, BoundType
     DEF Drift, cpVars, diskVars, workVars, resultVars, OrNone
<1>19. CASE Crash
  BY <1>19, EndIterationType, BoundType DEF Crash, diskVars, OrNone
<1> QED
  BY <1>1, <1>2, <1>3, <1>4, <1>5, <1>6, <1>7, <1>8, <1>9, <1>10, <1>11,
     <1>12, <1>13, <1>14, <1>15, <1>16, <1>17, <1>18, <1>19
     DEF AgentStep, Environment

\* The types of all variables, and a payload file behind a light payload.
IType == TypeOK /\ LightInv

LEMMA InitType == Init => IType
<1> SUFFICES ASSUME Init PROVE IType
  OBVIOUS
<1> USE AgentAssumption DEF Init, IType, TypeOK, LightInv, NoPayload, NoneOn, OrNone
<1>1. dp \in [Res -> OrNone(Object)]
  BY DEF Res
<1> QED
  BY <1>1

LEMMA NextType == IType /\ [Next]_vars => IType'
<1> SUFFICES ASSUME IType, [Next]_vars PROVE IType'
  OBVIOUS
<1>1. CASE Next
  <2>1. CoreTypeOK' /\ LightInv'
    BY <1>1, StepType DEF IType, Next, Agent, World, Restart
  <2>2. made' \subseteq CapRes /\ absent' \subseteq Res
    BY <1>1 DEF Next, Agent, World, Restart, History, IType, TypeOK, Res
  <2>3. lost' \subseteq CapRes
    BY <1>1 DEF Next, Agent, World, Restart, StillLost, IType, TypeOK
  <2> QED
    BY <2>1, <2>2, <2>3 DEF IType, TypeOK, CoreTypeOK
<1>2. CASE UNCHANGED vars
  BY <1>2 DEF vars, cpVars, diskVars, workVars, resultVars, boundVars,
              IType, TypeOK, LightInv
<1> QED
  BY <1>1, <1>2

\* The variables of the agent, the control plane and the data plane stay in
\* their types, whatever fails, drifts or crashes.
THEOREM TypeCorrect == Spec => []TypeOK
<1>1. IType => TypeOK
  BY DEF IType
<1> QED
  BY <1>1, InitType, NextType, PTL DEF Spec

-----------------------------------------------------------------------------
(* The agent never forgets an object it made *)

\* Which steps bring an object into being, and what they store first.
LEMMA MadeOnlyByCreate ==
    ASSUME IType, Next, NEW r \in CapRes,
           dp[r] = None, dp'[r] # None, envLeft' = envLeft
    PROVE  CreateResource(r) \/ CreateFails(r)
<1> USE DEF IType, TypeOK
<1>0. r \in Res
  BY DEF Res
<1>1. ~Environment
  BY AgentAssumption DEF Environment, RemoveAgent, SetTarget, Drift, Change
<1>2. ~Crash
  BY DEF Crash
<1>3. AgentStep
  BY <1>1, <1>2 DEF Next, Agent, World, Restart
<1>4. dp' # dp
  OBVIOUS
<1>5. PICK q \in CapRes :
        \/ CreateResource(q) \/ UpdateResource(q) \/ UpdateNotFound(q)
        \/ DeleteResource(q) \/ KeepResource(q)
        \/ CreateFails(q) \/ UpdateFails(q) \/ DeleteFails(q)
  BY <1>3, <1>4
     DEF AgentStep, Register, FetchPayload, FinishKind, Finalize,
         FinalizeFails, StartReport, Save, SaveFails, ListKind, ListKindFails,
         CollectFacts, CollectFactsFails, Report, ReportFails
<1>6. q \in Res
  BY DEF Res
<1>7. q = r
  BY <1>0, <1>5, <1>6
     DEF CreateResource, UpdateResource, UpdateNotFound, DeleteResource,
         KeepResource, CreateFails, UpdateFails, DeleteFails
<1> QED
  BY <1>0, <1>5, <1>7
     DEF UpdateResource, UpdateNotFound, DeleteResource, KeepResource,
         UpdateFails, DeleteFails

\* Target fields disappear only with the object, or in a crash.
LEMMA StorageKept ==
    ASSUME IType, Next, NEW r \in CapRes, storage[r] # None, storage'[r] = None
    PROVE  dp'[r] = None \/ Restart
<1> USE DEF IType, TypeOK
<1>0. r \in Res
  BY DEF Res
<1>1. AppliedShape # None
  BY AgentAssumption DEF AppliedShape, Shapes
<1>2. ASSUME ~Restart PROVE dp'[r] = None
  <2>1. storage' # storage
    OBVIOUS
  <2>2. AgentStep
    BY <1>2, <2>1
       DEF Next, Agent, World, Environment, RemoveAgent, SetTarget, Drift
  <2>3. PICK q \in CapRes :
          \/ CreateResource(q) \/ UpdateResource(q) \/ UpdateNotFound(q)
          \/ DeleteResource(q) \/ KeepResource(q)
          \/ CreateFails(q) \/ UpdateFails(q) \/ DeleteFails(q)
    BY <2>1, <2>2
       DEF AgentStep, Register, FetchPayload, FinishKind, Finalize,
           FinalizeFails, StartReport, Save, SaveFails, ListKind,
           ListKindFails, CollectFacts, CollectFactsFails, Report, ReportFails
  <2> QED
    BY <1>0, <1>1, <2>3
       DEF CreateResource, UpdateResource, UpdateNotFound, DeleteResource,
           KeepResource, CreateFails, UpdateFails, DeleteFails
<1> QED
  BY <1>2

LEMMA OrphanStep ==
    ASSUME IType, NoSilentOrphan, Next
    PROVE  NoSilentOrphan'
<1> SUFFICES ASSUME NEW r \in made', storage'[r] = None
             PROVE  r \in lost'
  BY DEF NoSilentOrphan
<1>1. r \in CapRes /\ dp'[r] # None
      /\ (r \in made \/ (dp[r] = None /\ envLeft' = envLeft))
  BY DEF Next, Agent, World, Restart, History, IType, TypeOK
<1>2. r \in made
  <2>1. CASE dp[r] = None /\ envLeft' = envLeft
    <3>1. CreateResource(r) \/ CreateFails(r)
      BY <1>1, <2>1, MadeOnlyByCreate
    <3>2. storage'[r] = AppliedShape
      BY <1>1, <3>1 DEF CreateResource, CreateFails, IType, TypeOK
    <3> QED
      BY <3>2, AgentAssumption DEF AppliedShape, Shapes
  <2> QED
    BY <1>1, <2>1
<1>3. storage[r] # None \/ r \in lost
  BY <1>2 DEF NoSilentOrphan
<1>4. CASE Restart
  BY <1>1, <1>3, <1>4 DEF Restart
<1>5. CASE ~Restart
  <2>1. storage[r] = None
    BY <1>1, <1>5, StorageKept
  <2> QED
    BY <1>3, <1>5, <2>1 DEF Next, Agent, World, StillLost
<1> QED
  BY <1>4, <1>5

\* Every object the agent made and that still exists has its target fields in
\* the storage, or a crash lost them: the agent can still list and delete it.
THEOREM NeverForgets == Spec => []NoSilentOrphan
<1>1. Init => NoSilentOrphan
  BY DEF Init, NoSilentOrphan
<1>2. IType /\ NoSilentOrphan /\ [Next]_vars => NoSilentOrphan'
  <2>1. ASSUME NoSilentOrphan, UNCHANGED vars PROVE NoSilentOrphan'
    BY <2>1 DEF NoSilentOrphan, vars
  <2> QED
    BY <2>1, OrphanStep
<1> QED
  BY <1>1, <1>2, InitType, NextType, PTL DEF Spec

-----------------------------------------------------------------------------
(* What the control plane wants is never deleted *)

\* Only kinds with a basket are actualized, only resources of the current
\* kind are pending, and a light payload agrees with the payload file.
BasketInv ==
    /\ pc = "caps" => todo \subseteq payload.caps
    /\ cur # None => pc = "caps" /\ cur \in payload.caps
    /\ \A r \in pend : cur # None /\ KindOf[r] = cur
    /\ payload.light =>
         SamePayloadHash(file, payload.hash.want, payload.hash.seen)

LEMMA BasketInit == Init => BasketInv
  BY DEF Init, BasketInv, NoPayload

LEMMA BasketNext == IType /\ BasketInv /\ [Next]_vars => BasketInv'
<1> SUFFICES ASSUME IType, BasketInv, [Next]_vars PROVE BasketInv'
  OBVIOUS
<1> USE DEF BasketInv
<1>1. CASE UNCHANGED vars
  BY <1>1 DEF vars, workVars, diskVars, SamePayloadHash
<1>2. CASE Next
  <2>0. AgentStep \/ Environment \/ Crash
    BY <1>2 DEF Next, Agent, World, Restart
  <2>1. CASE FetchPayload
    <3>1. payload'.light =>
            SamePayloadHash(file, payload'.hash.want, payload'.hash.seen)
      BY <2>1 DEF FetchPayload, GetPayload, LightPayload, FullPayload, UpToDate
    <3>2. file' = file /\ cur' = cur /\ pend' = pend /\ pc = "idle"
          /\ pc' = "caps" /\ todo' = payload'.caps
      BY <2>1 DEF FetchPayload, diskVars
    <3> QED
      BY <3>1, <3>2 DEF SamePayloadHash
  <2>2. CASE Save \/ SaveFails \/ Crash
    BY <2>2 DEF Save, SaveFails, Crash, EndIteration, NoPayload
  <2>3. ASSUME NEW k \in CapKinds, ListKind(k) PROVE BasketInv'
    <3>1. k # None
      BY AgentAssumption DEF Kinds
    <3> QED
      BY <2>3, <3>1 DEF ListKind, SamePayloadHash, diskVars
  <2>4. ASSUME NEW k \in CapKinds, ListKindFails(k) PROVE BasketInv'
    BY <2>4 DEF ListKindFails, SamePayloadHash, diskVars
  <2>5. ASSUME NEW r \in CapRes,
               \/ CreateResource(r) \/ UpdateResource(r) \/ UpdateNotFound(r)
               \/ DeleteResource(r) \/ KeepResource(r)
               \/ CreateFails(r) \/ UpdateFails(r) \/ DeleteFails(r)
        PROVE  BasketInv'
    <3>1. OnResource(r)
      BY <2>5 DEF CreateResource, UpdateResource, UpdateNotFound,
         DeleteResource, KeepResource, CreateFails, UpdateFails, DeleteFails
    <3> QED
      BY <3>1 DEF OnResource, SamePayloadHash, diskVars
  <2>6. CASE FinishKind
    BY <2>6 DEF FinishKind, SamePayloadHash, diskVars
  <2>7. CASE Finalize \/ FinalizeFails
    BY <2>7 DEF Finalize, FinalizeFails, StartFacts, SamePayloadHash, diskVars
  <2>8. ASSUME NEW k \in FactKinds, CollectFacts(k) \/ CollectFactsFails(k)
        PROVE  BasketInv'
    BY <2>8 DEF CollectFacts, CollectFactsFails, SamePayloadHash, diskVars
  <2>9. CASE StartReport
    BY <2>9 DEF StartReport, SamePayloadHash, diskVars, workVars
  <2>10. CASE Register \/ (\E r \in Res : Report(r) \/ ReportFails(r))
              \/ Environment
    BY <2>10 DEF Register, Report, ReportFails, Environment, RemoveAgent,
         SetTarget, Drift, SamePayloadHash, diskVars, workVars
  <2> QED
    BY <2>0, <2>1, <2>2, <2>3, <2>4, <2>5, <2>6, <2>7, <2>8, <2>9, <2>10
       DEF AgentStep
<1> QED
  BY <1>1, <1>2

\* A pending resource the payload does not ask for is one the control plane
\* did not want when the payload was fetched.
LEMMA UnwantedIsUnwanted ==
    ASSUME IType, BasketInv, NEW r \in pend, Wanted(r) = None
    PROVE  payload.hash.want[r] = None
<1>1. r \in CapRes /\ r \in Res /\ KindOf[r] \in payload.caps
  BY DEF BasketInv, IType, TypeOK, Res
<1>2. CASE ~payload.light
  BY <1>1, <1>2 DEF Wanted
<1>3. CASE payload.light
  <2>1. file[r] \in OrNone(Resource)
    BY <1>1, <1>3 DEF IType, TypeOK, LightInv, OrNone
  <2>2. file[r] = None
    BY <1>1, <1>3, <2>1, AgentAssumption DEF Wanted, OrNone, Resource
  <2> QED
    BY <1>1, <1>3, <2>2 DEF BasketInv, SamePayloadHash
<1> QED
  BY <1>2, <1>3

\* Whatever fails or changes meanwhile, the agent deletes an object only if
\* the payload it fetched did not want it.
THEOREM NeverDestroysWanted == Spec => WantedNeverDestroyed
<1> DEFINE P == \A r \in CapRes : /\ dp[r] # None /\ dp'[r] = None
                                  /\ envLeft' = envLeft
                                  => payload.hash.want[r] = None
<1>1. IType /\ BasketInv /\ [Next]_vars => [P]_vars
  <2> SUFFICES ASSUME IType, BasketInv, Next,
                      NEW r \in CapRes, dp[r] # None, dp'[r] = None,
                      envLeft' = envLeft
               PROVE  payload.hash.want[r] = None
    OBVIOUS
  <2>0. r \in Res
    BY DEF Res
  <2>1. ~Environment /\ ~Crash
    BY AgentAssumption DEF Environment, RemoveAgent, SetTarget, Drift, Change,
       Crash, IType, TypeOK
  <2>2. dp' # dp
    OBVIOUS
  <2>3. PICK q \in CapRes :
          \/ CreateResource(q) \/ UpdateResource(q) \/ UpdateNotFound(q)
          \/ DeleteResource(q) \/ KeepResource(q)
          \/ CreateFails(q) \/ UpdateFails(q) \/ DeleteFails(q)
    BY <2>1, <2>2
       DEF Next, Agent, World, Restart, AgentStep, Register, FetchPayload,
           FinishKind, Finalize, FinalizeFails, StartReport, Save, SaveFails,
           ListKind, ListKindFails, CollectFacts, CollectFactsFails, Report,
           ReportFails
  <2>4. \A x \in Extras : Wanted(q) # None => [t |-> Wanted(q), x |-> x] # None
    <3>1. Wanted(q) \in OrNone(Values)
      BY WantedType DEF IType
    <3> QED
      BY <3>1, AgentAssumption DEF OrNone, Object
  <2>5. q = r /\ (DeleteResource(r) \/ DeleteFails(r))
    BY <2>0, <2>3, <2>4
       DEF IType, TypeOK, CreateResource, UpdateResource, UpdateNotFound,
           DeleteResource, KeepResource, CreateFails, UpdateFails, DeleteFails,
           NeedsCreate, NeedsUpdate
  <2>6. r \in pend /\ Wanted(r) = None
    BY <2>5 DEF DeleteResource, DeleteFails, OnResource, NeedsDelete
  <2> QED
    BY <2>6, UnwantedIsUnwanted
<1>2. Init => IType /\ BasketInv
  BY InitType, BasketInit
<1>3. IType /\ BasketInv /\ [Next]_vars => IType' /\ BasketInv'
  BY NextType, BasketNext
<1> QED
  BY <1>1, <1>2, <1>3, PTL DEF Spec, WantedNeverDestroyed

-----------------------------------------------------------------------------
(* A report is withdrawn only if the resource was seen absent *)

\* What a resource missing from the list, from the collected payload of a
\* finished resource, or from that of a processed kind says about it.
AbsentInv ==
    /\ \A r \in CapRes : cur # None /\ KindOf[r] = cur /\ actual[r] = None
                         => r \in absent
    /\ \A r \in CapRes : /\ cur # None /\ KindOf[r] = cur
                         /\ r \notin pend /\ collected[r] = None
                         => r \in absent
    /\ \A r \in Res : KindOf[r] \in processed /\ collected[r] = None
                      => r \in absent
    /\ \A r \in unreported : KindOf[r] \in processed
    /\ pc # "report" => unreported = {}
    /\ pc = "idle" => processed = {}

LEMMA AbsentInit == Init => AbsentInv
  BY DEF Init, AbsentInv

\* The history of absences only grows within an iteration.
LEMMA AbsentGrows ==
    ASSUME IType, Next, pc' # "idle"
    PROVE  /\ absent \subseteq absent'
           /\ \A r \in Res : Listed(r)' = None => r \in absent'
           /\ \A r \in pend \ pend' : /\ faultsLeft' # faultsLeft
                                      /\ Wanted(r) # None
                                      => r \in absent'
  BY DEF Next, Agent, World, Restart, History

\* One resource of the current capability is done.
LEMMA AbsentOperation ==
    ASSUME IType, AbsentInv, BasketInv, Next, NEW r \in CapRes,
           \/ CreateResource(r) \/ UpdateResource(r) \/ UpdateNotFound(r)
           \/ DeleteResource(r) \/ KeepResource(r)
           \/ CreateFails(r) \/ UpdateFails(r) \/ DeleteFails(r)
    PROVE  AbsentInv'
<1> USE DEF IType, TypeOK
<1>0. r \in Res
  BY DEF Res
<1>1. /\ pc = "caps" /\ pc' = "caps" /\ cur # None /\ cur' = cur /\ r \in pend
      /\ pend' = pend \ {r} /\ actual' = actual /\ processed' = processed
      /\ unreported' = unreported /\ KindOf[r] = cur
  BY DEF OnResource, CreateResource, UpdateResource, UpdateNotFound, BasketInv,
         DeleteResource, KeepResource, CreateFails, UpdateFails, DeleteFails
<1>2. absent \subseteq absent' /\ (Listed(r)' = None => r \in absent')
  BY <1>0, <1>1, AbsentGrows
<1>3. \A q \in Res : q # r => collected'[q] = collected[q]
  BY DEF Collect, CreateResource, UpdateResource, UpdateNotFound,
         DeleteResource, KeepResource, CreateFails, UpdateFails, DeleteFails
<1>4. collected'[r] = None => r \in absent'
  <2>1. CASE CreateResource(r) \/ UpdateResource(r)
    <3>1. CoreTypeOK'
      BY OperationType
    <3>2. dp'[r] # None
      <4>1. \A x \in Extras : Wanted(r) # None
                              => [t |-> Wanted(r), x |-> x] # None
        <5>1. Wanted(r) \in OrNone(Values)
          BY WantedType
        <5> QED
          BY <5>1, AgentAssumption DEF OrNone, Object
      <4> QED
        BY <1>0, <2>1, <4>1 DEF CreateResource, UpdateResource, NeedsCreate,
           NeedsUpdate
    <3>3. FromValue(dp'[r], AppliedShape) # None
      BY <1>0, <3>1, <3>2, FromValueType, AgentAssumption DEF CoreTypeOK, OrNone
    <3> QED
      BY <1>0, <2>1, <3>3 DEF CreateResource, UpdateResource, Collect
  <2>2. CASE KeepResource(r)
    BY <1>0, <2>2 DEF KeepResource, Collect
  <2>3. CASE UpdateNotFound(r) \/ DeleteResource(r)
    <3>1. dp'[r] = None
      BY <1>0, <2>3 DEF UpdateNotFound, DeleteResource
    <3> QED
      BY <1>2, <3>1 DEF Listed
  <2>4. CASE CreateFails(r) \/ UpdateFails(r)
    <3>1. faultsLeft' # faultsLeft /\ Wanted(r) # None
      BY <2>4, AgentAssumption
         DEF CreateFails, UpdateFails, Fault, NeedsCreate, NeedsUpdate
    <3> QED
      BY <1>1, <3>1, AbsentGrows
  <2>5. CASE DeleteFails(r)
    <3>1. collected'[r] = actual[r]
      BY <1>0, <2>5 DEF DeleteFails, Collect
    <3> QED
      BY <1>1, <1>2, <3>1 DEF AbsentInv
  <2> QED
    BY <2>1, <2>2, <2>3, <2>4, <2>5
<1>5. CapRes \subseteq Res
  BY DEF Res
<1>6. unreported = {}
  BY <1>1 DEF AbsentInv
<1>7. ASSUME NEW q \in CapRes, KindOf[q] = cur, q \notin pend', collected'[q] = None
      PROVE  q \in absent'
  <2>1. CASE q = r
    BY <1>4, <1>7, <2>1
  <2>2. CASE q # r
    BY <1>1, <1>2, <1>3, <1>5, <1>7, <2>2 DEF AbsentInv
  <2> QED
    BY <2>1, <2>2
<1>8. ASSUME NEW q \in Res, KindOf[q] \in processed, collected'[q] = None
      PROVE  q \in absent'
  <2>1. CASE q = r
    BY <1>4, <1>8, <2>1
  <2>2. CASE q # r
    BY <1>2, <1>3, <1>8, <2>2 DEF AbsentInv
  <2> QED
    BY <2>1, <2>2
<1>9. \A q \in CapRes : cur' # None /\ KindOf[q] = cur' /\ actual'[q] = None
                       => q \in absent'
  BY <1>1, <1>2 DEF AbsentInv
<1>10. unreported' = {} /\ pc' # "idle"
  BY <1>1, <1>6
<1> QED
  BY <1>1, <1>7, <1>8, <1>9, <1>10 DEF AbsentInv

LEMMA AbsentNext == IType /\ BasketInv /\ AbsentInv /\ [Next]_vars => AbsentInv'
<1> SUFFICES ASSUME IType, BasketInv, AbsentInv, [Next]_vars PROVE AbsentInv'
  OBVIOUS
<1>1. CASE UNCHANGED vars
  BY <1>1 DEF vars, workVars, resultVars, AbsentInv
<1>2. CASE Next
  <2>0. AgentStep \/ Environment \/ Crash
    BY <1>2 DEF Next, Agent, World, Restart
  <2>g. ASSUME pc' # "idle"
        PROVE  /\ absent \subseteq absent'
               /\ \A r \in Res : Listed(r)' = None => r \in absent'
    BY <1>2, <2>g, AbsentGrows
  <2>k. CapRes \subseteq Res
    BY DEF Res
  <2>1. CASE Save \/ SaveFails \/ Crash
    BY <2>1 DEF Save, SaveFails, Crash, EndIteration, AbsentInv
  <2>2. ASSUME UNCHANGED <<pc, cur, actual, pend, processed, collected, unreported>>,
               pc' # "idle"
        PROVE  AbsentInv'
    BY <2>2, <2>g DEF AbsentInv
  <2>3. CASE Register \/ Environment
    <3>1. UNCHANGED <<pc, cur, actual, pend, processed, collected, unreported>>
      BY <2>3 DEF Register, Environment, RemoveAgent, SetTarget, Drift,
                  workVars, resultVars
    <3>2. CASE pc = "idle"
      <4>1. cur = None /\ processed = {} /\ unreported = {}
        BY <3>2 DEF BasketInv, AbsentInv
      <4> QED
        BY <3>1, <3>2, <4>1 DEF AbsentInv
    <3> QED
      BY <2>2, <3>1, <3>2 DEF AbsentInv
  <2>4. CASE FetchPayload
    BY <2>4, <2>g DEF FetchPayload, resultVars, AbsentInv
  <2>5. ASSUME NEW k \in CapKinds, ListKind(k) PROVE AbsentInv'
    <3>1. /\ cur' = k /\ pc = "caps" /\ pc' = "caps"
          /\ actual' = [r \in CapRes |-> IF KindOf[r] = k THEN Listed(r) ELSE None]
          /\ pend' = {r \in CapRes : /\ KindOf[r] = k
                                     /\ Wanted(r) # None \/ Listed(r) # None}
          /\ UNCHANGED <<dp, storage, processed, collected, unreported>>
      BY <2>5 DEF ListKind, resultVars
    <3>2. \A r \in Res : Listed(r) = None => r \in absent'
      BY <3>1, <2>g DEF Listed
    <3> QED
      BY <3>1, <3>2, <2>g, <2>k DEF AbsentInv
  <2>6. ASSUME NEW k \in CapKinds, ListKindFails(k) PROVE AbsentInv'
    BY <2>6, <2>g DEF ListKindFails, AbsentInv
  <2>7. ASSUME NEW r \in CapRes,
               \/ CreateResource(r) \/ UpdateResource(r) \/ UpdateNotFound(r)
               \/ DeleteResource(r) \/ KeepResource(r)
               \/ CreateFails(r) \/ UpdateFails(r) \/ DeleteFails(r)
        PROVE  AbsentInv'
    BY <1>2, <2>7, AbsentOperation
  <2>8. CASE FinishKind
    <3>1. /\ pc = "caps" /\ pc' = "caps" /\ cur # None /\ pend = {}
          /\ processed' = processed \cup {cur} /\ cur' = None
          /\ UNCHANGED <<collected, unreported>>
      BY <2>8 DEF FinishKind
    <3>2. \A r \in Res : KindOf[r] = cur => r \in CapRes
      BY <3>1, AgentAssumption DEF IType, TypeOK, OrNone, FactKinds, Res
    <3> QED
      BY <3>1, <3>2, <2>g DEF AbsentInv
  <2>9. CASE Finalize \/ FinalizeFails
    BY <2>9, <2>g DEF Finalize, FinalizeFails, StartFacts, resultVars, AbsentInv
  <2>10. ASSUME NEW k \in FactKinds, CollectFacts(k) PROVE AbsentInv'
    <3>1. /\ pc = "facts" /\ pc' = "facts" /\ cur' = cur /\ cur = None
          /\ collected' = [r \in Res |-> IF KindOf[r] = k THEN Listed(r)
                                         ELSE collected[r]]
          /\ processed' = processed \cup {k}
          /\ UNCHANGED <<dp, storage, unreported>>
      BY <2>10 DEF CollectFacts, BasketInv
    <3>2. \A r \in Res : Listed(r) = None => r \in absent'
      BY <3>1, <2>g DEF Listed
    <3> QED
      BY <3>1, <3>2, <2>g DEF AbsentInv
  <2>11. ASSUME NEW k \in FactKinds, CollectFactsFails(k) PROVE AbsentInv'
    BY <2>11, <2>g DEF CollectFactsFails, AbsentInv
  <2>12. CASE StartReport
    BY <2>12, <2>g DEF StartReport, workVars, resultVars, AbsentInv
  <2>13. ASSUME NEW r \in Res, Report(r) \/ ReportFails(r) PROVE AbsentInv'
    BY <2>13, <2>g DEF Report, ReportFails, workVars, resultVars, AbsentInv
  <2> QED
    BY <2>0, <2>1, <2>3, <2>4, <2>5, <2>6, <2>7, <2>8, <2>9, <2>10, <2>11,
       <2>12, <2>13 DEF AgentStep
<1> QED
  BY <1>1, <1>2

\* A report is withdrawn only if the resource was absent in this iteration or
\* could not be applied: no failed list, failed delete or failed persist of
\* the target fields withdraws the report of an object that is still there.
THEOREM WithdrawsOnlyGone == Spec => WithdrawnOnlyIfGone
<1> DEFINE P == \A r \in Res : records[r] # None /\ records'[r] = None
                               => r \in absent
<1>1. IType /\ AbsentInv /\ [Next]_vars => [P]_vars
  <2> SUFFICES ASSUME IType, AbsentInv, Next,
                      NEW r \in Res, records[r] # None, records'[r] = None
               PROVE  r \in absent
    OBVIOUS
  <2>1. records' # records
    OBVIOUS
  <2>2. PICK q \in Res : Report(q)
    BY <2>1
       DEF Next, Agent, World, Restart, AgentStep, Environment, Register,
           FetchPayload, FinishKind, Finalize, FinalizeFails, StartReport, Save,
           SaveFails, ListKind, ListKindFails, CollectFacts, CollectFactsFails,
           ReportFails, OnResource, CreateResource, UpdateResource,
           UpdateNotFound, DeleteResource, KeepResource, CreateFails,
           UpdateFails, DeleteFails, RemoveAgent, SetTarget, Drift, Crash, cpVars
  <2>3. q = r /\ r \in unreported /\ collected[r] = None
    BY <2>2 DEF Report, IType, TypeOK
  <2> QED
    BY <2>3 DEF AbsentInv
<1>2. Init => IType /\ BasketInv /\ AbsentInv
  BY InitType, BasketInit, AbsentInit
<1>3. IType /\ BasketInv /\ AbsentInv /\ [Next]_vars
      => IType' /\ BasketInv' /\ AbsentInv'
  BY NextType, BasketNext, AbsentNext
<1> QED
  BY <1>1, <1>2, <1>3, PTL DEF Spec, WithdrawnOnlyIfGone

=============================================================================
