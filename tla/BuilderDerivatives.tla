------------------------- MODULE BuilderDerivatives -------------------------
(***************************************************************************)
(* The universal builder for a model with derivatives and a master, as the *)
(* PaaS and infrastructure builders use it: a Database of a NodeSet is the *)
(* instance, its PGDatabase objects are the derivatives.  Only derivatives *)
(* are sent to agents.                                                     *)
(*                                                                         *)
(* The rows of the instances, their target rows, the vectors of new,       *)
(* deleted and updated instances and the transaction are those of          *)
(* UniversalBuilder; every step here also does what the code does to the   *)
(* derivatives (parts).  The vector of outdated instances is another one,  *)
(* and a vector of outdated masters follows it.                            *)
(*                                                                         *)
(* Abstractions.  The master is the number of its last full hash, 0 for    *)
(* the empty one.  What the hooks build is Wanted: the parts for a value   *)
(* of the instance and a state of the master; a part has the value of the  *)
(* instance it was built from, and that value is its hash.                 *)
(***************************************************************************)
EXTENDS UniversalBuilder

CONSTANTS
    Parts,        \* derivatives an instance may have
    Wanted(_, _), \* the parts the hooks build
    MaxMaster     \* bound: changes of the master

Masters == 0..MaxMaster
PartRow == [value : Values, full : OrNone(Row), status : Statuses]

ASSUME DerivativesAssumption ==
    /\ IsFiniteSet(Parts)
    /\ MaxMaster \in Nat
    /\ \A v \in Values, m \in Masters : Wanted(v, m) \subseteq Parts
    /\ None \notin PartRow

VARIABLES
    part,        \* parts of every instance as the transaction sees them
    built,       \* master_full_hash of every target row, likewise
    shownPart, shownBuilt,  \* both as everybody else sees them
    report,      \* rows the agents reported for the parts
    master,      \* full_hash of the master
    changed,     \* outdated parts a vector read
    seenReport,  \* their reports as it read them
    seenMaster   \* the master as it read it

partVars  == <<part, built>>
shownVars == <<shownPart, shownBuilt>>
dpVars    == <<report, master>>
pairVars  == <<changed, seenReport, seenMaster>>
allVars   == <<vars, partVars, shownVars, dpVars, pairVars>>

NoParts   == [p \in Parts |-> None]
NoChange  == [i \in Instances |-> {}]
NoReports == [i \in Instances |-> NoParts]

DInit ==
    /\ Init
    /\ part = NoReports /\ shownPart = NoReports
    /\ built = [i \in Instances |-> 0] /\ shownBuilt = built
    /\ report = NoReports
    /\ master = 0
    /\ changed = NoChange /\ seenReport = NoReports /\ seenMaster = 0

-----------------------------------------------------------------------------
(* Users, agents and the master *)

UserStep(i) ==
    /\ Edit(i) \/ Remove(i) \/ ChangeReadiness(i)
    /\ UNCHANGED <<partVars, shownVars, dpVars, pairVars>>

\* An agent reports a part it was given, or that it is gone.
ReportPart(i, p) ==
    /\ reportsLeft > 0 /\ reportsLeft' = reportsLeft - 1
    /\ IF shownPart[i][p] = None
       THEN report[i][p] # None /\ report' = [report EXCEPT ![i][p] = None]
       ELSE \E s \in {"IN_PROGRESS", "ACTIVE"},
               r \in {shownPart[i][p], report[i][p]} \ {None} :
              report' = [report EXCEPT ![i][p] = [value |-> r.value, status |-> s]]
    /\ UNCHANGED <<userVars, dbVars, actual, ready, readVars, batch, missed,
                   faultsLeft, partVars, shownVars, master, pairVars>>

ChangeMaster ==
    /\ master < MaxMaster /\ master' = master + 1
    /\ UNCHANGED <<vars, partVars, shownVars, report, pairVars>>

-----------------------------------------------------------------------------
(* What the builder does to the parts of an instance *)

NewPart(v) == [value |-> v, full |-> None, status |-> "NEW"]

\* _actualize_derivative_target_resources: parts that are not wanted are
\* deleted, new ones inserted, changed ones get the new value and status.
Rebuild(parts, v, wanted) ==
    [p \in Parts |->
        IF p \notin wanted THEN None
        ELSE IF parts[p] = None THEN NewPart(v)
        ELSE IF parts[p].value = v THEN parts[p]
        ELSE [parts[p] EXCEPT !.value = v, !.status = "NEW"]]

\* actualize_paas_objects "ignores existing objects and just recreates them".
PaasObjects(parts, v, m) == Rebuild(parts, v, Wanted(v, m))

\* (mutant) the report is ACTIVE whatever it is of.
HashStatusAny(row, seenRow) == [row EXCEPT !.full = seenRow, !.status = seenRow.status]

\* (mutant) nothing is taken over unless the status changes.
HashStatusLazy(row, seenRow) ==
    IF seenRow.status = row.status \/ (seenRow.status = "ACTIVE" /\ seenRow.value # row.value)
    THEN row
    ELSE [row EXCEPT !.full = seenRow, !.status = seenRow.status]

\* _actualize_resource_hash_status
HashStatus(row, seenRow) ==
    [row EXCEPT
        !.full = seenRow,
        !.status = IF seenRow.status # "ACTIVE" \/ seenRow.value = row.value
                   THEN seenRow.status ELSE @]

Taken(i) ==
    [p \in Parts |-> IF p \in changed[i] THEN HashStatus(part[i][p], seenReport[i][p])
                     ELSE part[i][p]]

OutdatedParts(i) ==
    {p \in Parts : /\ part[i][p] # None /\ report[i][p] # None
                   /\ part[i][p].full # report[i][p]}

HasParts(i) == part[i] # NoParts

KeepParts == UNCHANGED <<partVars, shownVars, dpVars, pairVars>>

-----------------------------------------------------------------------------
(* New, deleted and updated instances *)

FetchVector == (FetchNew \/ FetchDeleted \/ FetchUpdated) /\ KeepParts

CreateInstance(i) ==
    /\ CreateTarget(i)
    /\ part' = [part EXCEPT ![i] = PaasObjects(NoParts, mem[i].value, master)]
    /\ built' = [built EXCEPT ![i] = 0]
    /\ UNCHANGED <<shownVars, dpVars, pairVars>>

\* (mutant) only the resource of the instance is deleted.
DeleteInstanceOnly(i) == DeleteTarget(i) /\ KeepParts

DeleteInstance(i) ==
    /\ DeleteTarget(i)
    /\ part' = [part EXCEPT ![i] = NoParts]
    /\ UNCHANGED <<built, shownVars, dpVars, pairVars>>

\* (mutant) changed parts are updated, new ones inserted, none is deleted.
UpdateInstanceKeeping(i) ==
    /\ UpdateTarget(i)
    /\ part' = [part EXCEPT ![i] =
                  Rebuild(@, mem[i].value, Wanted(mem[i].value, master)
                                           \cup {p \in Parts : @[p] # None})]
    /\ UNCHANGED <<built, shownVars, dpVars, pairVars>>

UpdateInstance(i) ==
    /\ UpdateTarget(i)
    /\ part' = [part EXCEPT ![i] = PaasObjects(@, mem[i].value, master)]
    /\ UNCHANGED <<built, shownVars, dpVars, pairVars>>

-----------------------------------------------------------------------------
(* Outdated instances: a report of a part differs from its target row *)

OutdatedPairs == {pair \in Instances \X Parts : pair[2] \in OutdatedParts(pair[1])}

\* _get_outdated_derivative_resources reads up to Limit outdated parts, then
\* the instances and the target rows of their masters.
FetchOutdatedParts(pairs) ==
    /\ pc = "updated" /\ batch = {}
    /\ pc' = "outdated"
    /\ pairs \in Limited(OutdatedPairs)
    /\ changed' = [i \in Instances |-> {p \in Parts : <<i, p>> \in pairs}]
    /\ seenReport' = report
    /\ mem' = inst
    /\ UNCHANGED <<userVars, dbVars, agentVars, seen, missed, faultsLeft,
                   partVars, shownVars, dpVars, seenMaster>>

Owners(pairs) == {pair[1] : pair \in pairs}

FetchOutdatedInstances ==
    \E pairs \in Limited(OutdatedPairs) :
        /\ FetchOutdatedParts(pairs)
        /\ \A i \in Owners(pairs) : inst[i] # None
        /\ batch' = Owners(pairs)

\* One of the instances is gone, its target row is not yet: the numbers of
\* instances and resources differ and the whole vector is given up.
FetchOutdatedFails ==
    \E pairs \in Limited(OutdatedPairs) :
        /\ FetchOutdatedParts(pairs)
        /\ \E i \in Owners(pairs) : inst[i] = None
        /\ batch' = {}

\* The instance is saved with the status the hook gave it, the target row
\* gets that status and tracks the instance.
SaveActualized(i, parts) ==
    /\ Handle("outdated", i) /\ i \in ready
    /\ part' = [part EXCEPT ![i] = parts]
    /\ \E s \in Statuses :
         /\ Save(i, s)
         /\ target' = [target EXCEPT ![i] = [@ EXCEPT !.status = s, !.tracked = Tracked(i, s)]]
    /\ Miss(i, inst[i] # mem[i] \/ mem[i].value # target[i].value)
    /\ UNCHANGED <<faultsLeft, built, shownVars, dpVars, pairVars>>

\* The hook of the model sees the changed parts only, and keeps them.
ActualizeChanged(i) == SaveActualized(i, Taken(i))

\* The hook of the model sees all parts, and builds them again.
ActualizeAll(i) == SaveActualized(i, PaasObjects(Taken(i), mem[i].value, master))

\* The instance is gone since it was read: the savepoint is undone.
InstanceNotFound(i) ==
    /\ CreateNotFound(i) \/ (Handle("outdated", i) /\ i \in ready /\ inst[i] = None
                             /\ UNCHANGED <<inst, target, undo, missed, faultsLeft>>)
    /\ KeepParts

\* The hook of the vector of masters raises: the savepoint is undone, and the
\* hash of the master is not committed.
MasterRaises(i) ==
    /\ Handle("master", i) /\ HasParts(i)
    /\ faultsLeft > 0 /\ faultsLeft' = faultsLeft - 1
    /\ UNCHANGED <<inst, target, undo, missed>>

SkipInstance(i) == (Hold(i) \/ Raise(i) \/ MasterRaises(i)) /\ KeepParts

-----------------------------------------------------------------------------
(* Outdated masters *)

FetchOutdatedMasters ==
    /\ pc = "outdated" /\ batch = {}
    /\ pc' = "master"
    /\ batch' \in Limited({i \in Instances : target[i] # None /\ built[i] # master})
    /\ seenMaster' = master
    /\ UNCHANGED <<userVars, dbVars, agentVars, mem, seen, missed, faultsLeft,
                   partVars, shownVars, dpVars, changed, seenReport>>

\* (mutant) the hash of the master is not committed.
ActualizeMasterAgain(i) ==
    /\ Handle("master", i) /\ HasParts(i)
    /\ part' = [part EXCEPT ![i] = PaasObjects(@, target[i].value, seenMaster)]
    /\ UNCHANGED <<inst, target, undo, missed, faultsLeft, built, shownVars, dpVars, pairVars>>

\* _actualize_outdated_master_hash_instance builds the parts from the target
\* row and commits the hash the vector read.
ActualizeMaster(i) ==
    /\ Handle("master", i) /\ HasParts(i)
    /\ part' = [part EXCEPT ![i] = PaasObjects(@, target[i].value, seenMaster)]
    /\ built' = [built EXCEPT ![i] = seenMaster]
    /\ UNCHANGED <<inst, target, undo, missed, faultsLeft, shownVars, dpVars, pairVars>>

\* An instance without parts is not in the map of derivatives: the KeyError
\* is raised outside the savepoint and ends the vector.
MasterWithoutParts(i) ==
    /\ pc = "master" /\ i \in batch /\ ~HasParts(i)
    /\ batch' = {}
    /\ UNCHANGED <<inst, target, undo, shown, missed, faultsLeft, agentVars,
                   readVars, edits>>
    /\ KeepParts

-----------------------------------------------------------------------------
(* End of the transaction *)

EndRead ==
    /\ changed' = NoChange /\ seenReport' = NoReports /\ seenMaster' = 0
    /\ UNCHANGED dpVars

CommitAll ==
    /\ pc = "master" /\ batch = {}
    /\ EndTransaction /\ EndRead
    /\ shown' = target /\ shownPart' = part /\ shownBuilt' = built
    /\ UNCHANGED <<inst, target, missed, faultsLeft, partVars>>

RollbackAll ==
    /\ Rollback /\ EndRead
    /\ part' = shownPart /\ built' = shownBuilt
    /\ UNCHANGED shownVars

-----------------------------------------------------------------------------
(* Specification *)

InstanceStep(i) ==
    \/ CreateInstance(i) \/ DeleteInstance(i) \/ UpdateInstance(i)
    \/ ActualizeChanged(i) \/ ActualizeAll(i) \/ InstanceNotFound(i) \/ SkipInstance(i)
    \/ ActualizeMaster(i) \/ MasterWithoutParts(i)

DBuilder ==
    \/ FetchVector \/ FetchOutdatedInstances \/ FetchOutdatedFails
    \/ FetchOutdatedMasters \/ CommitAll \/ RollbackAll
    \/ \E i \in Instances : InstanceStep(i)

DWorld ==
    \/ \E i \in Instances : UserStep(i) \/ \E p \in Parts : ReportPart(i, p)
    \/ ChangeMaster

DNext == DBuilder \/ DWorld

\* The looper runs one iteration after the other for ever.
DSpec == DInit /\ [][DNext]_allVars /\ WF_allVars(DBuilder)

-----------------------------------------------------------------------------
(* Properties *)

\* Types of all variables; between iterations nothing is left to commit.
DTypeOK ==
    /\ inst \in [Instances -> OrNone(Row)]
    /\ target \in [Instances -> OrNone(TargetRow)]
    /\ shown \in [Instances -> OrNone(TargetRow)]
    /\ undo \in [Instances -> OrNone(Row)]
    /\ ready \subseteq Instances
    /\ pc \in {"idle", "new", "deleted", "updated", "outdated", "master"}
    /\ batch \subseteq Instances
    /\ mem \in [Instances -> OrNone(Row)]
    /\ missed \subseteq Instances
    /\ part \in [Instances -> [Parts -> OrNone(PartRow)]]
    /\ shownPart \in [Instances -> [Parts -> OrNone(PartRow)]]
    /\ built \in [Instances -> Masters] /\ shownBuilt \in [Instances -> Masters]
    /\ report \in [Instances -> [Parts -> OrNone(Row)]]
    /\ master \in Masters /\ seenMaster \in Masters
    /\ changed \in [Instances -> SUBSET Parts]
    /\ seenReport \in [Instances -> [Parts -> OrNone(Row)]]
    /\ pc = "idle" => /\ batch = {} /\ target = shown
                      /\ part = shownPart /\ built = shownBuilt

\* Agents never see a part of an instance that has no resource, nor a part of
\* an older build than its resource: the family is changed in one savepoint
\* and shown by one commit.  If no edit of the instance waits or was missed,
\* all parts are of the build of the resource.
FamilyTogether ==
    \A i \in Instances, p \in Parts : shownPart[i][p] # None =>
        /\ shown[i] # None
        /\ shownPart[i][p].value >= shown[i].value
        /\ shown[i].tracked /\ i \notin missed => shownPart[i][p].value = shown[i].value

\* The parts of an instance that has committed the present state of its
\* master, and of which no edit waits or was missed, are those wanted for it,
\* however the master changed meanwhile.
MasterBuilt ==
    \A i \in Instances \ missed :
        shown[i] # None /\ shown[i].tracked /\ shownBuilt[i] = master
        => {p \in Parts : shownPart[i][p] # None} = Wanted(shown[i].value, master)

\* "`ACTIVE` only if the hash is the same": a part becomes ACTIVE only by a
\* report of the value agents see in its target row when it is committed.
PartActiveIfBuilt ==
    [][\A i \in Instances, p \in Parts :
         /\ shownPart'[i][p] # None /\ shownPart'[i][p].status = "ACTIVE"
         /\ shownPart[i][p] = None \/ shownPart[i][p].status # "ACTIVE"
         => shownPart'[i][p].full.value = shownPart'[i][p].value]_allVars

\* Instances the outdated vector gives up for: deleted, but not yet allowed
\* to go, with a report that was not taken over.
Stalls(i) == inst[i] = None /\ shown[i] # None /\ OutdatedParts(i) # {}

\* Every report of a part is taken over, unless a deleted instance stalls the
\* vector for all.
PartReportsTaken ==
    <>[](\A i \in ready : inst[i] # None /\ OutdatedParts(i) # {}
                          => \E j \in Instances : Stalls(j))

\* Every change of the master reaches the instances that have parts.
MasterReaches ==
    <>[](\A i \in Instances : shown[i] # None /\ shownPart[i] # NoParts
                              => \/ shownBuilt[i] = master
                                 \/ \E j \in Instances : shown[j] # None /\ shownPart[j] = NoParts)

=============================================================================
