-------------------------- MODULE UniversalBuilder --------------------------
(***************************************************************************)
(* The universal builder for a model without derivatives: users change     *)
(* the instances, the builder keeps one target resource for each, agents   *)
(* report the actual resources.                                            *)
(*                                                                         *)
(* An iteration is one database transaction that walks four vectors: new,  *)
(* deleted, updated and outdated instances.  Each vector reads its rows    *)
(* once and then handles them one by one, each in a savepoint; users and   *)
(* agents commit in between (read committed).  A row the transaction wrote *)
(* is locked until it ends.                                                *)
(*                                                                         *)
(* Abstractions.  A value is the number of the edit that gave it, and the  *)
(* hash of a resource is its value; full_hash covers value and status.     *)
(* The status ERROR is treated like IN_PROGRESS: it is not ACTIVE.         *)
(* tracked says whether tracked_at of the target row is the updated_at of  *)
(* the instance row, the only question asked of the two.                   *)
(***************************************************************************)
EXTENDS Naturals, FiniteSets

CONSTANTS
    Instances,
    None,
    Limit,       \* rows a vector reads (DEF_SQL_LIMIT)
    MaxEdits,    \* bound: instances created, changed or deleted
    MaxReports,  \* bound: reports of agents and changes of readiness
    MaxFaults    \* bound: hooks that raise, failed transactions, crashes

OrNone(S) == S \cup {None}
Values    == 1..MaxEdits
Statuses  == {"NEW", "IN_PROGRESS", "ACTIVE"}
Row       == [value : Values, status : Statuses]
TargetRow == [value : Values, full : OrNone(Row), status : Statuses, tracked : BOOLEAN]

ASSUME BuilderAssumption ==
    /\ IsFiniteSet(Instances)
    /\ Limit \in Nat \ {0}
    /\ MaxEdits \in Nat /\ MaxReports \in Nat /\ MaxFaults \in Nat
    /\ None \notin Values \cup Row \cup TargetRow

VARIABLES
    inst,      \* instance rows as the transaction of the builder sees them
    target,    \* target rows as the transaction of the builder sees them
    shown,     \* target rows as everybody else sees them
    undo,      \* committed versions of the instance rows it wrote
    actual,    \* rows the agents reported
    ready,     \* instances for which the can_* hooks say yes
    pc,        \* the vector the iteration is at
    batch,     \* its rows that are not handled yet
    mem,       \* instances as the vector read them
    seen,      \* actual rows as the vector read them
    missed,    \* history: see Miss
    edits, reportsLeft, faultsLeft

userVars   == <<inst, edits>>
dbVars     == <<target, shown, undo>>
agentVars  == <<actual, ready, reportsLeft>>
readVars   == <<pc, mem, seen>>
vars == <<userVars, dbVars, agentVars, readVars, batch, missed, faultsLeft>>

Init ==
    /\ inst = [i \in Instances |-> None]
    /\ target = [i \in Instances |-> None]
    /\ shown = target
    /\ undo = [i \in Instances |-> None]
    /\ actual = [i \in Instances |-> None]
    /\ ready \in SUBSET Instances
    /\ pc = "idle" /\ batch = {}
    /\ mem = [i \in Instances |-> None]
    /\ seen = [i \in Instances |-> None]
    /\ missed = {}
    /\ edits = 0 /\ reportsLeft = MaxReports /\ faultsLeft = MaxFaults

-----------------------------------------------------------------------------
(* Users *)

\* The row has another updated_at than any target row tracked.
Untracked(rows, i) ==
    IF rows[i] = None THEN rows ELSE [rows EXCEPT ![i].tracked = FALSE]

\* A user creates the instance or changes it; the row must not be locked.
Edit(i) ==
    /\ edits < MaxEdits /\ edits' = edits + 1
    /\ undo[i] = None
    /\ inst' = [inst EXCEPT ![i] =
                  [value  |-> edits',
                   status |-> IF inst[i] = None THEN "NEW" ELSE inst[i].status]]
    /\ target' = Untracked(target, i)
    /\ shown' = Untracked(shown, i)
    /\ missed' = missed \ {i}
    /\ UNCHANGED <<undo, agentVars, readVars, batch, faultsLeft>>

Remove(i) ==
    /\ edits < MaxEdits /\ edits' = edits + 1
    /\ undo[i] = None /\ inst[i] # None
    /\ inst' = [inst EXCEPT ![i] = None]
    /\ target' = Untracked(target, i)
    /\ shown' = Untracked(shown, i)
    /\ missed' = missed \ {i}
    /\ UNCHANGED <<undo, agentVars, readVars, batch, faultsLeft>>

-----------------------------------------------------------------------------
(* Agents and dependencies *)

Report(i) ==
    /\ reportsLeft > 0 /\ reportsLeft' = reportsLeft - 1
    /\ IF shown[i] = None
       THEN /\ actual[i] # None
            /\ actual' = [actual EXCEPT ![i] = None]
       ELSE \E s \in {"IN_PROGRESS", "ACTIVE"}, r \in {shown[i], actual[i]} \ {None} :
              actual' = [actual EXCEPT ![i] = [value |-> r.value, status |-> s]]
    /\ UNCHANGED <<userVars, dbVars, ready, readVars, batch, missed, faultsLeft>>

ChangeReadiness(i) ==
    /\ reportsLeft > 0 /\ reportsLeft' = reportsLeft - 1
    /\ ready' = IF i \in ready THEN ready \ {i} ELSE ready \cup {i}
    /\ UNCHANGED <<userVars, dbVars, actual, readVars, batch, missed, faultsLeft>>

-----------------------------------------------------------------------------
(* The builder: what the vectors read *)

Limited(S) == {T \in SUBSET S : \/ T = S /\ Cardinality(S) <= Limit
                                \/ Cardinality(T) = Limit}

\* (mutant) only the hash of the values is compared.
OutdatedByHash(i) ==
    /\ target[i] # None /\ actual[i] # None
    /\ target[i].full = None \/ target[i].full.value # actual[i].value

Outdated(i) == /\ target[i] # None /\ actual[i] # None
               /\ target[i].full # actual[i]

\* A vector starts when the one before it has handled its rows.
Fetch(from, to, S) ==
    /\ pc = from /\ batch = {}
    /\ pc' = to
    /\ batch' \in Limited(S)
    /\ mem' = inst
    /\ seen' = actual
    /\ UNCHANGED <<userVars, dbVars, agentVars, missed, faultsLeft>>

FetchNew == Fetch("idle", "new", {i \in Instances : inst[i] # None /\ target[i] = None})

FetchDeleted == Fetch("new", "deleted", {i \in Instances : inst[i] = None /\ target[i] # None})

FetchUpdated ==
    Fetch("deleted", "updated",
          {i \in Instances : inst[i] # None /\ target[i] # None /\ ~target[i].tracked})
FetchOutdated ==
    Fetch("updated", "outdated", {i \in Instances : inst[i] # None /\ Outdated(i)})

-----------------------------------------------------------------------------
(* The builder: one instance *)

Handle(v, i) ==
    /\ pc = v /\ i \in batch
    /\ batch' = batch \ {i}
    /\ UNCHANGED <<agentVars, readVars, edits, shown>>

\* instance.save(): a clean instance is not written; a dirty one is, on top
\* of what users committed since it was read, with or without their values.
Save(i, status) ==
    IF status = mem[i].status
    THEN UNCHANGED <<inst, undo>>
    ELSE /\ inst[i] # None
         /\ \E v \in {mem[i].value, inst[i].value} :
              inst' = [inst EXCEPT ![i] = [value |-> v, status |-> status]]
         /\ undo' = [undo EXCEPT ![i] = IF undo[i] = None THEN inst[i] ELSE undo[i]]

\* tracked_at = instance.updated_at, after the save.
Tracked(i, status) == status # mem[i].status \/ inst[i] = mem[i]

\* The instance has an edit that the target row does not have when it is
\* saved or its updated_at is recorded.
Miss(i, edited) == missed' = IF edited THEN missed \cup {i} ELSE missed

\* _actualize_new_instance
CreateTarget(i) ==
    /\ Handle("new", i) /\ i \in ready
    /\ Save(i, "IN_PROGRESS")
    /\ target' = [target EXCEPT ![i] =
                    [value |-> mem[i].value, full |-> None,
                     status |-> "IN_PROGRESS", tracked |-> Tracked(i, "IN_PROGRESS")]]
    /\ Miss(i, inst[i] # mem[i])
    /\ UNCHANGED faultsLeft

\* The instance is gone: its row cannot be updated, the savepoint is undone.
CreateNotFound(i) ==
    /\ Handle("new", i) /\ i \in ready
    /\ inst[i] = None /\ mem[i].status # "IN_PROGRESS"
    /\ UNCHANGED <<inst, target, undo, missed, faultsLeft>>

DeleteTarget(i) ==
    /\ Handle("deleted", i) /\ i \in ready
    /\ target' = [target EXCEPT ![i] = None]
    /\ UNCHANGED <<inst, undo, missed, faultsLeft>>

\* (mutant) tracked_at is the time of the update.
UpdateTargetNow(i) ==
    /\ Handle("updated", i) /\ i \in ready
    /\ target' = [target EXCEPT ![i] =
                    [value |-> mem[i].value, full |-> @.full,
                     status |-> mem[i].status, tracked |-> TRUE]]
    /\ UNCHANGED <<inst, undo, missed, faultsLeft>>

\* _actualize_updated_instance
UpdateTarget(i) ==
    /\ Handle("updated", i) /\ i \in ready
    /\ target' = [target EXCEPT ![i] =
                    [value |-> mem[i].value, full |-> @.full,
                     status |-> mem[i].status, tracked |-> Tracked(i, mem[i].status)]]
    /\ UNCHANGED <<inst, undo, missed, faultsLeft>>

\* (mutant) the target row takes the reported value too.
ActualizeValue(i) ==
    /\ Handle("outdated", i) /\ i \in ready
    /\ \E s \in {mem[i].status, seen[i].status} :
         /\ Save(i, s)
         /\ target' = [target EXCEPT ![i] =
                         [value |-> seen[i].value, full |-> seen[i],
                          status |-> seen[i].status, tracked |-> Tracked(i, s)]]
    /\ Miss(i, inst[i] # mem[i] \/ mem[i].value # target[i].value)
    /\ UNCHANGED faultsLeft

\* _actualize_outdated_instance: its hook may take over the reported status.
Actualize(i) ==
    /\ Handle("outdated", i) /\ i \in ready
    /\ \E s \in {mem[i].status, seen[i].status} :
         /\ Save(i, s)
         /\ target' = [target EXCEPT ![i] =
                         [value |-> @.value, full |-> seen[i],
                          status |-> seen[i].status, tracked |-> Tracked(i, s)]]
    /\ Miss(i, inst[i] # mem[i] \/ mem[i].value # target[i].value)
    /\ UNCHANGED faultsLeft

ActualizeNotFound(i) ==
    /\ Handle("outdated", i) /\ i \in ready
    /\ inst[i] = None /\ mem[i].status # seen[i].status
    /\ UNCHANGED <<inst, target, undo, missed, faultsLeft>>

\* A can_* hook says no: the instance is left for the next iteration.
Hold(i) ==
    /\ i \notin ready
    /\ \E v \in {"new", "deleted", "updated", "outdated"} : Handle(v, i)
    /\ UNCHANGED <<inst, target, undo, missed, faultsLeft>>

\* A hook raises: the savepoint is undone, the other instances go on.
Raise(i) ==
    /\ \E v \in {"new", "deleted", "updated", "outdated"} : Handle(v, i)
    /\ faultsLeft > 0 /\ faultsLeft' = faultsLeft - 1
    /\ UNCHANGED <<inst, target, undo, missed>>

-----------------------------------------------------------------------------
(* The builder: end of the transaction *)

EndTransaction ==
    /\ pc' = "idle" /\ batch' = {}
    /\ undo' = [i \in Instances |-> None]
    /\ mem' = [i \in Instances |-> None]
    /\ seen' = [i \in Instances |-> None]
    /\ UNCHANGED <<agentVars, edits>>

Commit ==
    /\ pc = "outdated" /\ batch = {}
    /\ EndTransaction
    /\ shown' = target
    /\ UNCHANGED <<inst, target, missed, faultsLeft>>

\* A statement outside a savepoint fails (a delete, a fetch, the commit) or
\* the process dies: the whole iteration is undone.
Rollback ==
    /\ pc # "idle"
    /\ faultsLeft > 0 /\ faultsLeft' = faultsLeft - 1
    /\ EndTransaction
    /\ target' = shown
    /\ inst' = [i \in Instances |-> IF undo[i] = None THEN inst[i] ELSE undo[i]]
    /\ UNCHANGED <<shown, missed>>

-----------------------------------------------------------------------------
(* Specification *)

BuilderStep(i) ==
    \/ CreateTarget(i) \/ CreateNotFound(i) \/ DeleteTarget(i)
    \/ UpdateTarget(i) \/ Actualize(i) \/ ActualizeNotFound(i)
    \/ Hold(i) \/ Raise(i)

Builder ==
    \/ FetchNew \/ FetchDeleted \/ FetchUpdated \/ FetchOutdated
    \/ Commit \/ Rollback
    \/ \E i \in Instances : BuilderStep(i)

World == \E i \in Instances : Edit(i) \/ Remove(i) \/ Report(i) \/ ChangeReadiness(i)

Next == Builder \/ World

\* The looper runs one iteration after the other for ever.
Spec == Init /\ [][Next]_vars /\ WF_vars(Builder)

-----------------------------------------------------------------------------
(* Properties *)

\* Types of all variables; between iterations nothing is left to handle or to
\* commit.
TypeOK ==
    /\ inst \in [Instances -> OrNone(Row)]
    /\ target \in [Instances -> OrNone(TargetRow)]
    /\ shown \in [Instances -> OrNone(TargetRow)]
    /\ undo \in [Instances -> OrNone(Row)]
    /\ actual \in [Instances -> OrNone(Row)]
    /\ ready \subseteq Instances
    /\ pc \in {"idle", "new", "deleted", "updated", "outdated"}
    /\ batch \subseteq Instances
    /\ pc = "idle" => batch = {} /\ target = shown
    /\ mem \in [Instances -> OrNone(Row)]
    /\ seen \in [Instances -> OrNone(Row)]
    /\ missed \subseteq Instances
    /\ edits \in 0..MaxEdits
    /\ reportsLeft \in 0..MaxReports
    /\ faultsLeft \in 0..MaxFaults

\* The target row an agent sees never goes back to an earlier edit of the
\* instance, whatever is committed, rolled back or read before it is used.
BuildsForward ==
    [][\A i \in Instances : shown[i] # None /\ shown'[i] # None
                            => shown[i].value <= shown'[i].value]_vars

\* The target row that tracks the present instance row has its value, unless
\* the instance was saved or actualized in an iteration that had not built it:
\* an edit is either built or still found by the vector of updated instances.
Committed(i) == IF undo[i] = None THEN inst[i] ELSE undo[i]

TrackedIsBuilt ==
    \A i \in Instances \ missed :
        Committed(i) # None /\ shown[i] # None /\ shown[i].tracked
        => shown[i].value = Committed(i).value

\* Every instance has a target resource, and that of a deleted instance is gone.
InstanceBuilt(i) == (inst[i] = None) = (shown[i] = None)

\* The last edit is in the target resource, unless the instance was saved or
\* actualized in an iteration that had not built it.
EditBuilt(i) == i \notin missed /\ inst[i] # None /\ shown[i] # None
                => shown[i].value = inst[i].value

\* The last report of the agent is taken over.
ReportSeen(i) == inst[i] # None /\ shown[i] # None /\ actual[i] # None
                 => shown[i].full = actual[i]

\* Whatever users, agents and faults did, the builder ends up with every
\* instance its hooks allow built, its last edit built and its last report
\* taken over.
BuilderSettles ==
    <>[](\A i \in ready : InstanceBuilt(i) /\ EditBuilt(i) /\ ReportSeen(i))

=============================================================================
