---------------------------- MODULE PoolVolumes -----------------------------
(***************************************************************************)
(* Volumes of a machine pool: the placement on storage pools with thin     *)
(* capacity, the resize, attachment and deletion of volumes, and the       *)
(* creation and deletion of the machines they are attached to.             *)
(*                                                                         *)
(* The agent lists the whole pool once per iteration, and works on the     *)
(* volumes and then on the machines by that listing, which it charges      *)
(* itself for what it creates.  The hypervisor knows disks, and domains    *)
(* whose configuration names the pool in which they look for each disk: it *)
(* may not be there.  A domain that is off refuses changes of its disks,   *)
(* which the driver takes for "already done".                              *)
(*                                                                         *)
(* Abstractions.  Sizes are small numbers, a root volume is one with index *)
(* 0, other indexes and the fields only reported are left out, as are CPU  *)
(* and RAM.  The target power of every machine is ON; the other targets,   *)
(* and the wait before a start is sent again, are those of MachinePower.   *)
(* An iteration whose listing fails does nothing, and is left out.         *)
(***************************************************************************)
EXTENDS Integers, FiniteSetsExt

CONSTANTS
    Volumes, Machines,
    Pools,          \* names of the storage pools
    None,
    Sizes,
    PoolAttr(_),    \* tier, ephemeral, capacity of a pool; unique: its name is
    VolumeAttr(_),  \* tier, ephemeral and root of a volume
    WantedAs(_),    \* what the control plane may want of a volume
    FirstWant, FirstDom, \* the targets the agent finds when it starts
    MaxChanges,     \* bound: changes of the targets
    MaxFlips,       \* bound: machines that are stopped or started
    MaxFaults       \* bound: driver calls that fail, crashes of the agent

OrNone(S) == S \cup {None}
Want   == [size : Sizes, machine : OrNone(Machines), pin : OrNone(Pools)]
Disk   == [size : Sizes, pool : Pools]
Domain == [on : BOOLEAN, at : [Volumes -> OrNone(Pools)]]
Seen   == [size : Sizes, pool : Pools, machine : OrNone(Machines)]
Entry  == [machine : OrNone(Machines), root : BOOLEAN, error : BOOLEAN]

ASSUME VolumesAssumption ==
    /\ IsFiniteSet(Volumes) /\ IsFiniteSet(Machines) /\ IsFiniteSet(Pools)
    /\ Volumes \cap Machines = {}
    /\ Sizes \subseteq Nat \ {0}
    /\ FirstWant \in [Volumes -> OrNone(Want)] /\ FirstDom \subseteq Machines
    /\ None \notin Machines \cup Pools
    /\ None \notin Want \cup Disk \cup Domain \cup Seen \cup Entry
    /\ MaxChanges \in Nat /\ MaxFlips \in Nat /\ MaxFaults \in Nat
    /\ \A p \in Pools : /\ PoolAttr(p).capacity \in Nat
                        /\ PoolAttr(p).unique \in BOOLEAN
    /\ \A v \in Volumes : /\ VolumeAttr(v).root \in BOOLEAN
                          /\ WantedAs(v) \subseteq Want

VARIABLES
    want, wantDom,  \* targets: volumes and machines
    disk, dom,      \* the hypervisor
    meta, metaFile, \* volumes and machines in the meta storage, in its file
    pc,
    goal, goalDom,  \* targets as the iteration read them
    todo,           \* volumes or machines it still has to work on
    listed, domListed, \* the pool as it was listed, adjusted by the driver
    offListed,      \* domains that were listed as off
    charged,        \* capacity_provisioned of the storage pools
    coord,          \* volumes of the coordinator storage
    lost,           \* history: pools with a call whose answer was lost
    changes, flips, faults

worldVars == <<want, wantDom, changes, flips>>
hyperVars == <<disk, dom>>
metaVars  == <<meta, metaFile>>
readVars  == <<goal, goalDom>>
listVars  == <<listed, domListed, offListed, charged, coord>>
vars == <<worldVars, hyperVars, metaVars, pc, todo, readVars, listVars, lost, faults>>

Absent(S) == [x \in S |-> None]
NoCharge == [p \in Pools |-> 0]

Init ==
    /\ want = FirstWant /\ wantDom = FirstDom
    /\ disk = Absent(Volumes) /\ dom = Absent(Machines)
    /\ meta = {} /\ metaFile = {}
    /\ pc = "idle" /\ todo = {}
    /\ goal = Absent(Volumes) /\ goalDom = {}
    /\ listed = Absent(Volumes) /\ domListed = {} /\ offListed = {}
    /\ charged = NoCharge /\ coord = Absent(Volumes)
    /\ lost = {}
    /\ changes = 0 /\ flips = 0 /\ faults = 0

-----------------------------------------------------------------------------
(* The world *)

ChangeTarget ==
    /\ changes < MaxChanges /\ changes' = changes + 1
    /\ \/ \E v \in Volumes : \E w \in OrNone(WantedAs(v)) :
            /\ w # want[v] /\ want' = [want EXCEPT ![v] = w]
            /\ UNCHANGED wantDom
       \/ \E m \in Machines :
            /\ wantDom' = IF m \in wantDom THEN wantDom \ {m} ELSE wantDom \cup {m}
            /\ UNCHANGED want
    /\ UNCHANGED <<hyperVars, metaVars, pc, todo, readVars, listVars, lost, faults, flips>>

\* A domain can be started if every disk it names is where it looks for it.
Startable(m) ==
    \A v \in Volumes : dom[m].at[v] # None => disk[v] # None /\ disk[v].pool = dom[m].at[v]

\* A machine is stopped or started by people, or stops by itself.
FlipPower(m) ==
    /\ flips < MaxFlips /\ flips' = flips + 1
    /\ dom[m] # None
    /\ dom[m].on \/ Startable(m)
    /\ dom' = [dom EXCEPT ![m].on = ~@]
    /\ UNCHANGED <<want, wantDom, changes, disk, metaVars, pc, todo, readVars, listVars,
                   lost, faults>>

-----------------------------------------------------------------------------
(* The hypervisor and its driver *)

\* _volume_attachments: a disk belongs to a domain that names its path, to the
\* one listed last if there are several.
Owners(v) == {m \in Machines : dom[m] # None /\ disk[v] # None /\ dom[m].at[v] = disk[v].pool}

Attributions ==
    {a \in [Volumes -> OrNone(Machines)] :
        \A v \in Volumes : IF Owners(v) = {} THEN a[v] = None ELSE a[v] \in Owners(v)}

\* _fill_thin_storage_pool
Provisioned(vols, p) ==
    MapThenSumSet(LAMBDA v : vols[v].size,
                  {v \in Volumes : vols[v] # None /\ vols[v].pool = p})

Detached(d, m, v) ==
    IF d[m].on THEN [d EXCEPT ![m].at[v] = None] ELSE d

\* "Already attached" is any domain that names the volume, in whatever pool.
Attached(d, m, v, p) ==
    IF d[m].on /\ d[m].at[v] = None THEN [d EXCEPT ![m].at[v] = p] ELSE d

-----------------------------------------------------------------------------
(* ThinStoragePool and select_storage_pool *)

Available(p) == PoolAttr(p).capacity - charged[p]
HasCapacity(p, size) == Available(p) >= size

\* (mutant) any pool is a fallback for a volume no pool of its durability has
\* room for.
SelectStoragePoolSoft(v, size, assigned) ==
    LET fits == {p \in Pools : PoolAttr(p).unique /\ HasCapacity(p, size)}
        durable == {p \in fits : PoolAttr(p).ephemeral = VolumeAttr(v).ephemeral}
        exact == {p \in durable : PoolAttr(p).tier = VolumeAttr(v).tier}
        matches == IF assigned # None THEN fits \cap {assigned}
                   ELSE IF exact # {} THEN exact ELSE IF durable # {} THEN durable ELSE fits
    IN  {p \in matches : \A q \in matches : Available(q) <= Available(p)}

\* The pools it may return: the first of those with the most room.
SelectStoragePool(v, size, assigned) ==
    LET fits == {p \in Pools : PoolAttr(p).unique /\ HasCapacity(p, size)}
        durable == {p \in fits : PoolAttr(p).ephemeral = VolumeAttr(v).ephemeral}
        exact == {p \in durable : PoolAttr(p).tier = VolumeAttr(v).tier}
        matches == IF assigned # None THEN fits \cap {assigned}
                   ELSE IF exact # {} THEN exact ELSE durable
    IN  {p \in matches : \A q \in matches : Available(q) <= Available(p)}

-----------------------------------------------------------------------------
(* The iteration *)

\* The agent reads its targets, and the driver lists the pool and the
\* volumes of the meta storage.
StartIteration ==
    /\ pc = "idle" /\ pc' = "volumes"
    /\ goal' = want /\ goalDom' = wantDom
    /\ \E a \in Attributions :
        listed' = [v \in Volumes |-> IF disk[v] = None THEN None
                     ELSE [size |-> disk[v].size, pool |-> disk[v].pool, machine |-> a[v]]]
    /\ domListed' = {m \in Machines : dom[m] # None}
    /\ offListed' = {m \in Machines : dom[m] # None /\ ~dom[m].on}
    /\ charged' = [p \in Pools |-> Provisioned(disk, p)]
    /\ coord' = [v \in Volumes |-> IF v \notin meta \/ disk[v] = None THEN None
                   ELSE [machine |-> listed'[v].machine, error |-> FALSE,
                         root |-> VolumeAttr(v).root /\ listed'[v].machine # None]]
    /\ todo' = Volumes
    /\ lost' = {}
    /\ UNCHANGED <<worldVars, hyperVars, metaVars, faults>>

\* What list() returned of the volumes and of the machines.
Managed(x) ==
    x \in meta /\ IF x \in Volumes THEN listed[x] # None ELSE x \in domListed
Wanted(x) == IF x \in Volumes THEN goal[x] # None ELSE x \in goalDom

\* New resources first, then those to delete, then those to update.
Rank(x) == IF Wanted(x) /\ ~Managed(x) THEN 1 ELSE IF ~Wanted(x) THEN 2 ELSE 3

\* The resource x of that rank is worked on.
Handle(x, rank) ==
    /\ x \in todo /\ Rank(x) = rank
    /\ \A y \in todo : rank <= Rank(y)
    /\ todo' = todo \ {x}
    /\ UNCHANGED <<worldVars, readVars, metaFile, pc, listed, domListed, offListed>>

Same(v) ==
    /\ goal[v].size = listed[v].size
    /\ goal[v].machine = listed[v].machine
    /\ goal[v].pin \in {None, listed[v].pool}

Unfaulted == UNCHANGED <<lost, faults>>
Fault == faults < MaxFaults /\ faults' = faults + 1

\* A volume or machine that is neither wanted nor managed, or is as wanted.
Skip(x) ==
    /\ Handle(x, IF Wanted(x) THEN 3 ELSE 2)
    /\ Wanted(x) <=> Managed(x)
    /\ Wanted(x) => IF x \in Volumes THEN Same(x) ELSE x \notin offListed
    /\ UNCHANGED <<hyperVars, meta, charged, coord>> /\ Unfaulted

-----------------------------------------------------------------------------
(* MetaVolume *)

\* dump_to_dp of a volume that is listed: it is taken as it is.
AdoptVolume(v) ==
    /\ v \in Volumes /\ Handle(v, 1) /\ listed[v] # None
    /\ meta' = meta \cup {v}
    /\ coord' = [coord EXCEPT ![v] =
                  [machine |-> listed[v].machine, error |-> FALSE,
                   root |-> VolumeAttr(v).root /\ listed[v].machine # None]]
    /\ UNCHANGED <<hyperVars, charged>> /\ Unfaulted

\* No storage pool has room: the volume is in the meta storage, in error.
RefuseVolume(v) ==
    /\ v \in Volumes /\ Handle(v, 1) /\ listed[v] = None
    /\ SelectStoragePool(v, goal[v].size, goal[v].pin) = {}
    /\ meta' = meta \cup {v}
    /\ coord' = [coord EXCEPT ![v] = [machine |-> goal[v].machine, error |-> TRUE,
                                      root |-> VolumeAttr(v).root]]
    /\ UNCHANGED <<hyperVars, charged>> /\ Unfaulted

NewDisk(v, p) == [disk EXCEPT ![v] = [size |-> goal[v].size, pool |-> p]]

\* A root volume is attached by the creation of its machine, and so is a
\* volume whose machine does not exist.
AttachNew(v, p) ==
    LET m == goal[v].machine
    IN  IF m \in domListed /\ ~VolumeAttr(v).root THEN Attached(dom, m, v, p) ELSE dom

CreateVolume(v) ==
    /\ v \in Volumes /\ Handle(v, 1) /\ listed[v] = None
    /\ \E p \in SelectStoragePool(v, goal[v].size, goal[v].pin) :
        /\ disk' = NewDisk(v, p)
        /\ charged' = [charged EXCEPT ![p] = @ + goal[v].size]
        /\ dom' = AttachNew(v, p)
    /\ meta' = meta \cup {v}
    /\ coord' = [coord EXCEPT ![v] = [machine |-> goal[v].machine, error |-> FALSE,
                                      root |-> VolumeAttr(v).root]]
    /\ Unfaulted

\* A call fails: nothing was created, or it was but the answer was lost, or
\* it was and could not be attached.
CreateVolumeFails(v) ==
    /\ Fault
    /\ v \in Volumes /\ Handle(v, 1) /\ listed[v] = None
    /\ \E p \in SelectStoragePool(v, goal[v].size, goal[v].pin) :
        \/ UNCHANGED <<hyperVars, charged, lost>>
        \/ /\ disk' = NewDisk(v, p)
           /\ lost' = lost \cup {p}
           /\ UNCHANGED <<dom, charged>>
        \/ /\ disk' = NewDisk(v, p)
           /\ charged' = [charged EXCEPT ![p] = @ + goal[v].size]
           /\ UNCHANGED <<dom, lost>>
    /\ UNCHANGED <<meta, coord>>

\* delete_from_dp: detached as far as the domain permits, then deleted.
DetachOld(v) ==
    IF listed[v].machine = None THEN dom ELSE Detached(dom, listed[v].machine, v)

DeleteVolume(v) ==
    /\ v \in Volumes /\ Handle(v, 2) /\ Managed(v)
    /\ dom' = DetachOld(v)
    /\ disk' = [disk EXCEPT ![v] = None]
    /\ meta' = meta \ {v}
    /\ coord' = [coord EXCEPT ![v] = None]
    /\ UNCHANGED charged /\ Unfaulted

DeleteVolumeFails(v) ==
    /\ Fault
    /\ v \in Volumes /\ Handle(v, 2) /\ Managed(v)
    /\ \/ dom' \in {dom, DetachOld(v)} /\ UNCHANGED disk
       \/ dom' = DetachOld(v) /\ disk' = [disk EXCEPT ![v] = None]
    /\ UNCHANGED <<meta, coord, charged, lost>>

-----------------------------------------------------------------------------
(* MetaVolume.update_on_dp *)

Growth(v) == goal[v].size - listed[v].size
Migrates(v) == goal[v].pin \notin {None, listed[v].pool}

\* (mutant) no special case for root volumes.
WaitsNever(v) == FALSE

Waits(v) == VolumeAttr(v).root /\ goal[v].machine \notin domListed \cup {None}

\* (mutant) a volume grows only where it would fit a second time.
FullTwice(v) == Growth(v) # 0 /\ SelectStoragePool(v, goal[v].size, listed[v].pool) = {}

Full(v) == Growth(v) # 0 /\ SelectStoragePool(v, Growth(v), listed[v].pool) = {}

UpdateStep(v) == v \in Volumes /\ Handle(v, 3) /\ Managed(v) /\ ~Same(v)

\* Nothing is changed: the storage pool is another one, the machine of a root
\* volume is still to be created, or there is no room to grow.
LeaveVolume(v) ==
    /\ UpdateStep(v)
    /\ Migrates(v) \/ Waits(v) \/ Full(v)
    /\ coord' = [coord EXCEPT ![v] =
                  IF Migrates(v)
                  THEN [machine |-> listed[v].machine, error |-> TRUE,
                        root |-> VolumeAttr(v).root /\ listed[v].machine # None]
                  ELSE [machine |-> goal[v].machine, error |-> ~Waits(v),
                        root |-> VolumeAttr(v).root]]
    /\ UNCHANGED <<hyperVars, meta, charged>> /\ Unfaulted

Updatable(v) == ~Migrates(v) /\ ~Waits(v) /\ ~Full(v)

\* "Shrinking volumes is not supported"
RefuseShrink(v) ==
    /\ UpdateStep(v) /\ Updatable(v) /\ Growth(v) < 0
    /\ UNCHANGED <<hyperVars, meta, charged, coord>> /\ Unfaulted

Grown(v) == [disk EXCEPT ![v].size = goal[v].size]
Charge(v) == [charged EXCEPT ![listed[v].pool] = @ + Growth(v)]

\* _actualize_attachment, as far as it gets if the machine does not exist.
ActualizeAttachment(v) ==
    LET old == listed[v].machine  new == goal[v].machine
        detached == IF old # new THEN DetachOld(v) ELSE dom
    IN  IF old # new /\ new # None /\ dom[new] # None
        THEN Attached(detached, new, v, listed[v].pool)
        ELSE detached

MachineFound(v) == goal[v].machine \in {None, listed[v].machine} \/ dom[goal[v].machine] # None

\* (mutant) the difference is taken after the size was overwritten.
UpdateVolumeUncharged(v) ==
    /\ UpdateStep(v) /\ Updatable(v) /\ Growth(v) >= 0
    /\ disk' = Grown(v)
    /\ dom' = ActualizeAttachment(v)
    /\ coord' = IF MachineFound(v)
                THEN [coord EXCEPT ![v] = [machine |-> listed[v].machine,
                                           error |-> FALSE, root |-> FALSE]]
                ELSE coord
    /\ UNCHANGED <<meta, charged>> /\ Unfaulted

\* The volume grows and is charged, then its attachment is actualized.  The
\* driver is asked for the volume, which it returns without machine and index.
UpdateVolume(v) ==
    /\ UpdateStep(v) /\ Updatable(v) /\ Growth(v) >= 0
    /\ disk' = Grown(v) /\ charged' = Charge(v)
    /\ dom' = ActualizeAttachment(v)
    /\ coord' = IF MachineFound(v)
                THEN [coord EXCEPT ![v] = [machine |-> listed[v].machine,
                                           error |-> FALSE, root |-> FALSE]]
                ELSE coord
    /\ UNCHANGED meta /\ Unfaulted

UpdateVolumeFails(v) ==
    /\ Fault
    /\ UpdateStep(v) /\ Updatable(v) /\ Growth(v) >= 0
    /\ \/ UNCHANGED <<hyperVars, charged, lost>>
       \/ /\ Growth(v) > 0 /\ disk' = Grown(v)
          /\ lost' = lost \cup {listed[v].pool}
          /\ UNCHANGED <<dom, charged>>
       \/ /\ disk' = Grown(v) /\ charged' = Charge(v)
          /\ dom' \in {dom, DetachOld(v), ActualizeAttachment(v)}
          /\ goal[v].machine = listed[v].machine => dom' = dom
          /\ UNCHANGED lost
    /\ UNCHANGED <<meta, coord>>

-----------------------------------------------------------------------------
(* MetaMachine *)

StartMachines ==
    /\ pc = "volumes" /\ todo = {}
    /\ pc' = "machines" /\ todo' = Machines
    /\ UNCHANGED <<worldVars, hyperVars, metaVars, readVars, listVars, lost, faults>>

VolumesOf(m) == {v \in Volumes : coord[v] # None /\ coord[v].machine = m}
RootOf(m)    == {v \in VolumesOf(m) : coord[v].root}

\* The machine exists, or its root volume is in error: nothing is created,
\* and the machine is in the meta storage.
AdoptMachine(m) ==
    /\ m \in Machines /\ Handle(m, 1)
    /\ m \in domListed \/ \E v \in RootOf(m) : coord[v].error
    /\ meta' = meta \cup {m}
    /\ UNCHANGED <<hyperVars, charged, coord>> /\ Unfaulted

\* The pool in which a new domain looks for the volume: the one it was put in,
\* else the one it is pinned to, else the only one there is.
PoolOf(v) ==
    IF disk[v] # None THEN disk[v].pool
    ELSE IF goal[v] # None /\ goal[v].pin # None THEN goal[v].pin
    ELSE IF \E p \in Pools : Pools = {p} /\ PoolAttr(p).unique THEN CHOOSE p \in Pools : TRUE
    ELSE None

NewMachine(m) ==
    /\ m \in Machines /\ Handle(m, 1) /\ m \notin domListed
    /\ UNCHANGED <<disk, charged, coord>>

Definable(m) ==
    /\ RootOf(m) # {} /\ \A v \in RootOf(m) : ~coord[v].error
    /\ \A v \in VolumesOf(m) : PoolOf(v) # None

NewDomain(m, on) ==
    [dom EXCEPT ![m] =
        [on |-> on, at |-> [v \in Volumes |-> IF v \in VolumesOf(m) THEN PoolOf(v) ELSE None]]]

Complete(m) == \A v \in VolumesOf(m) : disk[v] # None

\* RootVolumeNotFound, or "no storage pool assigned" to a volume without disk.
RefuseMachine(m) ==
    /\ NewMachine(m)
    /\ \/ RootOf(m) = {}
       \/ /\ \A v \in RootOf(m) : ~coord[v].error
          /\ ~Definable(m)
    /\ UNCHANGED <<dom, meta>> /\ Unfaulted

\* The domain is defined, then started.  If a disk is missing the start raises:
\* the domain stays, off, and the machine is not in the meta storage.
CreateMachine(m) ==
    /\ NewMachine(m) /\ Definable(m)
    /\ dom' = NewDomain(m, Complete(m))
    /\ meta' = IF Complete(m) THEN meta \cup {m} ELSE meta
    /\ Unfaulted

\* A call fails: nothing was defined, the domain was not started, or it was
\* but the answer was lost.
CreateMachineFails(m) ==
    /\ Fault
    /\ NewMachine(m) /\ Definable(m)
    /\ \/ UNCHANGED dom
       \/ dom' = NewDomain(m, FALSE)
       \/ Complete(m) /\ dom' = NewDomain(m, TRUE)
    /\ UNCHANGED <<meta, lost>>

\* The machine was listed off, its target power is ON.
PowerOn(m) ==
    /\ m \in Machines /\ Handle(m, 3) /\ Managed(m) /\ m \in offListed
    /\ UNCHANGED <<disk, meta, charged, coord>>

\* start_machine leaves a domain alone that is running again.
StartMachine(m) ==
    /\ PowerOn(m)
    /\ dom[m].on \/ Startable(m)
    /\ dom' = [dom EXCEPT ![m].on = TRUE]
    /\ Unfaulted

\* A disk is missing, the call fails, or its answer is lost.
StartMachineFails(m) ==
    /\ PowerOn(m)
    /\ \/ ~dom[m].on /\ ~Startable(m) /\ UNCHANGED dom /\ Unfaulted
       \/ Fault /\ UNCHANGED <<dom, lost>>
       \/ /\ Fault /\ Startable(m)
          /\ dom' = [dom EXCEPT ![m].on = TRUE]
          /\ UNCHANGED lost

\* delete_machine lists the volumes of the domain, and deletes them after it.
DeleteMachine(m) ==
    /\ m \in Machines /\ Handle(m, 2) /\ Managed(m)
    /\ dom' = [dom EXCEPT ![m] = None]
    /\ \E a \in Attributions :
        disk' = [v \in Volumes |-> IF a[v] = m THEN None ELSE disk[v]]
    /\ meta' = meta \ {m}
    /\ UNCHANGED <<charged, coord>> /\ Unfaulted

DeleteMachineFails(m) ==
    /\ Fault
    /\ m \in Machines /\ Handle(m, 2) /\ Managed(m)
    /\ \/ UNCHANGED hyperVars
       \/ /\ dom' = [dom EXCEPT ![m] = None]
          /\ \E a \in Attributions, gone \in SUBSET Volumes :
              disk' = [v \in Volumes |-> IF a[v] = m /\ v \in gone THEN None ELSE disk[v]]
    /\ UNCHANGED <<meta, charged, coord, lost>>

-----------------------------------------------------------------------------
(* End of the iteration *)

EndIteration ==
    /\ pc' = "idle" /\ todo' = {}
    /\ goal' = Absent(Volumes) /\ goalDom' = {}
    /\ listed' = Absent(Volumes) /\ domListed' = {} /\ offListed' = {}
    /\ charged' = NoCharge /\ coord' = Absent(Volumes)
    /\ lost' = {}
    /\ UNCHANGED <<worldVars, hyperVars>>

\* (mutant) the storage is not persisted.
FinalizeUnsaved ==
    /\ pc = "machines" /\ todo = {}
    /\ EndIteration
    /\ UNCHANGED <<metaVars, faults>>

Finalize ==
    /\ pc = "machines" /\ todo = {}
    /\ EndIteration
    /\ metaFile' = meta
    /\ UNCHANGED <<meta, faults>>

Crash ==
    /\ Fault
    /\ pc # "idle"
    /\ EndIteration
    /\ meta' = metaFile
    /\ UNCHANGED metaFile

VolumeStep(v) ==
    \/ AdoptVolume(v) \/ RefuseVolume(v) \/ CreateVolume(v) \/ DeleteVolume(v)
    \/ LeaveVolume(v) \/ RefuseShrink(v) \/ UpdateVolume(v)
    \/ CreateVolumeFails(v) \/ DeleteVolumeFails(v) \/ UpdateVolumeFails(v)

MachineStep(m) ==
    \/ AdoptMachine(m) \/ RefuseMachine(m) \/ CreateMachine(m) \/ DeleteMachine(m)
    \/ StartMachine(m)
    \/ CreateMachineFails(m) \/ DeleteMachineFails(m) \/ StartMachineFails(m)

Agent ==
    \/ StartIteration \/ StartMachines \/ Finalize
    \/ \E v \in Volumes : VolumeStep(v)
    \/ \E m \in Machines : MachineStep(m)
    \/ \E x \in todo : Skip(x)

World == ChangeTarget \/ \E m \in Machines : FlipPower(m)

Next == Agent \/ Crash \/ World

\* The service loop runs one iteration after the other for ever.
Spec == Init /\ [][Next]_vars /\ WF_vars(Agent)

-----------------------------------------------------------------------------
(* Properties *)

\* Types of all variables; between iterations the meta file is the storage.
TypeOK ==
    /\ want \in [Volumes -> OrNone(Want)] /\ wantDom \subseteq Machines
    /\ disk \in [Volumes -> OrNone(Disk)] /\ dom \in [Machines -> OrNone(Domain)]
    /\ meta \subseteq Volumes \cup Machines /\ metaFile \subseteq Volumes \cup Machines
    /\ pc \in {"idle", "volumes", "machines"}
    /\ goal \in [Volumes -> OrNone(Want)] /\ goalDom \subseteq Machines
    /\ todo \subseteq Volumes \cup Machines
    /\ listed \in [Volumes -> OrNone(Seen)]
    /\ domListed \subseteq Machines /\ offListed \subseteq Machines
    /\ charged \in [Pools -> Int]
    /\ coord \in [Volumes -> OrNone(Entry)]
    /\ lost \subseteq Pools
    /\ changes \in 0..MaxChanges /\ flips \in 0..MaxFlips /\ faults \in 0..MaxFaults
    /\ pc = "idle" => meta = metaFile

\* The accounting of an iteration against the disks themselves: a pool is
\* filled beyond its capacity only after an answer was lost in the iteration.
WithinCapacity ==
    [][\A p \in Pools \ lost' :
         Provisioned(disk', p) > PoolAttr(p).capacity
         => Provisioned(disk', p) <= Provisioned(disk, p)]_vars

\* Space of a pool as of the listing and of what was done since: what was
\* deleted meanwhile still counts.
Occupied(p) ==
    LET here == [v \in Volumes |-> IF disk[v] # None THEN disk[v] ELSE listed[v]]
    IN  PoolAttr(p).capacity - Provisioned(here, p)

Better(v, q, p) ==
    LET fits(x) == PoolAttr(x).tier = VolumeAttr(v).tier
    IN  \/ fits(q) /\ ~fits(p)
        \/ (fits(q) <=> fits(p)) /\ Occupied(q) > Occupied(p)

\* A disk the control plane did not pin goes to the roomiest pool of its
\* durability, of its tier if one has room, never to one of the other
\* durability.
PlacedBest ==
    [][\A v \in Volumes : disk[v] = None /\ disk'[v] # None /\ goal[v].pin = None /\ lost = {}
         => LET p == disk'[v].pool
                same == {q \in Pools : /\ PoolAttr(q).unique
                                       /\ PoolAttr(q).ephemeral = VolumeAttr(v).ephemeral
                                       /\ Occupied(q) >= goal[v].size}
            IN  p \in same /\ \A q \in same : ~Better(v, q, p)]_vars

\* A volume that is wanted is there, unless no pool has room for it.
Placeable(v) ==
    \E p \in Pools :
        /\ PoolAttr(p).unique
        /\ PoolAttr(p).capacity - Provisioned(disk, p) >= want[v].size
        /\ IF want[v].pin # None THEN p = want[v].pin
           ELSE PoolAttr(p).ephemeral = VolumeAttr(v).ephemeral
IsPlaced(v) == want[v] # None /\ Placeable(v) => disk[v] # None

\* A volume grows to the size wanted unless its pool is full or another one
\* is wanted, or it is the root of a machine that cannot be created.
Growable(v) ==
    LET p == disk[v].pool
    IN  /\ want[v].pin \in {None, p} /\ PoolAttr(p).unique
        /\ VolumeAttr(v).root /\ want[v].machine # None => dom[want[v].machine] # None
        /\ PoolAttr(p).capacity - Provisioned(disk, p) >= want[v].size - disk[v].size
IsGrown(v) == want[v] # None /\ disk[v] # None /\ Growable(v) => disk[v].size >= want[v].size

\* Every volume that is wanted ends up placed and grown, and one that is not
\* wanted but in the meta storage gone, after lost answers, crashes and lost
\* meta records.
VolumesSettle ==
    <>[](\A v \in Volumes : /\ IsPlaced(v) /\ IsGrown(v)
                            /\ want[v] = None /\ v \in meta => disk[v] = None)

\* A domain that stays off: it is not wanted, or looks for a disk in a pool
\* where it is not.
StaysOff(m) == dom[m] # None /\ ~dom[m].on /\ (m \notin wantDom \/ ~Startable(m))

\* A volume of the size wanted is attached to the machine it is wanted for,
\* or to none if it is wanted for none; a machine that stays off refuses it,
\* and gives none away.
IsAttached(v) ==
    want[v] # None /\ disk[v] # None =>
      \/ disk[v].size # want[v].size \/ want[v].pin \notin {None, disk[v].pool}
      \/ \E m \in Owners(v) \cup ({want[v].machine} \ {None}) : StaysOff(m)
      \/ IF want[v].machine = None THEN Owners(v) = {}
         ELSE dom[want[v].machine] # None => want[v].machine \in Owners(v)

\* A machine whose volumes are all there can be created.
HasAllVolumes(m) ==
    LET mine == {v \in Volumes : want[v] # None /\ want[v].machine = m}
    IN  /\ m \in wantDom
        /\ \E v \in mine : VolumeAttr(v).root
        /\ \A v \in mine : disk[v] # None /\ want[v].pin \in {None, disk[v].pool}

\* Machines whose volumes are all there end up created, and run unless a disk
\* they name is missing; machines that are not wanted, but in the meta storage,
\* end up deleted; volumes end up attached to the machines they are wanted for.
MachinesSettle ==
    <>[](/\ \A m \in Machines : /\ HasAllVolumes(m) => dom[m] # None
                                /\ m \in wantDom /\ dom[m] # None /\ Startable(m) => dom[m].on
                                /\ m \notin wantDom /\ m \in meta => dom[m] = None
         /\ \A v \in Volumes : IsAttached(v))

\* "Volume is already detached": no step removes the disk of a volume that
\* the control plane wants without a machine.
DetachedKept ==
    [][\A v \in Volumes : /\ disk[v] # None /\ disk'[v] = None
                          => goal[v] = None \/ goal[v].machine # None]_vars

=============================================================================
