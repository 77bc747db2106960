---------------------------- MODULE MachinePower ----------------------------
(***************************************************************************)
(* One machine of a pool: the agent's iteration over it, the catalog of    *)
(* power operations, the meta file, the hypervisor and the guest.          *)
(*                                                                         *)
(* A change of power takes longer than an iteration, so it is an operation *)
(* in the catalog: every iteration that still wants it runs one step by    *)
(* its journal.  The catalog is memory of the agent; an operation nobody   *)
(* ran between two listings is swept.                                      *)
(*                                                                         *)
(* Abstractions.  conf stands for cores, RAM, image and boot mode, which   *)
(* are all applied by recreating the domain.  A journal is the ages of its *)
(* last records, counted up to Grace, the 60 seconds of both timeouts.     *)
(* The power NONE of a target is one an older control plane did not send.  *)
(***************************************************************************)
EXTENDS Naturals

CONSTANTS
    Confs,
    None,
    Grace,       \* graceful_timeout and start_timeout, in ticks
    MaxTargets,  \* bound: changes of the target
    MaxEvents,   \* bound: what the guest or people do to the machine
    MaxFaults,   \* bound: crashes of the agent, driver calls that fail
    MaxMissed    \* bound: listings that fail

Kinds   == {"power_on", "power_off", "reboot"}
Powers  == {"ON", "OFF", "UNKNOWN"}
Ages    == (0..Grace) \cup {None}
Wants   == [power : {"NONE", "ON", "OFF", "REBOOT"}, conf : Confs]
Machine == [power : Powers, conf : Confs]
Report  == [power : Powers \cup {"NONE", "REBOOT", "REBOOTING", "REBOOTED"}, conf : Confs]
Operation == [done : BOOLEAN, touched : BOOLEAN,
              shut : Ages, forced : Ages, start : Ages,
              stale : BOOLEAN]  \* history: the domain was recreated since it began
OrNone(S) == S \cup {None}

ASSUME MachineAssumption ==
    /\ Grace \in Nat \ {0}
    /\ MaxTargets \in Nat /\ MaxEvents \in Nat /\ MaxFaults \in Nat /\ MaxMissed \in Nat
    /\ None \notin 0..Grace
    /\ None \notin Wants \cup Machine \cup Report \cup Operation

VARIABLES
    target,    \* what the control plane wants, None if the machine is to go
    dp,        \* the machine on the hypervisor
    ops,       \* the catalog: Kinds -> operation
    meta,      \* the machine is in the meta storage
    metaFile,  \* it is in the meta file
    pc, want, snap,  \* the iteration: target and machine as it read them
    report,    \* what the last iteration collected
    signal,    \* history: the call the iteration made to the hypervisor
    offListed, \* history: it listed the machine off since it last asked it to stop
    booted,    \* history: the machine booted since the reboot was asked for
    done,      \* history: the reboot the target asks for was finished
    targets, events, faults, missed

worldVars == <<target, dp, targets, events>>
iterVars  == <<pc, want, snap>>
metaVars  == <<meta, metaFile>>
histVars  == <<signal, offListed, booted, done>>
bounds    == <<faults, missed>>
vars == <<worldVars, ops, metaVars, iterVars, report, histVars, bounds>>

Nothing == [k \in Kinds |-> None]
IsOp(k) == ops[k] # None

Init ==
    /\ target \in Wants /\ dp = None
    /\ ops = Nothing
    /\ meta = FALSE /\ metaFile = FALSE
    /\ pc = "idle" /\ want = None /\ snap = None /\ report = None
    /\ signal = "none" /\ offListed = FALSE /\ booted = FALSE /\ done = FALSE
    /\ targets = 0 /\ events = 0 /\ faults = 0 /\ missed = 0

-----------------------------------------------------------------------------
(* The world *)

ChangeTarget ==
    /\ targets < MaxTargets /\ targets' = targets + 1
    /\ target' \in OrNone(Wants) \ {target}
    /\ UNCHANGED <<dp, events, ops, metaVars, iterVars, report, histVars, bounds>>

\* The guest stops, crashes or hangs; people start, resume or remove it.
GuestMoves ==
    /\ events < MaxEvents /\ events' = events + 1
    /\ dp # None
    /\ \/ \E p \in Powers \ {dp.power} :
            /\ p = "UNKNOWN" => dp.power = "ON"
            /\ dp' = [dp EXCEPT !.power = p]
            /\ booted' = (booted \/ dp.power = "OFF")
       \/ dp' = None /\ UNCHANGED booted
    /\ UNCHANGED <<target, targets, ops, metaVars, iterVars, report,
                   signal, offListed, done, bounds>>

Older(a) == IF a \in 0..(Grace - 1) THEN a + 1 ELSE a

Tick ==
    /\ \E k \in Kinds : IsOp(k) /\ {ops[k].shut, ops[k].forced, ops[k].start}
                                     \cap (0..(Grace - 1)) # {}
    /\ ops' = [k \in Kinds |-> IF ~IsOp(k) THEN None
                 ELSE [ops[k] EXCEPT !.shut = Older(@), !.forced = Older(@),
                                     !.start = Older(@)]]
    /\ UNCHANGED <<worldVars, metaVars, iterVars, report, histVars, bounds>>

-----------------------------------------------------------------------------
(* OperationCatalog *)

\* (mutant) finished operations are dropped.
SweepFinished(c) ==
    [k \in Kinds |-> IF c[k] = None \/ ~c[k].touched \/ c[k].done THEN None
                     ELSE [c[k] EXCEPT !.touched = FALSE]]

\* (mutant) nothing is dropped.
SweepNothing(c) == c

Sweep(c) ==
    [k \in Kinds |-> IF c[k] = None \/ ~c[k].touched THEN None
                     ELSE [c[k] EXCEPT !.touched = FALSE]]

\* The three operations are one group.
DropConflicts(k) == [j \in Kinds |-> IF j = k THEN ops[j] ELSE None]

New == [done |-> FALSE, touched |-> TRUE, shut |-> None, forced |-> None,
        start |-> None, stale |-> FALSE]

\* The operation that run() steps, and the catalog after the step.
Running(k) == IF IsOp(k) THEN [ops[k] EXCEPT !.touched = TRUE] ELSE New
Ran(k, op) == [DropConflicts(k) EXCEPT ![k] = op]

-----------------------------------------------------------------------------
(* Hypervisor calls *)

\* A guest that was asked to stop may be off at once, or ignore it.
AskToStop == dp' \in {dp, [dp EXCEPT !.power = "OFF"]} /\ UNCHANGED <<booted, events>>

ForceOff == dp' = [dp EXCEPT !.power = "OFF"] /\ UNCHANGED <<booted, events>>

\* A paused machine that does not resume counts as an event.
PowerOn ==
    \/ /\ dp' = [dp EXCEPT !.power = "ON"]
       /\ booted' = (booted \/ dp.power = "OFF")
       /\ UNCHANGED events
    \/ /\ dp.power = "UNKNOWN" /\ UNCHANGED <<dp, booted>>
       /\ events < MaxEvents /\ events' = events + 1

-----------------------------------------------------------------------------
(* The iteration: listing *)

\* _actual_power_state
Actual(c, p) == IF c["reboot"] = None THEN p
                ELSE IF c["reboot"].done THEN "REBOOTED" ELSE "REBOOTING"

AsReported(c, m) == [power |-> Actual(c, m.power), conf |-> m.conf]

\* The target and the pool are read, the machine is restored.
Begin ==
    /\ pc = "idle"
    /\ pc' = "apply" /\ want' = target /\ snap' = dp
    /\ ops' = IF meta THEN Sweep(ops) ELSE ops
    /\ signal' = "none"
    /\ offListed' = (offListed \/ (meta /\ dp # None /\ dp.power = "OFF"))
    /\ LET reboot == target # None /\ target.power = "REBOOT" IN
         /\ booted' = (booted /\ ~(reboot /\ ops'["reboot"] = None))
         /\ done' = (done /\ reboot)
    /\ UNCHANGED <<worldVars, metaVars, report, bounds>>

\* The pool, or the pool of another machine, could not be listed: nothing
\* is applied, but this machine may have been swept before the error.
ListFails ==
    /\ pc = "idle" /\ meta
    /\ missed < MaxMissed /\ missed' = missed + 1
    /\ ops' \in {ops, Sweep(ops)}
    /\ done' = (done /\ target # None /\ target.power = "REBOOT")
    /\ UNCHANGED <<worldVars, metaVars, iterVars, report, signal, offListed, booted, faults>>

Listed == meta /\ snap # None

\* The target is read once; what an action does to the machine, it reports.
Apply ==
    /\ pc = "apply" /\ pc' = "finalize"
    /\ UNCHANGED <<target, targets, metaFile, want, snap, missed>>

-----------------------------------------------------------------------------
(* The iteration: create, delete, keep *)

CreateMachine ==
    /\ Apply /\ want # None /\ snap = None
    /\ dp' = [power |-> "ON", conf |-> want.conf]
    /\ ops' = IF meta THEN Sweep(ops) ELSE ops
    /\ meta' = TRUE
    /\ report' = [power |-> IF want.power = "NONE" THEN "NONE" ELSE "ON", conf |-> want.conf]
    /\ signal' = "create" /\ booted' = TRUE /\ done' = FALSE
    /\ UNCHANGED <<events, offListed, faults>>

\* The pool has no room or the root volume failed: only the meta is written.
CreateRefused ==
    /\ Apply /\ want # None /\ snap = None
    /\ faults < MaxFaults /\ faults' = faults + 1
    /\ ops' = IF meta THEN Sweep(ops) ELSE ops
    /\ meta' = TRUE
    /\ report' = want
    /\ done' = FALSE
    /\ UNCHANGED <<dp, events, signal, offListed, booted>>

\* The domain may have been defined already when the creation failed.
CreateFails ==
    /\ Apply /\ want # None /\ snap = None
    /\ faults < MaxFaults /\ faults' = faults + 1
    /\ dp' \in {dp, [power |-> "OFF", conf |-> want.conf]}
    /\ ops' = IF meta THEN Sweep(ops) ELSE ops
    /\ report' = None
    /\ done' = FALSE
    /\ UNCHANGED <<events, meta, signal, offListed, booted>>

\* The machine is there but not in the meta file: the next iteration updates it.
Adopt ==
    /\ Apply /\ want # None /\ snap # None /\ ~meta
    /\ meta' = TRUE
    /\ report' = want
    /\ UNCHANGED <<dp, events, ops, histVars, faults>>

DeleteMachine ==
    /\ Apply /\ want = None /\ Listed
    /\ dp' = None
    /\ ops' = Nothing
    /\ meta' = FALSE
    /\ report' = None
    /\ signal' = "delete"
    /\ UNCHANGED <<events, offListed, booted, done, faults>>

\* The domain may have been destroyed already; its operations are forgotten.
DeleteFails ==
    /\ Apply /\ want = None /\ Listed
    /\ faults < MaxFaults /\ faults' = faults + 1
    /\ dp' \in {dp, None} \cup IF dp = None THEN {} ELSE {[dp EXCEPT !.power = "OFF"]}
    /\ ops' = Nothing
    /\ report' = AsReported(ops, snap)
    /\ UNCHANGED <<events, meta, signal, offListed, booted, done>>

Same == want = [AsReported(ops, snap) EXCEPT !.power = IF want.power = "NONE" THEN "NONE" ELSE @]

Keep ==
    /\ Apply
    /\ \/ /\ want = None /\ ~Listed
          /\ report' = None
       \/ /\ want # None /\ Listed /\ Same
          /\ report' = AsReported(ops, snap)
    /\ UNCHANGED <<dp, events, ops, meta, histVars, faults>>

-----------------------------------------------------------------------------
(* The iteration: update *)

Differs == want # None /\ Listed /\ ~Same
Update  == Apply /\ Differs /\ UNCHANGED meta

\* _actualize_power_state: the operation the power of the target asks for.
OpFor(k) ==
    /\ want.power \notin {"NONE", Actual(ops, snap.power)}
    /\ want.power = "REBOOT" \/ want.power # snap.power
    /\ k = CASE want.power = "ON"     -> "power_on"
             [] want.power = "OFF"    -> "power_off"
             [] want.power = "REBOOT" -> "reboot"

\* The operation did its step; the other changes wait for it.
Stepped(k, op) ==
    /\ ops' = Ran(k, op)
    /\ report' = IF dp' = None THEN None ELSE AsReported(ops', dp')
    /\ offListed' = (offListed /\ signal' # "shutdown")
    /\ UNCHANGED <<done, faults>>

\* (mutant) the force is used once.
ShutDownForceOnce(k) ==
    LET op == Running(k) IN
    \/ /\ op.shut = None /\ AskToStop /\ signal' = "shutdown"
       /\ Stepped(k, [op EXCEPT !.shut = 0])
    \/ /\ op.shut # None
       /\ op.shut < Grace \/ op.forced # None
       /\ UNCHANGED <<dp, events, signal, booted>> /\ Stepped(k, op)
    \/ /\ op.shut = Grace /\ op.forced = None
       /\ ForceOff /\ signal' = "force"
       /\ Stepped(k, [op EXCEPT !.forced = 0])

\* _shutdown: gracefully, then by force.
ShutDown(k) ==
    LET op == Running(k) IN
    \/ /\ op.shut = None /\ AskToStop /\ signal' = "shutdown"
       /\ Stepped(k, [op EXCEPT !.shut = 0])
    \/ /\ op.shut # None
       /\ op.shut < Grace \/ (op.forced # None /\ op.forced < Grace)
       /\ UNCHANGED <<dp, events, signal, booted>> /\ Stepped(k, op)
    \/ /\ op.shut = Grace /\ op.forced \in {None, Grace}
       /\ ForceOff /\ signal' = "force"
       /\ Stepped(k, [op EXCEPT !.forced = 0])

\* _start: again after the timeout.
StartUp(k) ==
    LET op == Running(k) IN
    \/ /\ op.start \in {None, Grace} /\ PowerOn /\ signal' = "start"
       /\ Stepped(k, [op EXCEPT !.start = 0])
    \/ /\ op.start \notin {None, Grace}
       /\ UNCHANGED <<dp, events, signal, booted>> /\ Stepped(k, op)

StepPowerOff == Update /\ OpFor("power_off") /\ dp # None /\ ShutDown("power_off")
StepPowerOn  == Update /\ OpFor("power_on") /\ dp # None /\ StartUp("power_on")

\* RebootMachineOperation.step
StepReboot ==
    /\ Update /\ OpFor("reboot") /\ dp # None
    /\ LET op == Running("reboot") IN
         /\ ~op.done
         /\ \/ op.start # None /\ snap.power # "ON" /\ StartUp("reboot")
            \/ op.start = None /\ snap.power = "OFF" /\ StartUp("reboot")
            \/ op.start = None /\ snap.power # "OFF" /\ ShutDown("reboot")

\* (mutant) the reboot is done once the machine is on after the shutdown.
RebootedEarly(op) == op.done \/ (op.shut # None /\ snap.power = "ON")

\* The reboot is finished, or its last step finishes it.
Rebooted(op) == op.done \/ (op.start # None /\ snap.power = "ON")

\* A call of the step fails, or the machine is gone by now.
StepFails ==
    /\ Update
    /\ \E k \in Kinds :
         /\ OpFor(k)
         /\ ~(k = "reboot" /\ Rebooted(Running(k)))
         /\ ops' = Ran(k, Running(k))
    /\ \/ dp = None /\ UNCHANGED faults
       \/ faults < MaxFaults /\ faults' = faults + 1
    /\ report' = None
    /\ UNCHANGED <<dp, events, histVars>>

\* (mutant) the other changes do not wait for the power operation.
NoWait == TRUE

\* The other changes are applied unless a power operation is unfinished.
Unhindered ==
    \/ \A k \in Kinds : ~OpFor(k)
    \/ OpFor("reboot") /\ Rebooted(Running("reboot"))

\* The catalog after the operation the power asks for, if it asks for any.
AfterPower ==
    IF \A k \in Kinds : ~OpFor(k) THEN ops
    ELSE [k \in Kinds |-> IF OpFor(k) THEN [Running(k) EXCEPT !.done = Rebooted(Running(k))]
                          ELSE None]

Recreated(c) == [k \in Kinds |-> IF c[k] = None THEN None ELSE [c[k] EXCEPT !.stale = TRUE]]

Reconfigure ==
    /\ Update /\ Unhindered
    /\ done' = (done \/ want.power = "REBOOT")

\* Nothing but the power differs, and it needs no step.
Refresh ==
    /\ Reconfigure /\ want.conf = snap.conf
    /\ ops' = AfterPower
    /\ report' = IF dp = None THEN None ELSE AsReported(ops', dp)
    /\ UNCHANGED <<dp, events, signal, offListed, booted, faults>>

\* The pool has no room for the change: the target is collected as an error.
RecreateRefused ==
    /\ Reconfigure /\ want.conf # snap.conf
    /\ faults < MaxFaults /\ faults' = faults + 1
    /\ ops' = AfterPower
    /\ report' = want
    /\ UNCHANGED <<dp, events, signal, offListed, booted>>

\* The domain is deleted and created again with the wanted configuration.
Recreate ==
    /\ Reconfigure /\ want.conf # snap.conf /\ dp # None
    /\ ops' = Recreated(AfterPower)
    /\ dp' = [power |-> "ON", conf |-> want.conf]
    /\ report' = AsReported(ops', dp')
    /\ signal' = "recreate" /\ booted' = TRUE
    /\ UNCHANGED <<events, offListed, faults>>

\* The domain was deleted, and the creation failed before or after its
\* definition.
RecreateFails ==
    /\ Reconfigure /\ want.conf # snap.conf
    /\ \/ dp = None /\ dp' = None /\ UNCHANGED faults
       \/ /\ dp # None /\ faults < MaxFaults /\ faults' = faults + 1
          /\ dp' \in {None, [power |-> "OFF", conf |-> want.conf]}
    /\ ops' = Recreated(AfterPower)
    /\ report' = None
    /\ signal' = "delete"
    /\ UNCHANGED <<events, offListed, booted>>

-----------------------------------------------------------------------------
(* The end of the iteration, and crashes *)

\* The meta storage is persisted.
Finalize ==
    /\ pc = "finalize" /\ pc' = "idle"
    /\ want' = None /\ snap' = None /\ signal' = "none"
    /\ metaFile' = meta
    /\ UNCHANGED <<worldVars, ops, meta, report, offListed, booted, done, bounds>>

\* The agent is started again with the meta file and an empty catalog.
Crash ==
    /\ faults < MaxFaults /\ faults' = faults + 1
    /\ meta' = metaFile
    /\ ops' = Nothing
    /\ pc' = "idle" /\ want' = None /\ snap' = None
    /\ report' = None
    /\ signal' = "none" /\ offListed' = FALSE /\ booted' = FALSE /\ done' = FALSE
    /\ UNCHANGED <<target, targets, events, metaFile, missed>>
    \* in the middle of a recreation the domain is lost
    /\ \/ UNCHANGED dp
       \/ pc = "apply" /\ Differs /\ Unhindered /\ want.conf # snap.conf /\ dp' = None

Agent ==
    \/ Begin \/ Finalize
    \/ CreateMachine \/ CreateRefused \/ CreateFails \/ Adopt
    \/ DeleteMachine \/ DeleteFails \/ Keep
    \/ StepPowerOff \/ StepPowerOn \/ StepReboot \/ StepFails
    \/ Refresh \/ RecreateRefused \/ Recreate \/ RecreateFails

Next == ChangeTarget \/ GuestMoves \/ Tick \/ ListFails \/ Crash \/ Agent

\* The looper repeats iterations for ever, and time passes.
Spec == Init /\ [][Next]_vars /\ WF_vars(Agent) /\ WF_vars(Tick)

-----------------------------------------------------------------------------
(* Properties *)

(* The state is well typed, and the machine never has two power operations *)
(* at a time (_drop_conflicts).                                            *)
TypeOK ==
    /\ target \in OrNone(Wants) /\ dp \in OrNone(Machine)
    /\ ops \in [Kinds -> OrNone(Operation)]
    /\ \A j, k \in Kinds : IsOp(j) /\ IsOp(k) => j = k
    /\ meta \in BOOLEAN /\ metaFile \in BOOLEAN
    /\ pc \in {"idle", "apply", "finalize"}
    /\ want \in OrNone(Wants) /\ snap \in OrNone(Machine)
    /\ report \in OrNone(Report)
    /\ signal \in {"none", "create", "delete", "recreate", "shutdown", "force", "start"}
    /\ offListed \in BOOLEAN /\ booted \in BOOLEAN /\ done \in BOOLEAN
    /\ targets \in 0..MaxTargets /\ events \in 0..MaxEvents
    /\ faults \in 0..MaxFaults /\ missed \in 0..MaxMissed

(* An unfinished operation never goes on by a journal that is older than   *)
(* the domain: update_on_dp lets other changes wait, and the sweep drops   *)
(* what was left over ("Recreation of the domain starts the machine and    *)
(* breaks the operation").                                                 *)
JournalIntact ==
    pc = "apply" => \A k \in Kinds : IsOp(k) /\ ops[k].stale => ops[k].done

(* A reboot is reported REBOOTED only if the machine booted after the      *)
(* reboot was asked for, whatever the guest and people did meanwhile.      *)
DoneMeansBooted == IsOp("reboot") /\ ops["reboot"].done => booted

RebootKept == IsOp("reboot") /\ ops["reboot"].done

(* A finished reboot stays in the catalog while the target asks for it, as *)
(* long as no listing fails: the machine is not rebooted again and again.  *)
FinishedRebootKept == done /\ missed = 0 => RebootKept

(* Once a listing saw the machine off, a power off that comes later asks   *)
(* the guest first: it never forces by the journal of the earlier one.     *)
ForcedNotAfterOffListed ==
    [][pc = "apply" /\ want # None /\ want.power = "OFF" /\ signal' = "force"
         => ~offListed]_vars

(* Once targets and faults end, the machine gets the configuration and the *)
(* power its target asks for, and a wanted reboot is reported.             *)
AsWanted ==
    target # None =>
        /\ dp # None /\ dp.conf = target.conf
        /\ target.power \in {"ON", "OFF"} => dp.power = target.power
        /\ target.power = "REBOOT" => report # None /\ report.power = "REBOOTED"
PowerSettles == <>[]AsWanted
=============================================================================
