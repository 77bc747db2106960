------------------------- MODULE MachinePowerProofs -------------------------
(***************************************************************************)
(* Proofs about MachinePower: its types with the mutual exclusion of power *)
(* operations, JournalIntact, DoneMeansBooted, FinishedRebootKept and      *)
(* ForcedNotAfterOffListed, for any configurations, timeouts and numbers   *)
(* of faults.                                                              *)
(*                                                                         *)
(* JournalIntact needs that a listing leaves no touched operation behind   *)
(* and that a machine without a meta entry has none.  DoneMeansBooted      *)
(* needs that a machine the iteration saw off and that is not off any more *)
(* has booted.  FinishedRebootKept needs that a finished reboot is touched *)
(* by every iteration that wants it, so that no sweep takes it.            *)
(* ForcedNotAfterOffListed needs that the journal of a power off which     *)
(* outlived such a listing is left alone until it is swept.                *)
(***************************************************************************)
EXTENDS MachinePower, TLAPS

Catalog == {c \in [Kinds -> OrNone(Operation)] :
              \A j, k \in Kinds : c[j] # None /\ c[k] # None => j = k}

(* A machine without a meta entry has no operation. *)
MetaOps == meta \/ ops = Nothing

(* After a listing no operation is touched, and one whose domain was       *)
(* recreated is finished or about to be swept.                             *)
Journal ==
    \A k \in Kinds : IsOp(k) =>
        /\ pc = "apply" => ~ops[k].touched
        /\ ops[k].stale => ops[k].done \/ (~ops[k].touched /\ pc # "apply")

(* A reboot that sent a start has booted the machine, and so has whoever   *)
(* turned on the machine this iteration saw off.                           *)
Boot ==
    /\ IsOp("reboot") /\ (ops["reboot"].done \/ ops["reboot"].start # None) => booted
    /\ pc = "apply" /\ snap # None /\ snap.power = "OFF"
         /\ dp # None /\ dp.power # "OFF" => booted

(* A finished reboot was touched by the iteration before, and done is      *)
(* remembered in an iteration only if its target asks for the reboot.      *)
Kept ==
    /\ done /\ missed = 0 => RebootKept /\ (pc # "apply" => ops["reboot"].touched)
    /\ done /\ pc = "apply" => want # None /\ want.power = "REBOOT"

(* A power off in the catalog c has asked the guest to stop. *)
Asked(c) == c["power_off"] # None /\ c["power_off"].shut # None

(* A power off that was asked for before the machine was listed off is     *)
(* about to be swept; the iteration that lists it off does not step it.    *)
OffListed ==
    /\ pc = "apply" => signal = "none"
    /\ offListed /\ Asked(ops) =>
          /\ ~ops["power_off"].touched
          /\ pc = "apply" => snap # None /\ snap.power = "OFF"

Inv == TypeOK /\ MetaOps /\ Journal /\ Boot /\ Kept /\ OffListed

-----------------------------------------------------------------------------
(* The catalog *)

(* A sweep yields a catalog of untouched operations (sweep). *)
LEMMA SweepCatalog ==
    ASSUME NEW c \in Catalog
    PROVE  /\ Sweep(c) \in Catalog
           /\ \A k \in Kinds : Sweep(c)[k] # None =>
                 /\ c[k] # None /\ c[k].touched /\ ~Sweep(c)[k].touched
                 /\ Sweep(c)[k].done = c[k].done /\ Sweep(c)[k].stale = c[k].stale
                 /\ Sweep(c)[k].start = c[k].start /\ Sweep(c)[k].shut = c[k].shut
           /\ \A k \in Kinds : c[k] # None /\ c[k].touched => Sweep(c)[k] # None
BY MachineAssumption DEF Catalog, Sweep, OrNone, Operation

(* What run() steps is an operation; a new one has no journal (run). *)
LEMMA RunningOperation ==
    ASSUME TypeOK, NEW k \in Kinds
    PROVE  /\ Running(k) \in Operation /\ Running(k).touched
           /\ IsOp(k) => /\ Running(k).done = ops[k].done
                         /\ Running(k).stale = ops[k].stale
                         /\ Running(k).start = ops[k].start
                         /\ Running(k).shut = ops[k].shut
           /\ ~IsOp(k) => /\ ~Running(k).done /\ ~Running(k).stale
                          /\ Running(k).start = None /\ Running(k).shut = None
BY MachineAssumption DEF TypeOK, Running, IsOp, New, Operation, OrNone, Ages

(* After run() the operation is the only one (_drop_conflicts). *)
LEMMA RanCatalog ==
    ASSUME TypeOK, NEW k \in Kinds, NEW op \in Operation
    PROVE  /\ Ran(k, op) \in Catalog
           /\ Ran(k, op)[k] = op
           /\ \A j \in Kinds \ {k} : Ran(k, op)[j] = None
BY MachineAssumption DEF TypeOK, Ran, DropConflicts, Catalog, OrNone

(* A target asks for one operation at most (_actualize_power_state). *)
LEMMA OneOperation ==
    ASSUME TypeOK, want # None, NEW j \in Kinds, NEW k \in Kinds, OpFor(j), OpFor(k)
    PROVE  j = k
BY DEF TypeOK, OpFor, Kinds, Wants, OrNone

(* The catalog of an iteration whose other changes need not wait. *)
LEMMA AfterPowerCatalog ==
    ASSUME TypeOK, want # None, Unhindered
    PROVE  /\ AfterPower \in Catalog
           /\ \A k \in Kinds : AfterPower[k] # None =>
                \/ /\ k = "reboot" /\ AfterPower[k].done /\ Rebooted(Running(k))
                   /\ AfterPower[k] = [Running(k) EXCEPT !.done = TRUE]
                \/ AfterPower[k] = ops[k]
<1>1. CASE \A k \in Kinds : ~OpFor(k)
  BY <1>1 DEF AfterPower, TypeOK, Catalog, IsOp
<1>2. CASE ~(\A k \in Kinds : ~OpFor(k))
  <2>1. "reboot" \in Kinds /\ OpFor("reboot") /\ Rebooted(Running("reboot"))
    BY <1>2 DEF Unhindered, Kinds
  <2>2. \A k \in Kinds : OpFor(k) => k = "reboot"
    BY <2>1, OneOperation
  <2>3. Running("reboot") \in Operation
    BY <2>1, RunningOperation
  <2> DEFINE op == [Running("reboot") EXCEPT !.done = TRUE]
  <2>4. op \in Operation /\ op.done
    BY <2>3 DEF Operation
  <2>5. AfterPower = [k \in Kinds |-> IF k = "reboot" THEN op ELSE None]
    <3>1. AfterPower = [k \in Kinds |-> IF OpFor(k)
              THEN [Running(k) EXCEPT !.done = Rebooted(Running(k))] ELSE None]
      BY <1>2 DEF AfterPower
    <3>2. Rebooted(Running("reboot")) = TRUE
      <4>1. Rebooted(Running("reboot")) \in BOOLEAN
        BY <2>3 DEF Rebooted, Operation
      <4> QED BY <4>1, <2>1
    <3>3. ASSUME NEW k \in Kinds
          PROVE  (IF OpFor(k) THEN [Running(k) EXCEPT !.done = Rebooted(Running(k))] ELSE None)
                   = (IF k = "reboot" THEN op ELSE None)
      <4>1. CASE k = "reboot" BY <4>1, <2>1, <3>2
      <4>2. CASE k # "reboot" BY <4>2, <2>2
      <4> QED BY <4>1, <4>2
    <3> QED BY <3>1, <3>3
  <2> HIDE DEF op
  <2>6. AfterPower \in Catalog
    BY <2>4, <2>5 DEF Catalog, OrNone
  <2> QED BY <2>1, <2>4, <2>5, <2>6 DEF op
<1> QED BY <1>1, <1>2

(* A recreation touches nothing but the history. *)
LEMMA RecreatedCatalog ==
    ASSUME NEW c \in Catalog
    PROVE  /\ Recreated(c) \in Catalog
           /\ \A k \in Kinds : Recreated(c)[k] # None =>
                 /\ c[k] # None
                 /\ Recreated(c)[k].done = c[k].done
                 /\ Recreated(c)[k].touched = c[k].touched
                 /\ Recreated(c)[k].start = c[k].start
                 /\ Recreated(c)[k].shut = c[k].shut
           /\ \A k \in Kinds : c[k] # None => Recreated(c)[k] # None
BY MachineAssumption DEF Catalog, Recreated, OrNone, Operation

(* The passing of time changes the ages of records only (since). *)
LEMMA TickCatalog ==
    ASSUME TypeOK, Tick
    PROVE  /\ ops' \in Catalog
           /\ \A k \in Kinds : /\ ops'[k] # None <=> IsOp(k)
                               /\ IsOp(k) => /\ ops'[k].done = ops[k].done
                                             /\ ops'[k].touched = ops[k].touched
                                             /\ ops'[k].stale = ops[k].stale
                                             /\ ops[k].start = None => ops'[k].start = None
                                             /\ ops[k].shut = None => ops'[k].shut = None
<1>1. \A a \in Ages : Older(a) \in Ages /\ (a = None => Older(a) = None)
  BY MachineAssumption DEF Ages, Older
<1>2. ASSUME NEW k \in Kinds, IsOp(k)
      PROVE  LET op == [ops[k] EXCEPT !.shut = Older(@), !.forced = Older(@), !.start = Older(@)]
             IN  /\ op \in Operation
                 /\ op.done = ops[k].done /\ op.touched = ops[k].touched
                 /\ op.stale = ops[k].stale /\ op.start = Older(ops[k].start)
                 /\ op.shut = Older(ops[k].shut)
  <2>1. ops[k] \in Operation
    BY <1>2 DEF TypeOK, OrNone, IsOp
  <2> QED BY <2>1, <1>1 DEF Operation
<1>3. \A k \in Kinds : IsOp(k) => ops[k].start \in Ages /\ ops[k].shut \in Ages
  BY DEF TypeOK, OrNone, IsOp, Operation
<1>4. ops' = [k \in Kinds |-> IF ~IsOp(k) THEN None
                 ELSE [ops[k] EXCEPT !.shut = Older(@), !.forced = Older(@), !.start = Older(@)]]
  BY DEF Tick
<1>5. \A k \in Kinds : ops'[k] # None <=> IsOp(k)
  BY <1>2, <1>4, MachineAssumption
<1>6. ops' \in [Kinds -> OrNone(Operation)]
  BY <1>2, <1>4 DEF OrNone
<1>7. ops' \in Catalog
  BY <1>5, <1>6 DEF Catalog, TypeOK
<1> QED BY <1>1, <1>2, <1>3, <1>4, <1>5, <1>7

LEMMA NothingCatalog == Nothing \in Catalog /\ \A k \in Kinds : Nothing[k] = None
BY DEF Nothing, Catalog, OrNone

(* What is reported of a machine. *)
LEMMA ReportType ==
    ASSUME NEW c \in Catalog, NEW m \in Machine
    PROVE  AsReported(c, m) \in Report
BY DEF AsReported, Actual, Report, Machine

-----------------------------------------------------------------------------
(* Type correctness *)

(* A step of an operation keeps the types. *)
LEMMA SteppedType ==
    ASSUME TypeOK, Update, dp # None, NEW k \in Kinds, NEW op \in Operation,
           Stepped(k, op), dp' \in Machine
    PROVE  ops' \in Catalog /\ report' \in OrNone(Report)
           /\ offListed' \in BOOLEAN /\ done' \in BOOLEAN
<1>1. ops' \in Catalog
  BY RanCatalog DEF Stepped
<1>2. report' \in OrNone(Report)
  BY <1>1, ReportType, MachineAssumption DEF Stepped, OrNone
<1> QED BY <1>1, <1>2 DEF Stepped, TypeOK

(* The calls of ShutDown and StartUp: one step of the operation k. *)
LEMMA PowerCalls ==
    ASSUME TypeOK, Update, dp # None, NEW k \in Kinds, ShutDown(k) \/ StartUp(k)
    PROVE  /\ dp' \in Machine
           /\ signal' \in {"none", "shutdown", "force", "start",
                             "create", "delete", "recreate"}
           /\ booted' \in BOOLEAN /\ events' \in 0..MaxEvents
           /\ \E op \in Operation :
                 /\ Stepped(k, op) /\ op.done = Running(k).done
                 /\ op.stale = Running(k).stale
<1> DEFINE op0 == Running(k)
<1>1. op0 \in Operation /\ dp \in Machine
  BY RunningOperation DEF TypeOK, OrNone
<1>2. 0 \in Ages
  BY MachineAssumption DEF Ages
<1>3. /\ [op0 EXCEPT !.shut = 0] \in Operation /\ [op0 EXCEPT !.forced = 0] \in Operation
      /\ [op0 EXCEPT !.start = 0] \in Operation
  BY <1>1, <1>2 DEF Operation
<1>4. /\ [op0 EXCEPT !.shut = 0].done = op0.done /\ [op0 EXCEPT !.shut = 0].stale = op0.stale
      /\ [op0 EXCEPT !.forced = 0].done = op0.done /\ [op0 EXCEPT !.forced = 0].stale = op0.stale
      /\ [op0 EXCEPT !.start = 0].done = op0.done /\ [op0 EXCEPT !.start = 0].stale = op0.stale
  BY <1>1 DEF Operation
<1>5. \/ Stepped(k, [op0 EXCEPT !.shut = 0]) \/ Stepped(k, [op0 EXCEPT !.forced = 0])
      \/ Stepped(k, [op0 EXCEPT !.start = 0]) \/ Stepped(k, op0)
  BY DEF ShutDown, StartUp
<1>6. \E op \in Operation : Stepped(k, op) /\ op.done = op0.done /\ op.stale = op0.stale
  BY <1>1, <1>3, <1>4, <1>5
<1>7. /\ [dp EXCEPT !.power = "OFF"] \in Machine /\ [dp EXCEPT !.power = "ON"] \in Machine
      /\ booted \in BOOLEAN /\ events \in 0..MaxEvents
      /\ signal \in {"none", "shutdown", "force", "start", "create", "delete", "recreate"}
      /\ events < MaxEvents => events + 1 \in 0..MaxEvents
  BY <1>1, MachineAssumption DEF Machine, Powers, TypeOK
<1>8. dp' \in Machine
  BY <1>1, <1>7 DEF ShutDown, StartUp, AskToStop, ForceOff, PowerOn
<1>9. signal' \in {"none", "shutdown", "force", "start", "create", "delete", "recreate"}
  BY <1>7 DEF ShutDown, StartUp
<1>10. booted' \in BOOLEAN
  BY <1>7 DEF ShutDown, StartUp, AskToStop, ForceOff, PowerOn
<1>11. events' \in 0..MaxEvents
  BY <1>7 DEF ShutDown, StartUp, AskToStop, ForceOff, PowerOn
<1> QED BY <1>6, <1>8, <1>9, <1>10, <1>11

LEMMA TypeInit == Init => TypeOK
<1> SUFFICES ASSUME Init PROVE TypeOK
  OBVIOUS
<1>1. ops \in Catalog /\ \A k \in Kinds : ops[k] = None
  BY NothingCatalog DEF Init
<1>2. /\ ops \in [Kinds -> OrNone(Operation)]
      /\ \A j, k \in Kinds : IsOp(j) /\ IsOp(k) => j = k
  BY <1>1 DEF Catalog, IsOp
<1>3. /\ 0 \in 0..MaxTargets /\ 0 \in 0..MaxEvents
      /\ 0 \in 0..MaxFaults /\ 0 \in 0..MaxMissed
  BY MachineAssumption
<1> QED BY <1>2, <1>3 DEF Init, TypeOK, OrNone

(* Every step keeps the types and the exclusion of power operations. *)
LEMMA TypeStep == TypeOK /\ [Next]_vars => TypeOK'
<1> SUFFICES ASSUME TypeOK, [Next]_vars PROVE TypeOK'
  OBVIOUS
<1> USE MachineAssumption
<1>0. ops \in Catalog /\ Sweep(ops) \in Catalog /\ Nothing \in Catalog
  <2>1. ops \in Catalog BY DEF TypeOK, Catalog, IsOp
  <2> QED BY <2>1, SweepCatalog, NothingCatalog
<1>q. ASSUME ops' \in Catalog
      PROVE  ops' \in [Kinds -> OrNone(Operation)]
             /\ (\A j, k \in Kinds : IsOp(j)' /\ IsOp(k)' => j = k)
  BY <1>q DEF Catalog, IsOp
<1>n. /\ faults < MaxFaults => faults + 1 \in 0..MaxFaults
      /\ events < MaxEvents => events + 1 \in 0..MaxEvents
  BY DEF TypeOK
<1>m. dp # None => \A p \in Powers : [dp EXCEPT !.power = p] \in Machine
  BY DEF TypeOK, OrNone, Machine
<1>c. want # None /\ want \in OrNone(Wants) =>
        /\ [power |-> "ON", conf |-> want.conf] \in Machine
        /\ [power |-> "OFF", conf |-> want.conf] \in Machine
        /\ [power |-> "ON", conf |-> want.conf] \in Report
        /\ [power |-> "NONE", conf |-> want.conf] \in Report
        /\ want \in Report
  BY DEF OrNone, Wants, Machine, Powers, Report
<1>s. ASSUME NEW k \in Kinds, Update, dp # None, ShutDown(k) \/ StartUp(k)
      PROVE  TypeOK'
  <2>1. PICK op \in Operation : Stepped(k, op)
    BY <1>s, PowerCalls
  <2>2. /\ dp' \in Machine /\ booted' \in BOOLEAN /\ events' \in 0..MaxEvents
        /\ signal' \in {"none", "shutdown", "force", "start", "create", "delete", "recreate"}
    BY <1>s, PowerCalls
  <2>3. /\ ops' \in Catalog /\ report' \in OrNone(Report)
        /\ offListed' \in BOOLEAN /\ done' \in BOOLEAN
    BY <1>s, <2>1, <2>2, SteppedType
  <2> QED BY <1>s, <1>q, <2>1, <2>2, <2>3 DEF Update, Stepped, TypeOK, OrNone, Apply, worldVars, iterVars, metaVars, histVars, bounds
<1>1. CASE ChangeTarget
  <2>1. ops' \in Catalog
    BY <1>1, <1>0 DEF ChangeTarget
  <2> QED BY <1>1, <2>1, <1>0, <1>q DEF ChangeTarget, TypeOK, OrNone, Apply, worldVars, iterVars, metaVars, histVars, bounds
<1>2. CASE GuestMoves
  <2>1. ops' \in Catalog
    BY <1>2, <1>0 DEF GuestMoves
  <2>2. dp' \in OrNone(Machine) /\ events' \in 0..MaxEvents /\ booted' \in BOOLEAN
    BY <1>2, <1>m, <1>n DEF GuestMoves, TypeOK, OrNone
  <2> QED BY <1>2, <2>1, <2>2, <1>q DEF GuestMoves, TypeOK, iterVars, metaVars, bounds
<1>3. CASE Tick
  <2>1. ops' \in Catalog
    BY <1>3, <1>0, TickCatalog DEF Tick
  <2> QED BY <1>3, <2>1, <1>q DEF Tick, TypeOK, worldVars, iterVars, metaVars, histVars, bounds
<1>4. CASE ListFails
  <2>1. ops' \in Catalog
    BY <1>4, <1>0 DEF ListFails
  <2> QED BY <1>4, <2>1, <1>0, <1>q DEF ListFails, TypeOK, OrNone, Apply, worldVars, iterVars, metaVars, histVars, bounds
<1>5. CASE Crash
  <2>1. ops' \in Catalog
    BY <1>5, <1>0 DEF Crash
  <2>2. dp' \in OrNone(Machine) /\ faults' \in 0..MaxFaults
    BY <1>5, <1>n DEF Crash, TypeOK, OrNone
  <2> QED BY <1>5, <2>1, <2>2, <1>q DEF Crash, TypeOK, OrNone
<1>6. CASE Begin
  <2>1. ops' \in Catalog
    BY <1>6, <1>0 DEF Begin
  <2> QED BY <1>6, <2>1, <1>0, <1>q DEF Begin, TypeOK, OrNone, Apply, worldVars, iterVars, metaVars, histVars, bounds
<1>7. CASE Finalize
  <2>1. ops' \in Catalog
    BY <1>7, <1>0 DEF Finalize
  <2> QED BY <1>7, <2>1, <1>0, <1>q DEF Finalize, TypeOK, OrNone, Apply, worldVars, iterVars, metaVars, histVars, bounds
<1>8. CASE CreateMachine
  <2>1. ops' \in Catalog
    BY <1>8, <1>0 DEF CreateMachine
  <2> QED BY <1>8, <2>1, <1>0, <1>q, <1>c DEF CreateMachine, TypeOK, OrNone, Apply, worldVars, iterVars, metaVars, histVars, bounds
<1>9. CASE CreateRefused
  <2>1. ops' \in Catalog
    BY <1>9, <1>0 DEF CreateRefused
  <2>2. report' \in OrNone(Report) /\ faults' \in 0..MaxFaults
    BY <1>9, <1>n, <1>c DEF CreateRefused, TypeOK, OrNone
  <2> QED BY <1>9, <2>1, <2>2, <1>q DEF CreateRefused, TypeOK, Apply
<1>10. CASE CreateFails
  <2>1. ops' \in Catalog
    BY <1>10, <1>0 DEF CreateFails
  <2>2. dp' \in OrNone(Machine) /\ faults' \in 0..MaxFaults
    BY <1>10, <1>n, <1>c DEF CreateFails, TypeOK, OrNone
  <2> QED BY <1>10, <2>1, <2>2, <1>q DEF CreateFails, TypeOK, Apply, OrNone
<1>11. CASE Adopt
  <2>1. ops' \in Catalog
    BY <1>11, <1>0 DEF Adopt
  <2> QED BY <1>11, <2>1, <1>0, <1>q, <1>c DEF Adopt, TypeOK, OrNone, Apply, worldVars, iterVars, metaVars, histVars, bounds
<1>12. CASE DeleteMachine
  <2>1. ops' \in Catalog
    BY <1>12, <1>0 DEF DeleteMachine
  <2> QED BY <1>12, <2>1, <1>0, <1>q DEF DeleteMachine, TypeOK, OrNone, Apply, worldVars, iterVars, metaVars, histVars, bounds
<1>13. CASE DeleteFails
  <2>1. ops' \in Catalog
    BY <1>13, <1>0 DEF DeleteFails
  <2> QED BY <1>13, <2>1, <1>0, <1>q, ReportType DEF DeleteFails, TypeOK, OrNone, Apply, worldVars, iterVars, metaVars, histVars, bounds, Listed, Machine, Powers
<1>14. CASE Keep
  <2>1. ops' \in Catalog
    BY <1>14, <1>0 DEF Keep
  <2> QED BY <1>14, <2>1, <1>0, <1>q, ReportType DEF Keep, TypeOK, OrNone, Apply, worldVars, iterVars, metaVars, histVars, bounds, Listed
<1>15. CASE StepPowerOff
  <2>1. "power_off" \in Kinds /\ Update /\ dp # None /\ (ShutDown("power_off") \/ StartUp("power_off"))
    BY <1>15 DEF StepPowerOff, Kinds
  <2> QED BY <2>1, <1>s
<1>16. CASE StepPowerOn
  <2>1. "power_on" \in Kinds /\ Update /\ dp # None /\ (ShutDown("power_on") \/ StartUp("power_on"))
    BY <1>16 DEF StepPowerOn, Kinds
  <2> QED BY <2>1, <1>s
<1>17. CASE StepReboot
  <2>1. "reboot" \in Kinds /\ Update /\ dp # None /\ (ShutDown("reboot") \/ StartUp("reboot"))
    BY <1>17 DEF StepReboot, Kinds
  <2> QED BY <2>1, <1>s
<1>18. CASE StepFails
  <2>1. ops' \in Catalog
    BY <1>18, RunningOperation, RanCatalog DEF StepFails
  <2> QED BY <1>18, <2>1, <1>q DEF StepFails, Update, TypeOK, OrNone, Apply, worldVars, iterVars, metaVars, histVars, bounds
<1>19. CASE Refresh
  <2>1. want # None /\ AfterPower \in Catalog
    BY <1>19, AfterPowerCatalog DEF Refresh, Reconfigure, Update, Differs
  <2>2. ops' \in Catalog
    BY <1>19, <2>1 DEF Refresh
  <2> QED BY <1>19, <2>1, <2>2, <1>q, <1>c, ReportType DEF Refresh, Reconfigure, Update, Differs, TypeOK, OrNone, Apply, worldVars, iterVars, metaVars, histVars, bounds
<1>20. CASE RecreateRefused
  <2>1. want # None /\ AfterPower \in Catalog
    BY <1>20, AfterPowerCatalog DEF RecreateRefused, Reconfigure, Update, Differs
  <2>2. ops' \in Catalog
    BY <1>20, <2>1 DEF RecreateRefused
  <2> QED BY <1>20, <2>1, <2>2, <1>q, <1>c, ReportType DEF RecreateRefused, Reconfigure, Update, Differs, TypeOK, OrNone, Apply, worldVars, iterVars, metaVars, histVars, bounds
<1>21. CASE Recreate
  <2>1. want # None /\ AfterPower \in Catalog
    BY <1>21, AfterPowerCatalog DEF Recreate, Reconfigure, Update, Differs
  <2>2. ops' \in Catalog
    BY <1>21, <2>1, RecreatedCatalog DEF Recreate
  <2> QED BY <1>21, <2>1, <2>2, <1>q, <1>c, ReportType DEF Recreate, Reconfigure, Update, Differs, TypeOK, OrNone, Apply, worldVars, iterVars, metaVars, histVars, bounds
<1>22. CASE RecreateFails
  <2>1. want # None /\ AfterPower \in Catalog
    BY <1>22, AfterPowerCatalog DEF RecreateFails, Reconfigure, Update, Differs
  <2>2. ops' \in Catalog
    BY <1>22, <2>1, RecreatedCatalog DEF RecreateFails
  <2> QED BY <1>22, <2>1, <2>2, <1>q, <1>c, ReportType DEF RecreateFails, Reconfigure, Update, Differs, TypeOK, OrNone, Apply, worldVars, iterVars, metaVars, histVars, bounds
<1>23. CASE UNCHANGED vars
  BY <1>23 DEF vars, TypeOK, IsOp, worldVars, iterVars, metaVars, histVars, bounds
<1> QED BY <1>1, <1>2, <1>3, <1>4, <1>5, <1>6, <1>7, <1>8, <1>9, <1>10, <1>11, <1>12,
            <1>13, <1>14, <1>15, <1>16, <1>17, <1>18, <1>19, <1>20, <1>21, <1>22, <1>23 DEF Next, Agent

-----------------------------------------------------------------------------
(* The invariants *)

(* Only an update adds operations, and it is done for a machine with meta. *)
LEMMA MetaOpsStep == TypeOK /\ MetaOps /\ [Next]_vars => MetaOps'
<1> SUFFICES ASSUME TypeOK, MetaOps, [Next]_vars PROVE MetaOps'
  OBVIOUS
<1> USE DEF MetaOps
<1>1. CASE Tick
  <2>1. ~meta => ops' \in Catalog /\ \A k \in Kinds : ops'[k] = None
    BY <1>1, TickCatalog, NothingCatalog DEF IsOp
  <2>2. ~meta => ops' = Nothing
    BY <2>1 DEF Catalog, Nothing
  <2> QED BY <1>1, <2>2 DEF Tick, metaVars
<1>2. CASE Update
  BY <1>2 DEF Update, Differs, Listed, TypeOK
<1>3. CASE ChangeTarget \/ GuestMoves \/ ListFails \/ Begin \/ Finalize \/ Keep \/ Crash
  BY <1>3 DEF ChangeTarget, GuestMoves, ListFails, Begin, Finalize, Keep, Crash, metaVars
<1>4. CASE CreateMachine \/ CreateRefused \/ CreateFails \/ Adopt \/ DeleteMachine \/ DeleteFails
  BY <1>4 DEF CreateMachine, CreateRefused, CreateFails, Adopt, DeleteMachine, DeleteFails
<1>5. CASE UNCHANGED vars
  BY <1>5 DEF vars, metaVars
<1> QED BY <1>1, <1>2, <1>3, <1>4, <1>5
     DEF Next, Agent, StepPowerOff, StepPowerOn, StepReboot, StepFails,
         Refresh, RecreateRefused, Recreate, RecreateFails, Reconfigure

(* The catalog and pc after a step that leaves the journal intact. *)
LEMMA JournalFrom ==
    ASSUME \A k \in Kinds : ops'[k] # None =>
              /\ pc' = "apply" => ~ops'[k].touched
              /\ ops'[k].stale => ops'[k].done \/ (~ops'[k].touched /\ pc' # "apply")
    PROVE  Journal'
BY DEF Journal, IsOp

(* A listing sweeps the leftovers, and nothing is recreated under an       *)
(* operation that is still touched.                                        *)
LEMMA JournalStep == TypeOK /\ MetaOps /\ Journal /\ [Next]_vars => Journal'
<1> SUFFICES ASSUME TypeOK, MetaOps, Journal, [Next]_vars PROVE Journal'
  OBVIOUS
<1>0. ops \in Catalog
  BY DEF TypeOK, Catalog, IsOp
<1>s. \A k \in Kinds : Sweep(ops)[k] # None =>
         ~Sweep(ops)[k].touched /\ (Sweep(ops)[k].stale => Sweep(ops)[k].done)
  BY <1>0, SweepCatalog DEF Journal, IsOp
<1>1. CASE ChangeTarget \/ GuestMoves \/ UNCHANGED vars
  BY <1>1 DEF ChangeTarget, GuestMoves, vars, iterVars, Journal, IsOp
<1>2. CASE Tick
  BY <1>2, TickCatalog DEF Tick, iterVars, Journal, IsOp
<1>3. CASE ListFails
  BY <1>3, <1>s, JournalFrom DEF ListFails, iterVars, Journal, IsOp
<1>4. CASE Begin
  BY <1>4, <1>s, NothingCatalog, JournalFrom DEF Begin, MetaOps
<1>5. CASE Finalize
  BY <1>5, JournalFrom DEF Finalize, Journal, IsOp
<1>6. CASE Crash
  BY <1>6, NothingCatalog, JournalFrom DEF Crash
<1>7. CASE CreateMachine \/ CreateRefused \/ CreateFails
  <2>1. pc' = "finalize" /\ (ops' = Sweep(ops) \/ ops' = ops)
    BY <1>7 DEF CreateMachine, CreateRefused, CreateFails, Apply
  <2> QED BY <2>1, <1>s, JournalFrom DEF Journal, IsOp
<1>8. CASE Adopt \/ Keep
  <2>1. pc' = "finalize" /\ ops' = ops
    BY <1>8 DEF Adopt, Keep, Apply
  <2> QED BY <2>1, JournalFrom DEF Journal, IsOp
<1>9. CASE DeleteMachine \/ DeleteFails
  <2>1. ops' = Nothing
    BY <1>9 DEF DeleteMachine, DeleteFails
  <2> QED BY <2>1, NothingCatalog, JournalFrom
<1>r. ASSUME NEW k \in Kinds, Update, Running(k).stale
      PROVE  Running(k).done
  BY <1>r, RunningOperation DEF Update, Apply, Journal
<1>t. ASSUME NEW k \in Kinds, NEW op \in Operation, Update, ops' = Ran(k, op),
             op.stale => op.done
      PROVE  Journal'
  BY <1>t, RanCatalog, JournalFrom DEF Update, Apply
<1>10. CASE StepPowerOff \/ StepPowerOn \/ StepReboot
  <2>1. PICK k \in Kinds : Update /\ dp # None /\ (ShutDown(k) \/ StartUp(k))
    BY <1>10 DEF StepPowerOff, StepPowerOn, StepReboot, Kinds
  <2>2. PICK op \in Operation :
          Stepped(k, op) /\ op.done = Running(k).done /\ op.stale = Running(k).stale
    BY <2>1, PowerCalls
  <2> QED BY <2>1, <2>2, <1>r, <1>t DEF Stepped
<1>11. CASE StepFails
  <2>1. PICK k \in Kinds : Update /\ ops' = Ran(k, Running(k))
    BY <1>11 DEF StepFails
  <2> QED BY <2>1, RunningOperation, <1>r, <1>t
<1>12. CASE Refresh \/ RecreateRefused \/ Recreate \/ RecreateFails
  <2>1. want # None /\ Unhindered /\ pc = "apply" /\ pc' = "finalize"
        /\ (ops' = AfterPower \/ ops' = Recreated(AfterPower))
    BY <1>12 DEF Refresh, RecreateRefused, Recreate, RecreateFails, Reconfigure,
                 Update, Differs, Apply
  <2>2. AfterPower \in Catalog
    BY <2>1, AfterPowerCatalog
  <2>3. \A k \in Kinds : AfterPower[k] # None => AfterPower[k].done \/ ~AfterPower[k].touched
    BY <2>1, AfterPowerCatalog DEF Journal, IsOp
  <2>4. \A k \in Kinds : ops'[k] # None => ops'[k].done \/ ~ops'[k].touched
    BY <2>1, <2>2, <2>3, RecreatedCatalog
  <2> QED BY <2>1, <2>4, JournalFrom
<1> QED BY <1>1, <1>2, <1>3, <1>4, <1>5, <1>6, <1>7, <1>8, <1>9, <1>10, <1>11, <1>12
     DEF Next, Agent

(* A boot the reboot relies on is never forgotten while the reboot lives. *)
LEMMA BootStep == TypeOK /\ Boot /\ [Next]_vars => Boot'
<1> SUFFICES ASSUME TypeOK, Boot, [Next]_vars PROVE Boot'
  OBVIOUS
<1> DEFINE Started(c) == c["reboot"] # None /\ (c["reboot"].done \/ c["reboot"].start # None)
<1>0. ops \in Catalog /\ "reboot" \in Kinds
  BY DEF TypeOK, Catalog, IsOp, Kinds
<1>s. Started(Sweep(ops)) => Started(ops)
  BY <1>0, SweepCatalog
<1>b. Started(ops) => booted
  BY DEF Boot, IsOp
<1>p. ASSUME pc' # "apply", Started(ops') => booted' PROVE Boot'
  BY <1>p DEF Boot, IsOp
<1>u. ASSUME booted', UNCHANGED <<ops, pc>> PROVE Boot'
  BY <1>u DEF Boot
<1>1. CASE ChangeTarget \/ UNCHANGED vars
  BY <1>1 DEF ChangeTarget, vars, worldVars, iterVars, histVars, Boot, IsOp
<1>2. CASE GuestMoves
  <2>1. UNCHANGED <<ops, pc, snap>> /\ dp # None
    BY <1>2 DEF GuestMoves, iterVars
  <2>2. CASE dp' = None /\ UNCHANGED booted
    BY <2>1, <2>2 DEF Boot, IsOp
  <2>3. CASE dp.power = "OFF" /\ booted'
    BY <2>1, <2>3, <1>u
  <2>4. CASE dp.power # "OFF" /\ booted' = booted
    BY <2>1, <2>4 DEF Boot, IsOp
  <2>5. booted \in BOOLEAN
    BY DEF TypeOK
  <2>6. (dp' = None /\ UNCHANGED booted) \/ booted' = (booted \/ dp.power = "OFF")
    BY <1>2 DEF GuestMoves
  <2> QED BY <2>2, <2>3, <2>4, <2>5, <2>6
<1>3. CASE Tick
  <2>1. Started(ops') => Started(ops)
    BY <1>0, <1>3, TickCatalog DEF IsOp
  <2> QED BY <1>3, <2>1, <1>b DEF Tick, worldVars, iterVars, histVars, Boot, IsOp
<1>4. CASE ListFails
  BY <1>4, <1>s, <1>b, <1>p DEF ListFails, iterVars
<1>5. CASE Begin
  <2>1. booted' = (booted /\ ~(target # None /\ target.power = "REBOOT" /\ ops'["reboot"] = None))
    BY <1>5 DEF Begin
  <2>2. Started(ops') => booted'
    BY <1>5, <2>1, <1>s, <1>b DEF Begin
  <2>3. snap' = dp /\ dp' = dp
    BY <1>5 DEF Begin, worldVars
  <2> QED BY <2>2, <2>3 DEF Boot, IsOp
<1>6. CASE Finalize
  BY <1>6, <1>b, <1>p DEF Finalize
<1>7. CASE Crash
  BY <1>7, <1>0, NothingCatalog, <1>p DEF Crash
<1>8. CASE CreateMachine \/ CreateRefused \/ CreateFails \/ Adopt \/ Keep
  <2>1. pc' = "finalize" /\ (ops' = Sweep(ops) \/ ops' = ops) /\ (booted' = booted \/ booted')
    BY <1>8 DEF CreateMachine, CreateRefused, CreateFails, Adopt, Keep, Apply, histVars
  <2> QED BY <2>1, <1>s, <1>b, <1>p
<1>9. CASE DeleteMachine \/ DeleteFails
  <2>1. pc' = "finalize" /\ ops' = Nothing
    BY <1>9 DEF DeleteMachine, DeleteFails, Apply
  <2> QED BY <2>1, <1>0, NothingCatalog, <1>p
<1>10. CASE StepPowerOff \/ StepPowerOn
  <2>1. PICK k \in Kinds \ {"reboot"} : Update /\ dp # None /\ (ShutDown(k) \/ StartUp(k))
    BY <1>10 DEF StepPowerOff, StepPowerOn, Kinds
  <2>2. PICK op \in Operation : Stepped(k, op)
    BY <2>1, PowerCalls
  <2>3. ops'["reboot"] = None
    BY <1>0, <2>1, <2>2, RanCatalog DEF Stepped
  <2> QED BY <2>1, <2>3, <1>p DEF Update, Apply
<1>11. CASE StepReboot
  <2> DEFINE op0 == Running("reboot")
  <2>1. op0 \in Operation /\ ~op0.done /\ (op0.start # None => Started(ops))
    BY <1>0, <1>11, RunningOperation DEF StepReboot, IsOp
  <2>2. pc = "apply" /\ pc' = "finalize" /\ snap # None /\ dp # None /\ dp \in Machine
    BY <1>11 DEF StepReboot, Update, Apply, Differs, Listed, TypeOK, OrNone
  <2>3. CASE StartUp("reboot") /\ (op0.start # None \/ snap.power = "OFF")
    <3>1. CASE op0.start # None
      <4>1. booted BY <3>1, <2>1, <1>b
      <4>2. booted' BY <4>1, <2>3 DEF StartUp, PowerOn
      <4> QED BY <4>2, <2>2, <1>p
    <3>2. CASE op0.start = None
      <4>1. snap.power = "OFF" /\ PowerOn
        BY <3>2, <2>3 DEF StartUp
      <4>2. dp.power # "OFF" => booted
        BY <4>1, <2>2 DEF Boot
      <4>3. booted \in BOOLEAN
        BY DEF TypeOK
      <4>4. booted' = (booted \/ dp.power = "OFF") \/ (dp.power = "UNKNOWN" /\ booted' = booted)
        BY <4>1 DEF PowerOn
      <4>5. booted'
        BY <4>2, <4>3, <4>4
      <4> QED BY <4>5, <2>2, <1>p
    <3> QED BY <3>1, <3>2
  <2>4. CASE ShutDown("reboot") /\ op0.start = None
    <3>1. 0 \in Ages
      BY MachineAssumption DEF Ages
    <3>2. /\ [op0 EXCEPT !.shut = 0] \in Operation /\ [op0 EXCEPT !.forced = 0] \in Operation
          /\ [op0 EXCEPT !.shut = 0].start = None /\ [op0 EXCEPT !.forced = 0].start = None
          /\ ~[op0 EXCEPT !.shut = 0].done /\ ~[op0 EXCEPT !.forced = 0].done
      BY <2>1, <2>4, <3>1 DEF Operation
    <3>3. PICK op \in Operation : Stepped("reboot", op) /\ op.start = None /\ ~op.done
      BY <2>1, <2>4, <3>2 DEF ShutDown
    <3>4. ~Started(ops')
      BY <1>0, <3>3, RanCatalog DEF Stepped
    <3> QED BY <2>2, <3>4, <1>p
  <2> QED BY <1>11, <2>3, <2>4 DEF StepReboot
<1>12. CASE StepFails
  <2>1. PICK k \in Kinds : Update /\ ops' = Ran(k, Running(k))
    BY <1>12 DEF StepFails
  <2>2. Running(k) \in Operation /\ ops'[k] = Running(k)
        /\ (\A j \in Kinds \ {k} : ops'[j] = None)
    BY <2>1, RunningOperation, RanCatalog
  <2>3. Started(ops') => Started(ops)
    <3>1. CASE k = "reboot"
      BY <3>1, <2>2, RunningOperation DEF IsOp
    <3>2. CASE k # "reboot"
      BY <1>0, <3>2, <2>2
    <3> QED BY <3>1, <3>2
  <2>4. pc' = "finalize" /\ booted' = booted
    BY <1>12, <2>1 DEF StepFails, Update, Apply, histVars
  <2> QED BY <2>3, <2>4, <1>b, <1>p
<1>13. CASE Refresh \/ RecreateRefused \/ Recreate \/ RecreateFails
  <2>1. want # None /\ Unhindered /\ pc' = "finalize" /\ (booted' = booted \/ booted')
        /\ (ops' = AfterPower \/ ops' = Recreated(AfterPower))
    BY <1>13 DEF Refresh, RecreateRefused, Recreate, RecreateFails, Reconfigure,
                 Update, Differs, Apply
  <2>2. AfterPower \in Catalog
    BY <2>1, AfterPowerCatalog
  <2>3. Started(AfterPower) => Started(ops)
    <3>1. CASE AfterPower["reboot"] = ops["reboot"]
      BY <3>1
    <3>2. CASE Rebooted(Running("reboot"))
      BY <1>0, <3>2, RunningOperation DEF Rebooted, IsOp
    <3> QED BY <1>0, <2>1, <3>1, <3>2, AfterPowerCatalog
  <2>4. Started(ops') => Started(AfterPower)
    BY <1>0, <2>1, <2>2, RecreatedCatalog
  <2> QED BY <2>1, <2>3, <2>4, <1>b, <1>p
<1> QED BY <1>1, <1>2, <1>3, <1>4, <1>5, <1>6, <1>7, <1>8, <1>9, <1>10, <1>11, <1>12, <1>13
     DEF Next, Agent

(* A target that asks for a reboot asks for its operation, whatever the    *)
(* machine is reported as.                                                 *)
LEMMA RebootAsked ==
    ASSUME TypeOK, snap # None, want # None, want.power = "REBOOT"
    PROVE  OpFor("reboot")
<1>1. snap.power \in Powers
  BY DEF TypeOK, OrNone, Machine
<1>2. Actual(ops, snap.power) # "REBOOT"
  BY <1>1 DEF Actual, Powers
<1> QED BY <1>1, <1>2 DEF OpFor, Powers

(* If the other changes need not wait for a reboot, it is finished.        *)
LEMMA RebootFinished ==
    ASSUME TypeOK, snap # None, want # None, want.power = "REBOOT", Unhindered
    PROVE  /\ AfterPower["reboot"] # None
           /\ AfterPower["reboot"].done /\ AfterPower["reboot"].touched
<1>1. "reboot" \in Kinds /\ OpFor("reboot")
  BY RebootAsked DEF Kinds
<1>2. Rebooted(Running("reboot"))
  BY <1>1 DEF Unhindered
<1>3. Running("reboot") \in Operation /\ Running("reboot").touched
  BY <1>1, RunningOperation
<1>4. Rebooted(Running("reboot")) \in BOOLEAN
  BY <1>3 DEF Rebooted, Operation
<1> DEFINE op == [Running("reboot") EXCEPT !.done = TRUE]
<1>5. op \in Operation /\ op.done /\ op.touched
  BY <1>3 DEF Operation
<1>6. AfterPower = [k \in Kinds |-> IF OpFor(k)
          THEN [Running(k) EXCEPT !.done = Rebooted(Running(k))] ELSE None]
  BY <1>1 DEF AfterPower
<1>7. AfterPower["reboot"] = op
  BY <1>1, <1>2, <1>4, <1>6
<1>8. op # None
  BY <1>5, MachineAssumption
<1> QED BY <1>5, <1>7, <1>8

(* A sweep takes a finished reboot only if no iteration wanted it: one     *)
(* that wants it touches it, and does not run it again.                    *)
LEMMA KeptStep == TypeOK /\ MetaOps /\ Kept /\ [Next]_vars => Kept'
<1> SUFFICES ASSUME TypeOK, MetaOps, Kept, [Next]_vars PROVE Kept'
  OBVIOUS
<1>0. ops \in Catalog /\ "reboot" \in Kinds /\ done \in BOOLEAN
  BY DEF TypeOK, Catalog, IsOp, Kinds
<1>p. ASSUME ~done' PROVE Kept'
  BY <1>p DEF Kept
<1>u. ASSUME UNCHANGED <<ops, done, missed, pc, want>> PROVE Kept'
  BY <1>u DEF Kept, RebootKept, IsOp
<1>r. done /\ pc = "apply" => want # None /\ want.power = "REBOOT"
  BY DEF Kept
<1>k. done /\ missed = 0 => IsOp("reboot") /\ ops["reboot"].done /\ meta
  <2>1. done /\ missed = 0 => IsOp("reboot") /\ ops["reboot"].done
    BY DEF Kept, RebootKept
  <2>2. ops = Nothing => ~IsOp("reboot")
    BY <1>0, NothingCatalog DEF IsOp
  <2> QED BY <2>1, <2>2 DEF MetaOps
<1>1. CASE ChangeTarget \/ GuestMoves \/ UNCHANGED vars
  BY <1>1, <1>u DEF ChangeTarget, GuestMoves, vars, worldVars, iterVars, histVars, bounds
<1>2. CASE Tick
  <2>1. UNCHANGED <<done, missed, pc, want>>
    BY <1>2 DEF Tick, iterVars, histVars, bounds
  <2>2. IsOp("reboot") =>
          /\ ops'["reboot"] # None /\ ops'["reboot"].done = ops["reboot"].done
          /\ ops'["reboot"].touched = ops["reboot"].touched
    BY <1>0, <1>2, TickCatalog
  <2> QED BY <2>1, <2>2 DEF Kept, RebootKept, IsOp
<1>3. CASE ListFails
  <2>1. pc' = "idle" /\ missed' = missed + 1 /\ missed \in 0..MaxMissed
    BY <1>3 DEF ListFails, iterVars, TypeOK
  <2>2. missed' # 0
    BY <2>1, MachineAssumption
  <2> QED BY <2>1, <2>2 DEF Kept
<1>4. CASE Begin
  <2>1. pc = "idle" /\ pc' = "apply" /\ want' = target /\ missed' = missed
    BY <1>4 DEF Begin, bounds
  <2>2. done' => done /\ target # None /\ target.power = "REBOOT"
    BY <1>4 DEF Begin
  <2>3. done /\ missed = 0 => ops["reboot"].touched
    BY <2>1 DEF Kept
  <2>4. done /\ missed = 0 => ops' = Sweep(ops)
    BY <1>4, <1>k DEF Begin
  <2>5. done /\ missed = 0 => Sweep(ops)["reboot"] # None /\ Sweep(ops)["reboot"].done
    BY <1>0, <1>k, <2>3, SweepCatalog DEF IsOp
  <2> QED BY <2>1, <2>2, <2>4, <2>5 DEF Kept, RebootKept, IsOp
<1>5. CASE Finalize
  BY <1>5 DEF Finalize, bounds, Kept, RebootKept, IsOp
<1>6. CASE Crash \/ CreateMachine \/ CreateRefused \/ CreateFails
  BY <1>6, <1>p DEF Crash, CreateMachine, CreateRefused, CreateFails
<1>7. CASE Adopt
  <2>1. ~meta /\ pc' = "finalize" /\ done' = done /\ missed' = missed
    BY <1>7 DEF Adopt, Apply, histVars
  <2> QED BY <2>1, <1>k DEF Kept
<1>8. CASE DeleteMachine \/ DeleteFails
  <2>1. pc = "apply" /\ want = None /\ done' = done
    BY <1>8 DEF DeleteMachine, DeleteFails, Apply
  <2> QED BY <2>1, <1>r, <1>p, <1>0
<1>9. CASE Keep
  <2>1. pc = "apply" /\ done' = done
    BY <1>9 DEF Keep, Apply, histVars
  <2>2. want = None \/ (want # None /\ Listed /\ Same)
    BY <1>9 DEF Keep
  <2>3. ASSUME want # None, Listed, Same, want.power = "REBOOT" PROVE FALSE
    <3>1. want = [AsReported(ops, snap) EXCEPT !.power = @]
      BY <2>3 DEF Same
    <3>2. want.power = Actual(ops, snap.power)
      BY <3>1 DEF AsReported
    <3> QED BY <2>3, <3>2, RebootAsked DEF OpFor, Listed
  <2> QED BY <2>1, <2>2, <2>3, <1>r, <1>p, <1>0
<1>10. CASE StepPowerOff \/ StepPowerOn
  <2>1. PICK k \in {"power_off", "power_on"} :
          Update /\ OpFor(k) /\ dp # None /\ (ShutDown(k) \/ StartUp(k))
    BY <1>10 DEF StepPowerOff, StepPowerOn
  <2>2. PICK op \in Operation : Stepped(k, op)
    BY <2>1, PowerCalls DEF Kinds
  <2>3. want # None /\ pc = "apply"
    BY <2>1 DEF Update, Differs, Apply
  <2>4. want.power # "REBOOT"
    BY <1>0, <2>1, <2>3, RebootAsked, OneOperation DEF Update, Differs, Listed, Kinds
  <2> QED BY <2>2, <2>3, <2>4, <1>r, <1>p, <1>0 DEF Stepped
<1>11. CASE StepReboot
  <2>1. Update /\ dp # None /\ (ShutDown("reboot") \/ StartUp("reboot"))
        /\ ~Running("reboot").done
    BY <1>11 DEF StepReboot
  <2>2. PICK op \in Operation : Stepped("reboot", op)
    BY <1>0, <2>1, PowerCalls
  <2>3. pc' = "finalize" /\ missed' = missed /\ done' = done
    BY <2>1, <2>2 DEF Update, Apply, Stepped
  <2>4. ~(done /\ missed = 0)
    BY <1>0, <1>k, <2>1, RunningOperation
  <2> QED BY <2>3, <2>4 DEF Kept
<1>12. CASE StepFails
  <2>1. PICK k \in Kinds : OpFor(k) /\ ~(k = "reboot" /\ Rebooted(Running(k)))
    BY <1>12 DEF StepFails
  <2>2. Update /\ done' = done /\ pc = "apply" /\ pc' = "finalize" /\ missed' = missed
    BY <1>12 DEF StepFails, Update, Apply, histVars
  <2>3. want # None /\ snap # None
    BY <2>2 DEF Update, Differs, Listed
  <2>4. done => k = "reboot"
    BY <1>0, <1>r, <2>1, <2>2, <2>3, RebootAsked, OneOperation
  <2>5. ~(done /\ missed = 0)
    BY <1>0, <1>k, <2>1, <2>4, RunningOperation DEF Rebooted
  <2> QED BY <2>2, <2>5 DEF Kept
<1>13. CASE Refresh \/ RecreateRefused \/ Recreate \/ RecreateFails
  <2>1. Reconfigure /\ (ops' = AfterPower \/ ops' = Recreated(AfterPower))
    BY <1>13 DEF Refresh, RecreateRefused, Recreate, RecreateFails
  <2>2. want # None /\ snap # None /\ Unhindered /\ pc = "apply" /\ pc' = "finalize"
        /\ done' = (done \/ want.power = "REBOOT")
    BY <2>1 DEF Reconfigure, Update, Differs, Listed, Apply
  <2>3. CASE want.power # "REBOOT"
    BY <2>2, <2>3, <1>r, <1>p, <1>0
  <2>4. CASE want.power = "REBOOT"
    <3>1. AfterPower["reboot"] # None
          /\ AfterPower["reboot"].done /\ AfterPower["reboot"].touched
      BY <2>2, <2>4, RebootFinished
    <3>2. AfterPower \in Catalog
      BY <2>2, AfterPowerCatalog
    <3>3. ops'["reboot"] # None /\ ops'["reboot"].done /\ ops'["reboot"].touched
      BY <1>0, <2>1, <3>1, <3>2, RecreatedCatalog
    <3> QED BY <2>2, <3>3 DEF Kept, RebootKept, IsOp
  <2> QED BY <2>3, <2>4
<1> QED BY <1>1, <1>2, <1>3, <1>4, <1>5, <1>6, <1>7, <1>8, <1>9, <1>10, <1>11, <1>12, <1>13
     DEF Next, Agent

(* A power off that was listed off is not stepped by that iteration: it    *)
(* asks first, or it asked since the machine was last listed off.          *)
LEMMA PowerOffAsks ==
    ASSUME TypeOK, OffListed, StepPowerOff
    PROVE  \/ signal' = "shutdown" /\ ~offListed'
           \/ ~offListed /\ ~offListed'
<1>1. /\ Update /\ OpFor("power_off") /\ ShutDown("power_off")
      /\ "power_off" \in Kinds /\ offListed \in BOOLEAN
  BY DEF StepPowerOff, Kinds, TypeOK
<1>2. offListed' = (offListed /\ signal' # "shutdown")
  BY <1>1 DEF ShutDown, Stepped
<1>3. pc = "apply" /\ snap.power # "OFF"
  <2>1. want.power = "OFF"
    BY <1>1 DEF OpFor, Update, Differs, TypeOK, OrNone, Wants
  <2> QED BY <1>1, <2>1 DEF OpFor, Update, Apply
<1>4. offListed => ~Asked(ops)
  BY <1>3 DEF OffListed
<1>5. Running("power_off").shut # None => Asked(ops)
  BY <1>1, RunningOperation DEF Asked, IsOp
<1>6. signal' = "shutdown" \/ Running("power_off").shut # None
  BY <1>1, MachineAssumption DEF ShutDown
<1> QED BY <1>1, <1>2, <1>4, <1>5, <1>6

(* The journal of a power off that is older than an off listing is only    *)
(* ever swept: what steps it was listed running and has asked again.       *)
LEMMA OffListedStep == TypeOK /\ MetaOps /\ OffListed /\ [Next]_vars => OffListed'
<1> SUFFICES ASSUME TypeOK, MetaOps, OffListed, [Next]_vars PROVE OffListed'
  OBVIOUS
<1>0. ops \in Catalog /\ "power_off" \in Kinds /\ offListed \in BOOLEAN
  BY DEF TypeOK, Catalog, IsOp, Kinds
<1>o. offListed /\ Asked(ops) => ~ops["power_off"].touched
  BY DEF OffListed
<1>s. Asked(Sweep(ops)) => Asked(ops) /\ ops["power_off"].touched
                            /\ ~Sweep(ops)["power_off"].touched
  BY <1>0, SweepCatalog DEF Asked
<1>p. ASSUME pc' # "apply", offListed' /\ Asked(ops)' => ~ops'["power_off"].touched
      PROVE  OffListed'
  BY <1>p DEF OffListed
<1>u. ASSUME UNCHANGED <<pc, snap, signal, offListed>>, Asked(ops)' => Asked(ops),
             Asked(ops)' => ops'["power_off"].touched = ops["power_off"].touched
      PROVE  OffListed'
  BY <1>u DEF OffListed
<1>1. CASE ChangeTarget \/ GuestMoves \/ UNCHANGED vars
  <2>1. UNCHANGED <<ops, pc, snap, signal, offListed>>
    BY <1>1 DEF ChangeTarget, GuestMoves, vars, worldVars, iterVars, histVars
  <2> QED BY <2>1, <1>u DEF Asked
<1>2. CASE Tick
  <2>1. UNCHANGED <<pc, snap, signal, offListed>>
    BY <1>2 DEF Tick, iterVars, histVars
  <2>2. Asked(ops)' => Asked(ops) /\ ops'["power_off"].touched = ops["power_off"].touched
    BY <1>0, <1>2, TickCatalog DEF Asked, IsOp
  <2> QED BY <2>1, <2>2, <1>u
<1>3. CASE ListFails
  <2>1. pc' = "idle" /\ offListed' = offListed /\ (ops' = ops \/ ops' = Sweep(ops))
    BY <1>3 DEF ListFails, iterVars
  <2> QED BY <2>1, <1>o, <1>s, <1>p DEF Asked
<1>4. CASE Begin
  <2>1. pc = "idle" /\ signal' = "none" /\ snap' = dp
    BY <1>4 DEF Begin
  <2>2. offListed' => offListed \/ (dp # None /\ dp.power = "OFF")
    BY <1>4 DEF Begin
  <2>3. ops' = Sweep(ops) \/ ops' = Nothing
    BY <1>4 DEF Begin, MetaOps
  <2>4. Asked(ops)' => Asked(ops) /\ ops["power_off"].touched /\ ~ops'["power_off"].touched
    BY <1>0, <1>s, <2>3, NothingCatalog DEF Asked
  <2>5. offListed' /\ Asked(ops)' => dp # None /\ dp.power = "OFF"
    BY <1>o, <2>2, <2>4
  <2> QED BY <2>1, <2>4, <2>5 DEF OffListed
<1>5. CASE Finalize
  <2>1. pc' = "idle" /\ offListed' = offListed /\ ops' = ops
    BY <1>5 DEF Finalize
  <2> QED BY <2>1, <1>o, <1>p DEF Asked
<1>6. CASE Crash \/ DeleteMachine \/ DeleteFails
  <2>1. pc' # "apply" /\ ops' = Nothing
    BY <1>6 DEF Crash, DeleteMachine, DeleteFails, Apply
  <2> QED BY <2>1, <1>0, <1>p, NothingCatalog DEF Asked
<1>7. CASE CreateMachine \/ CreateRefused \/ CreateFails \/ Adopt \/ Keep
  <2>1. pc' = "finalize" /\ offListed' = offListed /\ (ops' = ops \/ ops' = Sweep(ops))
    BY <1>7 DEF CreateMachine, CreateRefused, CreateFails, Adopt, Keep, Apply, histVars
  <2> QED BY <2>1, <1>o, <1>s, <1>p DEF Asked
<1>8. CASE StepPowerOff
  <2>1. ~offListed'
    BY <1>8, PowerOffAsks
  <2>2. pc' # "apply"
    BY <1>8 DEF StepPowerOff, Update, Apply
  <2> QED BY <2>1, <2>2, <1>p
<1>9. CASE StepPowerOn \/ StepReboot
  <2>1. PICK k \in Kinds \ {"power_off"} : Update /\ dp # None /\ (ShutDown(k) \/ StartUp(k))
    BY <1>9 DEF StepPowerOn, StepReboot, Kinds
  <2>2. PICK op \in Operation : Stepped(k, op)
    BY <2>1, PowerCalls
  <2>3. ops'["power_off"] = None
    BY <1>0, <2>1, <2>2, RanCatalog DEF Stepped
  <2> QED BY <2>1, <2>3, <1>p DEF Update, Apply, Asked
<1>10. CASE StepFails
  <2>1. PICK k \in Kinds : OpFor(k) /\ ops' = Ran(k, Running(k))
    BY <1>10 DEF StepFails
  <2>2. Update /\ offListed' = offListed /\ pc = "apply" /\ pc' = "finalize"
    BY <1>10 DEF StepFails, Update, Apply, histVars
  <2>3. Running(k) \in Operation /\ ops'[k] = Running(k)
        /\ (\A j \in Kinds \ {k} : ops'[j] = None)
    BY <2>1, RunningOperation, RanCatalog
  <2>4. CASE k # "power_off"
    BY <1>0, <2>2, <2>3, <2>4, <1>p DEF Asked
  <2>5. CASE k = "power_off"
    <3>1. snap.power # "OFF"
      <4>1. want.power = "OFF"
        BY <2>1, <2>2, <2>5 DEF OpFor, Update, Differs, TypeOK, OrNone, Wants
      <4> QED BY <2>1, <2>5, <4>1 DEF OpFor
    <3>2. offListed => ~Asked(ops)
      BY <2>2, <3>1 DEF OffListed
    <3>3. Asked(ops)' => Asked(ops)
      BY <1>0, <2>3, <2>5, RunningOperation DEF Asked, IsOp
    <3> QED BY <2>2, <3>2, <3>3, <1>p
  <2> QED BY <2>4, <2>5
<1>11. CASE Refresh \/ RecreateRefused \/ Recreate \/ RecreateFails
  <2>1. Reconfigure /\ (ops' = AfterPower \/ ops' = Recreated(AfterPower))
        /\ offListed' = offListed
    BY <1>11 DEF Refresh, RecreateRefused, Recreate, RecreateFails
  <2>2. want # None /\ Unhindered /\ pc' = "finalize"
    BY <2>1 DEF Reconfigure, Update, Differs, Apply
  <2>3. AfterPower \in Catalog
        /\ (AfterPower["power_off"] # None => AfterPower["power_off"] = ops["power_off"])
    BY <1>0, <2>2, AfterPowerCatalog
  <2>4. Asked(AfterPower) => Asked(ops)
        /\ AfterPower["power_off"].touched = ops["power_off"].touched
    BY <2>3 DEF Asked
  <2>5. Asked(ops)' => Asked(AfterPower)
        /\ ops'["power_off"].touched = AfterPower["power_off"].touched
    BY <1>0, <2>1, <2>3, RecreatedCatalog DEF Asked
  <2> QED BY <2>1, <2>2, <2>4, <2>5, <1>o, <1>p
<1> QED BY <1>1, <1>2, <1>3, <1>4, <1>5, <1>6, <1>7, <1>8, <1>9, <1>10, <1>11
     DEF Next, Agent

LEMMA Invariance == Spec => []Inv
<1>1. Init => Inv
  <2> SUFFICES ASSUME Init PROVE Inv
    OBVIOUS
  <2>1. \A k \in Kinds : ops[k] = None
    BY NothingCatalog DEF Init
  <2>2. Kept /\ OffListed
    BY DEF Init, Kept, OffListed
  <2> QED BY <2>1, <2>2, TypeInit DEF Init, Inv, MetaOps, Journal, Boot, IsOp, Kinds
<1>2. Inv /\ [Next]_vars => Inv'
  BY TypeStep, MetaOpsStep, JournalStep, BootStep, KeptStep, OffListedStep DEF Inv
<1> QED BY <1>1, <1>2, PTL DEF Spec

-----------------------------------------------------------------------------
(* The machine and the catalog are well typed, and a machine has at most   *)
(* one power operation at a time.                                          *)
THEOREM PowerTypeCorrect == Spec => []TypeOK
BY Invariance, PTL DEF Inv

(* An unfinished operation never goes on by the journal of a domain that   *)
(* was recreated since.                                                    *)
THEOREM JournalNeverStale == Spec => []JournalIntact
<1>1. Inv => JournalIntact
  BY DEF Inv, Journal, JournalIntact
<1> QED BY <1>1, Invariance, PTL

(* A finished reboot booted the machine after it was asked for. *)
THEOREM RebootedMachineBooted == Spec => []DoneMeansBooted
<1>1. Inv => DoneMeansBooted
  BY DEF Inv, Boot, DoneMeansBooted
<1> QED BY <1>1, Invariance, PTL

(* While its target asks for a reboot, the agent keeps the one it has      *)
(* finished, unless a listing failed: it does not reboot the machine again *)
(* and again (_swept_ops, touch of run()).                                 *)
THEOREM FinishedRebootStays == Spec => []FinishedRebootKept
<1>1. Inv => FinishedRebootKept
  BY DEF Inv, Kept, FinishedRebootKept
<1> QED BY <1>1, Invariance, PTL

(* A power off forces only a machine that it has asked to stop since it    *)
(* was last listed off, never by the journal of an earlier power off.      *)
THEOREM ForceAsksFirst == Spec => ForcedNotAfterOffListed
<1>1. Inv /\ [Next]_vars =>
        [pc = "apply" /\ want # None /\ want.power = "OFF" /\ signal' = "force"
           => ~offListed]_vars
  <2> SUFFICES ASSUME Inv, [Next]_vars, pc = "apply", want # None, want.power = "OFF",
                      signal' = "force"
               PROVE  ~offListed
    OBVIOUS
  <2>1. TypeOK /\ OffListed /\ signal = "none"
    BY DEF Inv, OffListed
  <2>2. CASE StepPowerOff
    BY <2>1, <2>2, PowerOffAsks
  <2>3. CASE StepPowerOn \/ StepReboot
    BY <2>3 DEF StepPowerOn, StepReboot, OpFor
  <2>4. CASE \/ ChangeTarget \/ GuestMoves \/ Tick \/ ListFails \/ Crash \/ Begin \/ Finalize
             \/ CreateMachine \/ CreateRefused \/ CreateFails \/ Adopt \/ UNCHANGED vars
    BY <2>1, <2>4 DEF ChangeTarget, GuestMoves, Tick, ListFails, Crash, Begin, Finalize,
       CreateMachine, CreateRefused, CreateFails, Adopt, vars, histVars
  <2>5. CASE \/ DeleteMachine \/ DeleteFails \/ Keep \/ StepFails
             \/ Refresh \/ RecreateRefused \/ Recreate \/ RecreateFails
    BY <2>1, <2>5 DEF DeleteMachine, DeleteFails, Keep, StepFails, Refresh,
       RecreateRefused, Recreate, RecreateFails, histVars
  <2> QED BY <2>2, <2>3, <2>4, <2>5 DEF Next, Agent
<1> QED BY <1>1, Invariance, PTL DEF Spec, ForcedNotAfterOffListed
=============================================================================
