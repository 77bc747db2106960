---------------------------- MODULE BuilderProofs ----------------------------
(***************************************************************************)
(* Proofs about UniversalBuilder and, below, about BuilderDerivatives.     *)
(*                                                                         *)
(* The builder loses no edit between its vectors and its tracked_at, and   *)
(* never publishes an older edit.  Agents see the parts of an instance as  *)
(* one build made them, and as the committed state of the master wants     *)
(* them.  Both for every number of instances, parts, edits, changes of the *)
(* master, reports and faults.                                             *)
(***************************************************************************)
EXTENDS BuilderDerivatives, FiniteSetTheorems, TLAPS

Vectors == {"new", "deleted", "updated", "outdated"}

\* What a row in a batch was read with, and that it is still there.
BatchOK(j) ==
    j \in batch =>
        /\ pc \in {"new", "updated", "outdated"} => mem[j] \in Row \ {None}
        /\ pc \in {"updated", "outdated"} => target[j] \in TargetRow \ {None}
        /\ pc = "outdated" => seen[j] \in Row
        /\ pc = "new" => shown[j] = None

\* No row holds an edit that was not made.
Known(j) ==
    /\ inst[j] # None => inst[j].value <= edits
    /\ target[j] # None => target[j].value <= edits
    /\ shown[j] # None => shown[j].value <= edits
    /\ mem[j] # None => mem[j].value <= edits
    /\ Committed(j) # None => Committed(j).value <= edits

\* tracked is only set by whoever built the edit: for the rows of the
\* transaction, and for those everybody else sees.
TrackedOK(j) ==
    j \notin missed =>
        /\ inst[j] # None /\ target[j] # None /\ target[j].tracked
           => target[j].value = inst[j].value
        /\ Committed(j) # None /\ shown[j] # None /\ shown[j].tracked
           => shown[j].value = Committed(j).value

\* A target row is never ahead of its instance, nor behind what is shown; a
\* row that was read is between the two.
ForwardOK(j) ==
    /\ inst[j] # None /\ target[j] # None => target[j].value <= inst[j].value
    /\ Committed(j) # None /\ shown[j] # None => shown[j].value <= Committed(j).value
    /\ shown[j] # None /\ target[j] # None => shown[j].value <= target[j].value
    /\ j \in batch /\ pc \in {"new", "updated", "outdated"} =>
         /\ inst[j] # None => mem[j].value <= inst[j].value
         /\ pc # "new" => target[j].value <= mem[j].value

InstanceOK(j) == BatchOK(j) /\ Known(j) /\ TrackedOK(j) /\ ForwardOK(j)

Inv == TypeOK /\ \A j \in Instances : InstanceOK(j)

-----------------------------------------------------------------------------
(* Helpers *)

\* Untracked changes nothing but the mark of the instance's own row.
LEMMA UntrackedRows ==
    ASSUME NEW rows \in [Instances -> OrNone(TargetRow)], NEW i \in Instances
    PROVE  /\ Untracked(rows, i) \in [Instances -> OrNone(TargetRow)]
           /\ \A j \in Instances : j # i => Untracked(rows, i)[j] = rows[j]
           /\ rows[i] = None => Untracked(rows, i)[i] = None
           /\ rows[i] # None =>
                /\ Untracked(rows, i)[i] \in TargetRow \ {None}
                /\ Untracked(rows, i)[i].value = rows[i].value
                /\ Untracked(rows, i)[i].tracked = FALSE
<1>1. CASE rows[i] = None
  BY <1>1 DEF Untracked
<1>2. CASE rows[i] # None
  <2>1. rows[i] \in TargetRow
    BY <1>2 DEF OrNone
  <2>2. Untracked(rows, i) = [rows EXCEPT ![i] = [rows[i] EXCEPT !.tracked = FALSE]]
    BY <1>2 DEF Untracked
  <2>3. [rows[i] EXCEPT !.tracked = FALSE] \in TargetRow
    BY <2>1 DEF TargetRow
  <2>4. [rows[i] EXCEPT !.tracked = FALSE] # None
    BY <2>3, BuilderAssumption
  <2> QED BY <1>2, <2>1, <2>2, <2>3, <2>4 DEF OrNone, TargetRow
<1> QED BY <1>1, <1>2

\* A vector reads rows that match its query.
LEMMA LimitedSubset ==
    ASSUME NEW S, NEW T \in Limited(S)
    PROVE  T \subseteq S
BY DEF Limited

\* The state of an instance is kept by a step that leaves its rows alone.
LEMMA Frame ==
    ASSUME Inv, NEW j \in Instances,
           inst'[j] = inst[j], target'[j] = target[j], shown'[j] = shown[j],
           undo'[j] = undo[j], mem'[j] = mem[j], seen'[j] = seen[j],
           pc' = pc, j \in batch' => j \in batch,
           j \in missed => j \in missed',
           edits <= edits', edits' \in Nat
    PROVE  InstanceOK(j)'
<1> USE DEF Inv, InstanceOK
<1>0. TypeOK /\ BatchOK(j) /\ Known(j) /\ TrackedOK(j) /\ ForwardOK(j)
  OBVIOUS
<1>1. BatchOK(j)'
  BY <1>0 DEF BatchOK
<1>3. Committed(j)' = Committed(j)
  BY DEF Committed
<1>2. Known(j)'
  <2> edits \in Nat /\ MaxEdits \in Nat
    BY <1>0, BuilderAssumption DEF TypeOK
  <2>1. /\ inst[j] # None => inst[j].value \in Nat
        /\ target[j] # None => target[j].value \in Nat
        /\ shown[j] # None => shown[j].value \in Nat
        /\ mem[j] # None => mem[j].value \in Nat
        /\ Committed(j) # None => Committed(j).value \in Nat
    BY <1>0 DEF TypeOK, OrNone, Row, TargetRow, Values, Committed
  <2> QED BY <1>0, <1>3, <2>1 DEF Known
<1>4. TrackedOK(j)'
  BY <1>0, <1>3 DEF TrackedOK
<1>5. ForwardOK(j)'
  BY <1>0, <1>3 DEF ForwardOK
<1> QED BY <1>1, <1>2, <1>4, <1>5

\* A save writes a row that is there, with one of the two values, and keeps
\* the version everybody else sees.
LEMMA SaveRow ==
    ASSUME inst \in [Instances -> OrNone(Row)], undo \in [Instances -> OrNone(Row)],
           NEW i \in Instances, mem[i] \in Row, NEW s \in Statuses, Save(i, s)
    PROVE  /\ inst' \in [Instances -> OrNone(Row)]
           /\ undo' \in [Instances -> OrNone(Row)]
           /\ \A j \in Instances : j # i => inst'[j] = inst[j] /\ undo'[j] = undo[j]
           /\ Committed(i)' = Committed(i)
           /\ inst'[i] # None => /\ inst[i] # None
                                 /\ inst'[i].value \in {mem[i].value, inst[i].value}
<1>1. CASE s = mem[i].status
  BY <1>1 DEF Save, Committed
<1>2. CASE s # mem[i].status
  <2>1. inst[i] \in Row /\ inst[i] # None
    BY <1>2 DEF Save, OrNone
  <2>2. PICK v \in {mem[i].value, inst[i].value} :
          inst' = [inst EXCEPT ![i] = [value |-> v, status |-> s]]
    BY <1>2 DEF Save
  <2>3. undo' = [undo EXCEPT ![i] = IF undo[i] = None THEN inst[i] ELSE undo[i]]
    BY <1>2 DEF Save
  <2>4. [value |-> v, status |-> s] \in Row
    BY <2>1 DEF Row
  <2> QED BY <2>1, <2>2, <2>3, <2>4 DEF Committed, OrNone
<1> QED BY <1>1, <1>2

\* What is left to show when instance i was handled: it has left the batch.
LEMMA Handled ==
    ASSUME Inv, TypeOK', NEW i \in Instances,
           batch' = batch \ {i}, pc' = pc, mem' = mem, seen' = seen,
           shown' = shown, edits' = edits, missed \subseteq missed',
           \A j \in Instances : j # i => /\ inst'[j] = inst[j]
                                        /\ target'[j] = target[j]
                                        /\ undo'[j] = undo[j],
           Committed(i)' = Committed(i),
           inst'[i] # None => inst'[i].value <= edits,
           target'[i] # None => target'[i].value <= edits,
           i \notin missed' /\ inst'[i] # None /\ target'[i] # None /\ target'[i].tracked
             => target'[i].value = inst'[i].value,
           inst'[i] # None /\ target'[i] # None => target'[i].value <= inst'[i].value,
           shown[i] # None /\ target'[i] # None => shown[i].value <= target'[i].value
    PROVE  Inv'
<1>1. ASSUME NEW j \in Instances, j # i PROVE InstanceOK(j)'
  <2> edits \in Nat
    BY BuilderAssumption DEF Inv, TypeOK
  <2> QED BY <1>1, Frame
<1>2. InstanceOK(i)'
  <2>0. InstanceOK(i)
    BY DEF Inv
  <2>1. BatchOK(i)'
    BY DEF BatchOK
  <2>2. Known(i)'
    BY <2>0 DEF Known, InstanceOK
  <2>3. TrackedOK(i)'
    BY <2>0 DEF TrackedOK, InstanceOK
  <2>4. ForwardOK(i)'
    BY <2>0 DEF ForwardOK, InstanceOK
  <2> QED BY <2>1, <2>2, <2>3, <2>4 DEF InstanceOK
<1> QED BY <1>1, <1>2 DEF Inv

\* A vector reads the rows of one moment.
LEMMA Fetched ==
    ASSUME Inv, NEW from \in Vectors \cup {"idle"}, NEW to \in Vectors, NEW S,
           Fetch(from, to, S),
           \A j \in S : /\ j \in Instances
                        /\ to \in {"new", "updated", "outdated"} => inst[j] # None
                        /\ to \in {"updated", "outdated"} => target[j] # None
                        /\ to = "outdated" => actual[j] # None
                        /\ to = "new" => shown[j] = None
    PROVE  Inv'
<1>0. TypeOK /\ pc' = to /\ batch' \subseteq S /\ mem' = inst /\ seen' = actual
  BY LimitedSubset DEF Inv, Fetch
<1>1. UNCHANGED <<inst, edits, target, shown, undo, actual, ready, reportsLeft,
                  missed, faultsLeft>>
  BY DEF Fetch, userVars, dbVars, agentVars
<1>2. TypeOK'
  BY <1>0, <1>1 DEF TypeOK, Vectors
<1>3. ASSUME NEW j \in Instances PROVE InstanceOK(j)'
  <2>0. InstanceOK(j)
    BY DEF Inv
  <2>1. BatchOK(j)'
    BY <1>0, <1>1 DEF BatchOK, TypeOK, OrNone
  <2>3. Committed(j)' = Committed(j)
    BY <1>1 DEF Committed
  <2>2. Known(j)'
    BY <1>0, <1>1, <2>0, <2>3 DEF Known, InstanceOK
  <2>4. TrackedOK(j)'
    BY <1>1, <2>0, <2>3 DEF TrackedOK, InstanceOK
  <2>5. ForwardOK(j)'
    <3>1. inst[j] # None => inst[j].value <= inst[j].value
      BY <1>0 DEF TypeOK, OrNone, Row, Values
    <3>2. j \in batch' /\ to \in {"new", "updated", "outdated"} =>
            /\ inst'[j] # None => mem'[j].value <= inst'[j].value
            /\ to # "new" => target'[j].value <= mem'[j].value
      BY <1>0, <1>1, <2>0, <3>1 DEF ForwardOK, InstanceOK
    <3> QED BY <1>0, <1>1, <2>0, <2>3, <3>2 DEF ForwardOK, InstanceOK
  <2> QED BY <2>1, <2>2, <2>4, <2>5 DEF InstanceOK
<1> QED BY <1>2, <1>3 DEF Inv

-----------------------------------------------------------------------------
(* The invariant *)

LEMMA InitInv == Init => Inv
<1> SUFFICES ASSUME Init PROVE Inv
  OBVIOUS
<1>1. TypeOK
  BY BuilderAssumption DEF Init, TypeOK, OrNone
<1>2. \A j \in Instances : InstanceOK(j)
  BY DEF Init, InstanceOK, BatchOK, Known, TrackedOK, ForwardOK, Committed
<1> QED BY <1>1, <1>2 DEF Inv

LEMMA EditInv == ASSUME Inv, NEW i \in Instances, Edit(i) PROVE Inv'
<1> DEFINE row == [value |-> edits', status |-> IF inst[i] = None THEN "NEW" ELSE inst[i].status]
<1>0. TypeOK
  BY DEF Inv
<1>1. edits \in Nat /\ edits' = edits + 1 /\ edits' \in Values /\ edits' # None
  BY <1>0, BuilderAssumption DEF Edit, TypeOK, Values
<1>2. row \in Row
  BY <1>0, <1>1 DEF TypeOK, OrNone, Row, Statuses
<1>3. /\ inst' = [inst EXCEPT ![i] = row] /\ undo[i] = None
      /\ target' = Untracked(target, i) /\ shown' = Untracked(shown, i)
      /\ missed' = missed \ {i}
      /\ UNCHANGED <<undo, actual, ready, reportsLeft, pc, mem, seen, batch, faultsLeft>>
  BY DEF Edit, agentVars, readVars
<1>4. target \in [Instances -> OrNone(TargetRow)] /\ shown \in [Instances -> OrNone(TargetRow)]
  BY <1>0 DEF TypeOK
<1>5. TypeOK'
  <2>1. inst' \in [Instances -> OrNone(Row)]
    BY <1>0, <1>2, <1>3 DEF TypeOK, OrNone
  <2>2. target' \in [Instances -> OrNone(TargetRow)] /\ shown' \in [Instances -> OrNone(TargetRow)]
    BY <1>3, <1>4, UntrackedRows
  <2>3. target = shown => target' = shown'
    BY <1>3
  <2>4. edits' \in 0..MaxEdits
    BY <1>1, BuilderAssumption DEF Values
  <2> QED BY <1>0, <1>3, <2>1, <2>2, <2>3, <2>4 DEF TypeOK
<1>6. ASSUME NEW j \in Instances, j # i PROVE InstanceOK(j)'
  <2>3. Untracked(target, i)[j] = target[j] /\ Untracked(shown, i)[j] = shown[j]
    BY <1>4, <1>6, UntrackedRows
  <2>1. target'[j] = target[j] /\ shown'[j] = shown[j] /\ inst'[j] = inst[j]
    BY <1>0, <1>3, <1>6, <2>3 DEF TypeOK
  <2>2. edits <= edits' /\ edits' \in Nat
    BY <1>1
  <2> QED BY <1>3, <1>6, <2>1, <2>2, Frame
<1>7. InstanceOK(i)'
  <2>0. InstanceOK(i)
    BY DEF Inv
  <2>1. inst'[i] = row /\ row.value = edits' /\ Committed(i)' = row
    BY <1>0, <1>3 DEF TypeOK, Committed
  <2>2. /\ target[i] = None => target'[i] = None
        /\ target[i] # None => /\ target'[i] \in TargetRow \ {None} /\ target'[i].tracked = FALSE
                               /\ target'[i].value = target[i].value
        /\ shown[i] = None => shown'[i] = None
        /\ shown[i] # None => /\ shown'[i] \in TargetRow /\ shown'[i].tracked = FALSE
                              /\ shown'[i].value = shown[i].value
    BY <1>3, <1>4, UntrackedRows
  <2>3. /\ target[i] # None => target[i].value \in Nat /\ target[i].value <= edits
        /\ shown[i] # None => shown[i].value \in Nat /\ shown[i].value <= edits
        /\ mem[i] # None => mem[i].value \in Nat /\ mem[i].value <= edits
    BY <1>0, <2>0, BuilderAssumption
       DEF TypeOK, OrNone, Row, TargetRow, Values, InstanceOK, Known
  <2>4. BatchOK(i)'
    BY <1>3, <2>0, <2>2 DEF BatchOK, InstanceOK, TargetRow
  <2>5. Known(i)'
    BY <1>1, <1>3, <2>1, <2>2, <2>3 DEF Known
  <2>6. TrackedOK(i)'
    BY <2>2, <2>1 DEF TrackedOK
  <2>7. ForwardOK(i)'
    <3>1. i \in batch /\ pc \in {"new", "updated", "outdated"} => mem[i] # None
      BY <2>0 DEF InstanceOK, BatchOK
    <3>2. i \in batch /\ pc \in {"new", "updated", "outdated"} => mem[i].value <= edits'
      BY <1>1, <2>0, <2>3, <3>1 DEF InstanceOK, BatchOK, Known
    <3>3. i \in batch /\ pc \in {"updated", "outdated"} => target'[i].value <= mem[i].value
      BY <2>0, <2>2 DEF InstanceOK, BatchOK, ForwardOK
    <3> QED BY <1>1, <1>3, <2>0, <2>1, <2>2, <2>3, <3>2, <3>3 DEF ForwardOK, InstanceOK
  <2> QED BY <2>4, <2>5, <2>6, <2>7 DEF InstanceOK
<1> QED BY <1>5, <1>6, <1>7 DEF Inv

LEMMA RemoveInv == ASSUME Inv, NEW i \in Instances, Remove(i) PROVE Inv'
<1>0. TypeOK
  BY DEF Inv
<1>1. edits \in Nat /\ edits' = edits + 1 /\ edits' \in 0..MaxEdits /\ edits <= edits'
  BY <1>0, BuilderAssumption DEF Remove, TypeOK
<1>2. /\ inst' = [inst EXCEPT ![i] = None] /\ undo[i] = None
      /\ target' = Untracked(target, i) /\ shown' = Untracked(shown, i)
      /\ missed' = missed \ {i}
      /\ UNCHANGED <<undo, actual, ready, reportsLeft, pc, mem, seen, batch, faultsLeft>>
  BY DEF Remove, agentVars, readVars
<1>3. target \in [Instances -> OrNone(TargetRow)] /\ shown \in [Instances -> OrNone(TargetRow)]
  BY <1>0 DEF TypeOK
<1>4. TypeOK'
  <2>1. inst' \in [Instances -> OrNone(Row)]
    BY <1>0, <1>2 DEF TypeOK, OrNone
  <2>2. target' \in [Instances -> OrNone(TargetRow)] /\ shown' \in [Instances -> OrNone(TargetRow)]
    BY <1>2, <1>3, UntrackedRows
  <2>3. target = shown => target' = shown'
    BY <1>2
  <2> QED BY <1>0, <1>1, <1>2, <2>1, <2>2, <2>3 DEF TypeOK
<1>5. ASSUME NEW j \in Instances, j # i PROVE InstanceOK(j)'
  <2>3. Untracked(target, i)[j] = target[j] /\ Untracked(shown, i)[j] = shown[j]
    BY <1>3, <1>5, UntrackedRows
  <2>1. target'[j] = target[j] /\ shown'[j] = shown[j] /\ inst'[j] = inst[j]
    BY <1>0, <1>2, <1>5, <2>3 DEF TypeOK
  <2> QED BY <1>1, <1>2, <1>5, <2>1, Frame
<1>6. InstanceOK(i)'
  <2>0. InstanceOK(i)
    BY DEF Inv
  <2>1. inst'[i] = None /\ Committed(i)' = None
    BY <1>0, <1>2 DEF TypeOK, Committed
  <2>2. /\ target[i] = None => target'[i] = None
        /\ target[i] # None => target'[i] \in TargetRow \ {None} /\ target'[i].value = target[i].value
        /\ shown[i] = None => shown'[i] = None
        /\ shown[i] # None => shown'[i] \in TargetRow /\ shown'[i].value = shown[i].value
    BY <1>2, <1>3, UntrackedRows
  <2>3. /\ target[i] # None => target[i].value \in Nat /\ target[i].value <= edits
        /\ shown[i] # None => shown[i].value \in Nat /\ shown[i].value <= edits
        /\ mem[i] # None => mem[i].value \in Nat /\ mem[i].value <= edits
    BY <1>0, <2>0, BuilderAssumption
       DEF TypeOK, OrNone, Row, TargetRow, Values, InstanceOK, Known
  <2>4. BatchOK(i)'
    BY <1>2, <2>0, <2>2 DEF BatchOK, InstanceOK, TargetRow
  <2>5. Known(i)'
    BY <1>1, <1>2, <2>1, <2>2, <2>3 DEF Known
  <2>6. TrackedOK(i)'
    BY <2>1 DEF TrackedOK
  <2>7. ForwardOK(i)'
    <3>1. i \in batch /\ pc \in {"updated", "outdated"} => target'[i].value <= mem[i].value
      BY <2>0, <2>2 DEF InstanceOK, BatchOK, ForwardOK
    <3>2. shown'[i] # None /\ target'[i] # None => shown'[i].value <= target'[i].value
      BY <2>0, <2>2 DEF InstanceOK, ForwardOK
    <3> QED BY <1>2, <2>1, <3>1, <3>2 DEF ForwardOK
  <2> QED BY <2>4, <2>5, <2>6, <2>7 DEF InstanceOK
<1> QED BY <1>4, <1>5, <1>6 DEF Inv

\* Agents and hooks touch nothing the invariant speaks of.
LEMMA AgentInv ==
    ASSUME Inv, NEW i \in Instances, Report(i) \/ ChangeReadiness(i)
    PROVE  Inv'
<1>0. TypeOK
  BY DEF Inv
<1>1. UNCHANGED <<inst, edits, target, shown, undo, pc, mem, seen, batch, missed, faultsLeft>>
  BY DEF Report, ChangeReadiness, userVars, dbVars, readVars
<1>2. reportsLeft' \in 0..MaxReports
  BY <1>0, BuilderAssumption DEF Report, ChangeReadiness, TypeOK
<1>3. ready' \subseteq Instances
  BY <1>0 DEF Report, ChangeReadiness, TypeOK
<1>4. actual' \in [Instances -> OrNone(Row)]
  <2>1. CASE ChangeReadiness(i)
    BY <1>0, <2>1 DEF ChangeReadiness, TypeOK
  <2>2. CASE Report(i) /\ shown[i] = None
    BY <1>0, <2>2 DEF Report, TypeOK, OrNone
  <2>3. CASE Report(i) /\ shown[i] # None
    <3>1. PICK s \in {"IN_PROGRESS", "ACTIVE"}, r \in {shown[i], actual[i]} \ {None} :
            actual' = [actual EXCEPT ![i] = [value |-> r.value, status |-> s]]
      BY <2>3 DEF Report
    <3>2. r.value \in Values
      BY <1>0 DEF TypeOK, OrNone, Row, TargetRow
    <3>3. [value |-> r.value, status |-> s] \in Row
      BY <3>2 DEF Row, Statuses
    <3> QED BY <1>0, <3>1, <3>3 DEF TypeOK, OrNone
  <2> QED BY <2>1, <2>2, <2>3
<1>5. TypeOK'
  BY <1>0, <1>1, <1>2, <1>3, <1>4 DEF TypeOK
<1>6. ASSUME NEW j \in Instances PROVE InstanceOK(j)'
  <2> edits \in Nat /\ edits <= edits
    BY <1>0, BuilderAssumption DEF TypeOK
  <2> QED BY <1>1, Frame
<1> QED BY <1>5, <1>6 DEF Inv

LEMMA CreateInv == ASSUME Inv, NEW i \in Instances, CreateTarget(i) PROVE Inv'
<1> DEFINE t == Tracked(i, "IN_PROGRESS")
           row == [value |-> mem[i].value, full |-> None, status |-> "IN_PROGRESS", tracked |-> t]
<1>0. TypeOK /\ InstanceOK(i) /\ pc = "new" /\ i \in batch
  BY DEF Inv, CreateTarget, Handle
<1>1. mem[i] \in Row /\ mem[i] # None /\ shown[i] = None /\ mem[i].value <= edits
  BY <1>0 DEF InstanceOK, BatchOK, Known
<1>2. /\ batch' = batch \ {i} /\ Save(i, "IN_PROGRESS")
      /\ missed' = IF inst[i] # mem[i] THEN missed \cup {i} ELSE missed
      /\ UNCHANGED <<pc, mem, seen, actual, ready, reportsLeft, edits, shown, faultsLeft>>
  BY DEF CreateTarget, Handle, Miss, agentVars, readVars
<1>3. target' = [target EXCEPT ![i] = row]
  BY DEF CreateTarget
<1>4. row \in TargetRow
  <2>1. t \in BOOLEAN
    BY DEF Tracked
  <2> QED BY <1>1, <2>1 DEF TargetRow, Row, OrNone, Statuses
<1>5. /\ inst' \in [Instances -> OrNone(Row)]
      /\ undo' \in [Instances -> OrNone(Row)]
      /\ \A j \in Instances : j # i => inst'[j] = inst[j] /\ undo'[j] = undo[j]
      /\ Committed(i)' = Committed(i)
      /\ inst'[i] # None => /\ inst[i] # None
                            /\ inst'[i].value \in {mem[i].value, inst[i].value}
  BY <1>0, <1>1, <1>2, SaveRow DEF Statuses, TypeOK
<1>6. target' \in [Instances -> OrNone(TargetRow)] /\ target'[i].value = mem[i].value
  BY <1>0, <1>3, <1>4 DEF TypeOK, OrNone
<1>7. TypeOK'
  BY <1>0, <1>2, <1>5, <1>6 DEF TypeOK
<1>8. inst'[i] # None => inst'[i].value <= edits /\ mem[i].value <= inst'[i].value
  <2> mem[i].value \in Nat
    BY <1>1 DEF Row, Values
  <2> QED BY <1>0, <1>1, <1>5 DEF InstanceOK, Known, ForwardOK
<1>9. i \notin missed' /\ inst'[i] # None => mem[i].value = inst'[i].value
  BY <1>2, <1>5
<1>10. \A j \in Instances : j # i => target'[j] = target[j]
  BY <1>0, <1>3 DEF TypeOK
<1> QED BY <1>1, <1>2, <1>5, <1>6, <1>7, <1>8, <1>9, <1>10, Handled

LEMMA DeleteInv == ASSUME Inv, NEW i \in Instances, DeleteTarget(i) PROVE Inv'
<1>0. TypeOK /\ InstanceOK(i) /\ pc = "deleted"
  BY DEF Inv, DeleteTarget, Handle
<1>1. /\ batch' = batch \ {i} /\ target' = [target EXCEPT ![i] = None]
      /\ UNCHANGED <<pc, mem, seen, actual, ready, reportsLeft, edits, shown,
                     inst, undo, missed, faultsLeft>>
  BY DEF DeleteTarget, Handle, agentVars, readVars
<1>2. target' \in [Instances -> OrNone(TargetRow)] /\ target'[i] = None
  BY <1>0, <1>1 DEF TypeOK, OrNone
<1>3. TypeOK'
  BY <1>0, <1>1, <1>2 DEF TypeOK
<1>4. Committed(i)' = Committed(i)
  BY <1>1 DEF Committed
<1>5. \A j \in Instances : j # i => target'[j] = target[j]
  BY <1>0, <1>1 DEF TypeOK
<1> QED BY <1>0, <1>1, <1>2, <1>3, <1>4, <1>5, Handled DEF InstanceOK, Known

LEMMA UpdateInv == ASSUME Inv, NEW i \in Instances, UpdateTarget(i) PROVE Inv'
<1> DEFINE row == [value |-> mem[i].value, full |-> target[i].full, status |-> mem[i].status,
                   tracked |-> inst[i] = mem[i]]
<1>0. TypeOK /\ InstanceOK(i) /\ pc = "updated" /\ i \in batch
  BY DEF Inv, UpdateTarget, Handle
<1>1. mem[i] \in Row /\ mem[i] # None /\ target[i] \in TargetRow
  BY <1>0 DEF InstanceOK, BatchOK
<1>2. /\ batch' = batch \ {i}
      /\ UNCHANGED <<pc, mem, seen, actual, ready, reportsLeft, edits, shown,
                     inst, undo, missed, faultsLeft>>
  BY DEF UpdateTarget, Handle, agentVars, readVars
<1>3. target' = [target EXCEPT ![i] = row]
  BY <1>0 DEF UpdateTarget, Tracked, TypeOK
<1>4. row \in TargetRow
  BY <1>1 DEF TargetRow, Row
<1>5. target' \in [Instances -> OrNone(TargetRow)] /\ target'[i] = row
  BY <1>0, <1>3, <1>4 DEF TypeOK, OrNone
<1>6. TypeOK'
  BY <1>0, <1>2, <1>5 DEF TypeOK
<1>7. Committed(i)' = Committed(i)
  BY <1>2 DEF Committed
<1>8. mem[i].value <= edits /\ (inst[i] # None => mem[i].value <= inst[i].value)
  BY <1>0, <1>1 DEF InstanceOK, Known, ForwardOK
<1>9. shown[i] # None => shown[i].value <= mem[i].value
  <2>1. target[i] # None
    BY <1>0 DEF UpdateTarget, InstanceOK, BatchOK
  <2>2. shown[i] # None => shown[i].value \in Nat
    BY <1>0 DEF TypeOK, OrNone, TargetRow, Values
  <2>3. mem[i].value \in Nat /\ target[i].value \in Nat
    BY <1>1 DEF Row, TargetRow, Values
  <2> QED BY <1>0, <2>1, <2>2, <2>3 DEF InstanceOK, ForwardOK
<1>10. \A j \in Instances : j # i => target'[j] = target[j]
  BY <1>0, <1>3 DEF TypeOK
<1>11. inst[i] # None => inst[i].value <= edits
  BY <1>0 DEF InstanceOK, Known
<1>12. target'[i].value = mem[i].value /\ (target'[i].tracked => inst[i] = mem[i])
  <2>1. row.value = mem[i].value
    BY Zenon
  <2>2. row.tracked => inst[i] = mem[i]
    BY Zenon
  <2> HIDE DEF row
  <2> QED BY <1>5, <2>1, <2>2
<1> HIDE DEF row
<1> QED BY <1>2, <1>12, <1>6, <1>7, <1>8, <1>9, <1>10, <1>11, Handled

LEMMA ActualizeInv == ASSUME Inv, NEW i \in Instances, Actualize(i) PROVE Inv'
<1>0. TypeOK /\ InstanceOK(i) /\ pc = "outdated" /\ i \in batch
  BY DEF Inv, Actualize, Handle
<1>1. mem[i] \in Row /\ mem[i] # None /\ target[i] \in TargetRow /\ target[i] # None
      /\ seen[i] \in Row
  BY <1>0 DEF InstanceOK, BatchOK
<1>2. PICK s \in {mem[i].status, seen[i].status} :
        /\ Save(i, s)
        /\ target' = [target EXCEPT ![i] =
                        [value |-> @.value, full |-> seen[i],
                         status |-> seen[i].status, tracked |-> Tracked(i, s)]]
  BY DEF Actualize
<1> DEFINE row == [value |-> target[i].value, full |-> seen[i], status |-> seen[i].status,
                   tracked |-> Tracked(i, s)]
<1>3. s \in Statuses /\ Tracked(i, s) \in BOOLEAN
  BY <1>1 DEF Row, Tracked
<1>4. /\ batch' = batch \ {i}
      /\ missed' = IF inst[i] # mem[i] \/ mem[i].value # target[i].value
                   THEN missed \cup {i} ELSE missed
      /\ UNCHANGED <<pc, mem, seen, actual, ready, reportsLeft, edits, shown, faultsLeft>>
  BY DEF Actualize, Handle, Miss, agentVars, readVars
<1>5. target' = [target EXCEPT ![i] = row]
  BY <1>0, <1>2 DEF TypeOK
<1>6. row \in TargetRow
  BY <1>1, <1>3 DEF TargetRow, Row, OrNone
<1>7. target' \in [Instances -> OrNone(TargetRow)] /\ target'[i] = row
  BY <1>0, <1>5, <1>6 DEF TypeOK, OrNone
<1>8. /\ inst' \in [Instances -> OrNone(Row)]
      /\ undo' \in [Instances -> OrNone(Row)]
      /\ \A j \in Instances : j # i => inst'[j] = inst[j] /\ undo'[j] = undo[j]
      /\ Committed(i)' = Committed(i)
      /\ inst'[i] # None => /\ inst[i] # None
                            /\ inst'[i].value \in {mem[i].value, inst[i].value}
  BY <1>0, <1>1, <1>2, <1>3, SaveRow DEF TypeOK
<1>9. TypeOK'
  BY <1>0, <1>4, <1>7, <1>8 DEF TypeOK
<1>10. target[i].value <= edits /\ (shown[i] # None => shown[i].value <= target[i].value)
  BY <1>0, <1>1 DEF InstanceOK, Known, ForwardOK
<1>11. inst'[i] # None => inst'[i].value <= edits /\ target[i].value <= inst'[i].value
  BY <1>0, <1>1, <1>8 DEF InstanceOK, Known, ForwardOK
<1>12. i \notin missed' /\ inst'[i] # None => target[i].value = inst'[i].value
  BY <1>4, <1>8
<1>13. \A j \in Instances : j # i => target'[j] = target[j]
  BY <1>0, <1>5 DEF TypeOK
<1> QED BY <1>4, <1>7, <1>8, <1>9, <1>10, <1>11, <1>12, <1>13, Handled

\* An instance that is left alone, whatever the reason.
LEMMA SkipInv ==
    ASSUME Inv, NEW i \in Instances,
           CreateNotFound(i) \/ ActualizeNotFound(i) \/ Hold(i) \/ Raise(i)
    PROVE  Inv'
<1>0. TypeOK
  BY DEF Inv
<1>1. /\ batch' = batch \ {i}
      /\ UNCHANGED <<pc, mem, seen, actual, ready, reportsLeft, edits, shown, inst, undo,
                     target, missed>>
  BY DEF CreateNotFound, ActualizeNotFound, Hold, Raise, Handle, agentVars, readVars
<1>3. faultsLeft' \in 0..MaxFaults
  BY <1>0, BuilderAssumption
     DEF CreateNotFound, ActualizeNotFound, Hold, Raise, TypeOK
<1>4. TypeOK'
  BY <1>0, <1>1, <1>3 DEF TypeOK
<1>5. ASSUME NEW j \in Instances PROVE InstanceOK(j)'
  <2> edits \in Nat /\ edits <= edits
    BY <1>0, BuilderAssumption DEF TypeOK
  <2> QED BY <1>1, Frame
<1> QED BY <1>4, <1>5 DEF Inv

LEMMA CommitInv == ASSUME Inv, Commit PROVE Inv'
<1>0. TypeOK
  BY DEF Inv
<1>1. /\ pc' = "idle" /\ batch' = {} /\ shown' = target
      /\ undo' = [i \in Instances |-> None]
      /\ mem' = [i \in Instances |-> None] /\ seen' = [i \in Instances |-> None]
      /\ UNCHANGED <<actual, ready, reportsLeft, edits, inst, target, missed, faultsLeft>>
  BY DEF Commit, EndTransaction, agentVars
<1>2. TypeOK'
  BY <1>0, <1>1 DEF TypeOK, OrNone
<1>3. ASSUME NEW j \in Instances PROVE InstanceOK(j)'
  <2>0. InstanceOK(j)
    BY DEF Inv
  <2>1. Committed(j)' = inst[j]
    BY <1>1 DEF Committed
  <2>2. BatchOK(j)' /\ Known(j)'
    BY <1>1, <2>0, <2>1 DEF BatchOK, Known, InstanceOK
  <2>3. TrackedOK(j)'
    BY <1>1, <2>0, <2>1 DEF TrackedOK, InstanceOK
  <2>4. target[j] # None => target[j].value <= target[j].value
    BY <1>0 DEF TypeOK, OrNone, TargetRow, Values
  <2>5. ForwardOK(j)'
    BY <1>1, <2>0, <2>1, <2>4 DEF ForwardOK, InstanceOK
  <2> QED BY <2>2, <2>3, <2>5 DEF InstanceOK
<1> QED BY <1>2, <1>3 DEF Inv

LEMMA RollbackInv == ASSUME Inv, Rollback PROVE Inv'
<1>0. TypeOK
  BY DEF Inv
<1>1. /\ pc' = "idle" /\ batch' = {} /\ target' = shown
      /\ undo' = [i \in Instances |-> None]
      /\ mem' = [i \in Instances |-> None] /\ seen' = [i \in Instances |-> None]
      /\ inst' = [i \in Instances |-> Committed(i)]
      /\ UNCHANGED <<actual, ready, reportsLeft, edits, shown, missed>>
  BY DEF Rollback, EndTransaction, Committed, agentVars
<1>2. \A j \in Instances : Committed(j) \in OrNone(Row)
  BY <1>0 DEF Committed, TypeOK
<1>3. faultsLeft' \in 0..MaxFaults
  BY <1>0, BuilderAssumption DEF Rollback, TypeOK
<1>4. TypeOK'
  BY <1>0, <1>1, <1>2, <1>3 DEF TypeOK, OrNone
<1>5. ASSUME NEW j \in Instances PROVE InstanceOK(j)'
  <2>0. InstanceOK(j)
    BY DEF Inv
  <2>1. Committed(j)' = Committed(j) /\ inst'[j] = Committed(j)
    BY <1>1 DEF Committed
  <2>2. Committed(j) # None => Committed(j).value <= edits
    BY <2>0 DEF InstanceOK, Known, Committed
  <2>3. BatchOK(j)' /\ Known(j)'
    BY <1>1, <2>0, <2>1, <2>2 DEF BatchOK, Known, InstanceOK
  <2>4. TrackedOK(j)'
    BY <1>1, <2>0, <2>1 DEF TrackedOK, InstanceOK
  <2>5. shown[j] # None => shown[j].value <= shown[j].value
    BY <1>0 DEF TypeOK, OrNone, TargetRow, Values
  <2>6. ForwardOK(j)'
    BY <1>1, <2>0, <2>1, <2>5 DEF ForwardOK, InstanceOK
  <2> QED BY <2>3, <2>4, <2>6 DEF InstanceOK
<1> QED BY <1>4, <1>5 DEF Inv

LEMMA FetchInv ==
    ASSUME Inv, FetchNew \/ FetchDeleted \/ FetchUpdated \/ FetchOutdated
    PROVE  Inv'
<1>1. CASE FetchNew
  <2>1. pc = "idle" /\ target = shown
    BY <1>1 DEF FetchNew, Fetch, Inv, TypeOK
  <2> QED BY <1>1, <2>1, Fetched DEF FetchNew, Vectors
<1>2. CASE FetchDeleted
  BY <1>2, Fetched DEF FetchDeleted, Vectors
<1>3. CASE FetchUpdated
  BY <1>3, Fetched DEF FetchUpdated, Vectors
<1>4. CASE FetchOutdated
  BY <1>4, Fetched DEF FetchOutdated, Outdated, Vectors
<1> QED BY <1>1, <1>2, <1>3, <1>4

LEMMA NextInv == ASSUME Inv, [Next]_vars PROVE Inv'
<1>1. CASE FetchNew \/ FetchDeleted \/ FetchUpdated \/ FetchOutdated
  BY <1>1, FetchInv
<1>2. CASE Commit
  BY <1>2, CommitInv
<1>3. CASE Rollback
  BY <1>3, RollbackInv
<1>4. ASSUME NEW i \in Instances, BuilderStep(i) PROVE Inv'
  BY <1>4, CreateInv, DeleteInv, UpdateInv, ActualizeInv, SkipInv DEF BuilderStep
<1>5. ASSUME NEW i \in Instances, Edit(i) \/ Remove(i) \/ Report(i) \/ ChangeReadiness(i)
      PROVE  Inv'
  BY <1>5, EditInv, RemoveInv, AgentInv
<1>6. CASE UNCHANGED vars
  <2>0. UNCHANGED <<inst, edits, target, shown, undo, actual, ready, reportsLeft,
                    pc, mem, seen, batch, missed, faultsLeft>>
    BY <1>6 DEF vars, userVars, dbVars, agentVars, readVars
  <2>1. TypeOK'
    BY <2>0 DEF Inv, TypeOK
  <2>2. ASSUME NEW j \in Instances PROVE InstanceOK(j)'
    <3> edits \in Nat /\ edits <= edits
      BY BuilderAssumption DEF Inv, TypeOK
    <3> QED BY <2>0, Frame
  <2> QED BY <2>1, <2>2 DEF Inv
<1> QED BY <1>1, <1>2, <1>3, <1>4, <1>5, <1>6 DEF Next, Builder, World

THEOREM Invariance == Spec => []Inv
<1>1. Init => Inv
  BY InitInv
<1>2. Inv /\ [Next]_vars => Inv'
  BY NextInv
<1> QED BY <1>1, <1>2, PTL DEF Spec

-----------------------------------------------------------------------------
(* Results *)

\* Every variable keeps its type; between iterations nothing is left over.
THEOREM BuilderTypeCorrect == Spec => []TypeOK
<1>1. Inv => TypeOK
  BY DEF Inv
<1> QED BY <1>1, Invariance, PTL

\* An edit is built or still found as updated, whatever users, agents, hooks
\* and failing transactions do in between.
THEOREM NoEditPassedOver == Spec => []TrackedIsBuilt
<1>1. Inv => TrackedIsBuilt
  BY DEF Inv, InstanceOK, TrackedOK, TrackedIsBuilt
<1> QED BY <1>1, Invariance, PTL

\* What agents see of an instance never goes back to an earlier edit.
THEOREM NoEditUndone == Spec => BuildsForward
<1> DEFINE Forward == \A i \in Instances : shown[i] # None /\ shown'[i] # None
                                           => shown[i].value <= shown'[i].value
<1>1. ASSUME Inv, [Next]_vars PROVE [Forward]_vars
  <2> SUFFICES ASSUME ~UNCHANGED vars, NEW i \in Instances,
                      shown[i] # None, shown'[i] # None
               PROVE  shown[i].value <= shown'[i].value
    BY DEF Forward
  <2>0. TypeOK /\ InstanceOK(i)
    BY <1>1 DEF Inv
  <2>1. shown[i].value \in Nat
    BY <2>0 DEF TypeOK, OrNone, TargetRow, Values
  <2>2. CASE shown' = shown
    BY <2>1, <2>2
  <2>3. CASE Commit
    BY <2>0, <2>3 DEF Commit, InstanceOK, ForwardOK
  <2>4. ASSUME NEW k \in Instances, Edit(k) \/ Remove(k)
        PROVE  shown[i].value <= shown'[i].value
    <3>1. shown' = Untracked(shown, k)
      BY <2>4 DEF Edit, Remove
    <3>2. shown \in [Instances -> OrNone(TargetRow)]
      BY <2>0 DEF TypeOK
    <3>3. Untracked(shown, k)[i].value = shown[i].value
      BY <3>2, UntrackedRows
    <3> QED BY <2>1, <3>1, <3>3
  <2>5. ASSUME FetchNew \/ FetchDeleted \/ FetchUpdated \/ FetchOutdated \/ Rollback
        PROVE  shown' = shown
    BY <2>5 DEF FetchNew, FetchDeleted, FetchUpdated, FetchOutdated, Fetch, Rollback, dbVars
  <2>6. ASSUME NEW k \in Instances, BuilderStep(k) \/ Report(k) \/ ChangeReadiness(k)
        PROVE  shown' = shown
    BY <2>6 DEF BuilderStep, CreateTarget, CreateNotFound, DeleteTarget, UpdateTarget,
                Actualize, ActualizeNotFound, Hold, Raise, Handle, Report, ChangeReadiness, dbVars
  <2> QED BY <1>1, <2>2, <2>3, <2>4, <2>5, <2>6 DEF Next, Builder, World
<1> QED BY <1>1, Invariance, PTL DEF Spec, BuildsForward, Forward

-----------------------------------------------------------------------------
(* Derivatives and their master *)

Present(parts) == {p \in Parts : parts[p] # None}

\* An instance row, its target row, its parts and the master hash committed
\* with them fit together.  The row may have a later edit than the target, and
\* parts may be ahead of the target, but only if tracked is not set or the
\* edit was missed.
Version(j, row, tgt, parts, bld, skip, e, m) ==
    /\ tgt = None => parts = NoParts
    /\ row # None => row.value <= e
    /\ tgt # None => tgt.value <= e /\ (row # None => tgt.value <= row.value)
    /\ \A p \in Parts : parts[p] # None =>
         /\ tgt.value <= parts[p].value /\ parts[p].value <= e
         /\ row # None => parts[p].value <= row.value
    /\ tgt # None /\ tgt.tracked /\ j \notin skip => row # None /\ tgt.value = row.value
    /\ bld <= m
    /\ tgt # None /\ row # None /\ tgt.value = row.value /\ j \notin skip /\ bld = m
         => Present(parts) = Wanted(tgt.value, m)

\* Both versions of an instance: that of the transaction, and the committed one.
FamilyOK(j) ==
    /\ Version(j, inst[j], target[j], part[j], built[j], missed, edits, master)
    /\ Version(j, Committed(j), shown[j], shownPart[j], shownBuilt[j], missed, edits, master)

\* What a row in a batch was read with is not ahead of the instance, nor
\* behind its target and its parts, and the outdated parts are still there.
ReadOK(j) ==
    j \in batch =>
      /\ pc \in {"updated", "outdated", "master"} => target[j] # None
      /\ pc \in {"new", "updated", "outdated"} =>
           /\ mem[j] # None /\ mem[j].value <= edits
           /\ inst[j] # None => mem[j].value <= inst[j].value
      /\ pc \in {"updated", "outdated"} => target[j].value <= mem[j].value
      /\ pc = "outdated" =>
           /\ \A p \in Parts : part[j][p] # None => part[j][p].value <= mem[j].value
           /\ \A p \in changed[j] : part[j][p] # None /\ seenReport[j][p] # None

DInv == /\ DTypeOK /\ edits \in 0..MaxEdits /\ seenMaster <= master
        /\ \A j \in Instances : FamilyOK(j) /\ ReadOK(j)

-----------------------------------------------------------------------------
(* Lemmas about versions and parts *)

\* A version stays one when edits and changes of the master go on.
LEMMA VersionLater ==
    ASSUME NEW j, NEW row \in OrNone(Row), NEW tgt \in OrNone(TargetRow),
           NEW parts \in [Parts -> OrNone(PartRow)], NEW bld \in Nat,
           NEW skip, NEW skip2, j \in skip => j \in skip2,
           NEW e \in Nat, NEW e2 \in Nat, e <= e2,
           NEW m \in Nat, NEW m2 \in Nat, m <= m2,
           Version(j, row, tgt, parts, bld, skip, e, m)
    PROVE  Version(j, row, tgt, parts, bld, skip2, e2, m2)
<1>1. /\ row # None => row.value \in Nat
      /\ tgt # None => tgt.value \in Nat
      /\ \A p \in Parts : parts[p] # None => parts[p].value \in Nat
  BY DEF OrNone, Row, TargetRow, PartRow, Values
<1>2. bld = m2 => m2 = m
  BY DEF Version
<1> QED BY <1>1, <1>2 DEF Version

\* An edit, or the removal of the instance, leaves a target row that does not
\* track it and parts that are not ahead of it.
LEMMA VersionEdited ==
    ASSUME NEW j, NEW row \in OrNone(Row), NEW tgt \in OrNone(TargetRow),
           NEW parts \in [Parts -> OrNone(PartRow)], NEW bld \in Nat,
           NEW skip, NEW skip2, NEW e \in Nat, NEW m \in Nat,
           Version(j, row, tgt, parts, bld, skip, e, m),
           NEW row2 \in OrNone(Row), row2 # None => row2.value = e + 1,
           NEW tgt2 \in OrNone(TargetRow),
           tgt = None => tgt2 = None,
           tgt # None => tgt2 # None /\ tgt2.value = tgt.value /\ tgt2.tracked = FALSE
    PROVE  Version(j, row2, tgt2, parts, bld, skip2, e + 1, m)
<1>1. /\ tgt # None => tgt.value \in Nat /\ tgt.value <= e
      /\ \A p \in Parts : parts[p] # None => parts[p].value \in Nat /\ parts[p].value <= e
  BY DEF Version, OrNone, TargetRow, PartRow, Values
<1>2. \A p \in Parts : parts[p] # None => tgt # None
  BY DEF Version, NoParts
<1> QED BY <1>1, <1>2 DEF Version

\* What a build leaves are the parts it wants, with the value it builds.
LEMMA RebuildParts ==
    ASSUME NEW parts \in [Parts -> OrNone(PartRow)], NEW v \in Values,
           NEW wanted \in SUBSET Parts
    PROVE  /\ Rebuild(parts, v, wanted) \in [Parts -> OrNone(PartRow)]
           /\ Present(Rebuild(parts, v, wanted)) = wanted
           /\ \A p \in Parts : Rebuild(parts, v, wanted)[p] # None
                               => Rebuild(parts, v, wanted)[p].value = v
<1> DEFINE new == Rebuild(parts, v, wanted)
<1>1. ASSUME NEW p \in Parts
      PROVE  /\ p \notin wanted => new[p] = None
             /\ p \in wanted => new[p] \in PartRow /\ new[p].value = v
  <2>1. CASE p \notin wanted
    BY <2>1 DEF Rebuild
  <2>2. CASE p \in wanted /\ parts[p] = None
    <3>1. new[p] = [value |-> v, full |-> None, status |-> "NEW"]
      BY <2>2 DEF Rebuild, NewPart
    <3> QED BY <2>2, <3>1 DEF PartRow, OrNone, Statuses
  <2>3. CASE p \in wanted /\ parts[p] # None
    <3>1. parts[p] \in PartRow
      BY <2>3 DEF OrNone
    <3>2. new[p] = IF parts[p].value = v THEN parts[p]
                   ELSE [parts[p] EXCEPT !.value = v, !.status = "NEW"]
      BY <2>3 DEF Rebuild
    <3> HIDE DEF new
    <3> QED BY <2>3, <3>1, <3>2 DEF PartRow, Statuses
  <2> QED BY <2>1, <2>2, <2>3
<1>2. new = [p \in Parts |-> new[p]]
  BY DEF Rebuild
<1>3. Rebuild(parts, v, wanted) = new
  OBVIOUS
<1> HIDE DEF new
<1>4. \A p \in Parts : new[p] # None <=> p \in wanted
  BY <1>1, DerivativesAssumption
<1> QED BY <1>1, <1>2, <1>3, <1>4 DEF Present, OrNone

\* A report that is taken over changes neither the value of a part nor which
\* parts there are.
LEMMA TakenParts ==
    ASSUME NEW i \in Instances,
           part[i] \in [Parts -> OrNone(PartRow)],
           seenReport[i] \in [Parts -> OrNone(Row)],
           \A p \in changed[i] : part[i][p] # None /\ seenReport[i][p] # None
    PROVE  /\ Taken(i) \in [Parts -> OrNone(PartRow)]
           /\ \A p \in Parts : /\ part[i][p] = None => Taken(i)[p] = None
                               /\ part[i][p] # None => /\ Taken(i)[p] # None
                                                       /\ Taken(i)[p].value = part[i][p].value
<1>1. ASSUME NEW p \in Parts
      PROVE  /\ part[i][p] = None => Taken(i)[p] = None
             /\ part[i][p] # None => /\ Taken(i)[p] \in PartRow
                                     /\ Taken(i)[p].value = part[i][p].value
  <2>1. CASE p \notin changed[i]
    BY <2>1 DEF Taken, OrNone
  <2>2. CASE p \in changed[i]
    <3>1. part[i][p] \in PartRow /\ seenReport[i][p] \in Row /\ part[i][p] # None
      BY <2>2 DEF OrNone
    <3>2. Taken(i)[p] = HashStatus(part[i][p], seenReport[i][p])
      BY <2>2 DEF Taken
    <3>3. Taken(i)[p] \in PartRow /\ Taken(i)[p].value = part[i][p].value
      BY <3>1, <3>2 DEF HashStatus, PartRow, OrNone, Row
    <3> QED BY <3>1, <3>3
  <2> QED BY <2>1, <2>2
<1>2. Taken(i) = [p \in Parts |-> Taken(i)[p]]
  BY DEF Taken
<1> QED BY <1>1, <1>2, DerivativesAssumption DEF OrNone

-----------------------------------------------------------------------------
(* Steps that leave an instance alone *)

\* What the type invariant says of one instance and of the counters.
LEMMA Typed ==
    ASSUME DInv
    PROVE  /\ edits \in Nat /\ master \in Nat /\ seenMaster \in Nat
           /\ \A j \in Instances :
                /\ inst[j] \in OrNone(Row) /\ Committed(j) \in OrNone(Row)
                /\ mem[j] \in OrNone(Row)
                /\ target[j] \in OrNone(TargetRow) /\ shown[j] \in OrNone(TargetRow)
                /\ part[j] \in [Parts -> OrNone(PartRow)]
                /\ shownPart[j] \in [Parts -> OrNone(PartRow)]
                /\ built[j] \in Nat /\ shownBuilt[j] \in Nat
                /\ report[j] \in [Parts -> OrNone(Row)]
                /\ seenReport[j] \in [Parts -> OrNone(Row)]
<1>1. DTypeOK /\ edits \in 0..MaxEdits /\ MaxEdits \in Nat /\ MaxMaster \in Nat
  BY BuilderAssumption, DerivativesAssumption DEF DInv
<1>2. edits \in Nat /\ master \in Nat /\ seenMaster \in Nat
  BY <1>1 DEF DTypeOK, Masters
<1>3. ASSUME NEW j \in Instances
      PROVE  /\ inst[j] \in OrNone(Row) /\ Committed(j) \in OrNone(Row)
             /\ mem[j] \in OrNone(Row)
             /\ target[j] \in OrNone(TargetRow) /\ shown[j] \in OrNone(TargetRow)
             /\ part[j] \in [Parts -> OrNone(PartRow)]
             /\ shownPart[j] \in [Parts -> OrNone(PartRow)]
             /\ built[j] \in Nat /\ shownBuilt[j] \in Nat
             /\ report[j] \in [Parts -> OrNone(Row)]
             /\ seenReport[j] \in [Parts -> OrNone(Row)]
  BY <1>1 DEF DTypeOK, Masters, Committed
<1> QED BY <1>2, <1>3

\* The family of an instance is kept by a step that leaves its rows alone,
\* whatever edits of others and changes of the master it makes.
LEMMA FamilyFrame ==
    ASSUME DInv, NEW j \in Instances,
           inst'[j] = inst[j], undo'[j] = undo[j],
           target'[j] = target[j], part'[j] = part[j], built'[j] = built[j],
           shown'[j] = shown[j], shownPart'[j] = shownPart[j], shownBuilt'[j] = shownBuilt[j],
           j \in missed => j \in missed',
           edits' \in Nat, edits <= edits', master' \in Nat, master <= master'
    PROVE  FamilyOK(j)'
<1>1. FamilyOK(j) /\ Committed(j)' = Committed(j)
  BY DEF DInv, Committed
<1>2. /\ Version(j, inst[j], target[j], part[j], built[j], missed, edits, master)
      /\ Version(j, Committed(j), shown[j], shownPart[j], shownBuilt[j], missed, edits, master)
  BY <1>1 DEF FamilyOK
<1>3. Version(j, inst[j], target[j], part[j], built[j], missed', edits', master')
  BY <1>2, Typed, VersionLater
<1>4. Version(j, Committed(j), shown[j], shownPart[j], shownBuilt[j], missed', edits', master')
  BY <1>2, Typed, VersionLater
<1> QED BY <1>1, <1>3, <1>4 DEF FamilyOK

\* So is what is known of the rows a vector read.
LEMMA ReadFrame ==
    ASSUME DInv, NEW j \in Instances,
           inst'[j] = inst[j], target'[j] = target[j], part'[j] = part[j],
           mem'[j] = mem[j], pc' = pc, j \in batch' => j \in batch,
           changed'[j] = changed[j], seenReport'[j] = seenReport[j],
           edits' \in Nat, edits <= edits'
    PROVE  ReadOK(j)'
<1>1. ReadOK(j)
  BY DEF DInv
<1>2. mem[j] # None => mem[j].value \in Nat
  BY Typed DEF OrNone, Row, Values
<1> QED BY <1>1, <1>2, Typed DEF ReadOK

\* What is left to show when instance i was handled.
LEMMA DHandled ==
    ASSUME DInv, DTypeOK', NEW i \in Instances,
           batch' = batch \ {i},
           UNCHANGED <<pc, mem, edits, shown, shownPart, shownBuilt,
                       changed, seenReport, seenMaster, master>>,
           missed \subseteq missed',
           \A j \in Instances : j # i =>
              /\ inst'[j] = inst[j] /\ undo'[j] = undo[j] /\ target'[j] = target[j]
              /\ part'[j] = part[j] /\ built'[j] = built[j],
           Committed(i)' = Committed(i),
           Version(i, inst'[i], target'[i], part'[i], built'[i], missed', edits, master)
    PROVE  DInv'
<1>0. edits \in Nat /\ edits <= edits /\ master \in Nat /\ master <= master
  BY Typed
<1>1. ASSUME NEW j \in Instances, j # i PROVE FamilyOK(j)' /\ ReadOK(j)'
  BY <1>0, <1>1, FamilyFrame, ReadFrame
<1>2. FamilyOK(i)'
  <2>1. Version(i, Committed(i), shown[i], shownPart[i], shownBuilt[i], missed, edits, master)
    BY DEF DInv, FamilyOK
  <2>2. Version(i, Committed(i), shown[i], shownPart[i], shownBuilt[i], missed', edits, master)
    BY <1>0, <2>1, Typed, VersionLater
  <2> QED BY <2>2 DEF FamilyOK
<1>3. ReadOK(i)'
  BY DEF ReadOK
<1> QED BY <1>1, <1>2, <1>3 DEF DInv

-----------------------------------------------------------------------------
(* Users, agents and the master *)

LEMMA DInitInv == DInit => DInv
<1> SUFFICES ASSUME DInit PROVE DInv
  OBVIOUS
<1> USE DEF DInit, Init
<1>1. \A i \in Instances : NoReports[i] = NoParts
  BY DEF NoReports
<1>2. DTypeOK
  <2>1. NoReports \in [Instances -> [Parts -> OrNone(PartRow)]]
        /\ NoReports \in [Instances -> [Parts -> OrNone(Row)]]
    BY DEF NoReports, NoParts, OrNone
  <2>2. 0 \in Masters /\ NoChange \in [Instances -> SUBSET Parts]
    BY DerivativesAssumption DEF Masters, NoChange
  <2>3. [i \in Instances |-> None] \in [Instances -> OrNone(Row)]
        /\ [i \in Instances |-> None] \in [Instances -> OrNone(TargetRow)]
    BY DEF OrNone
  <2> QED BY <2>1, <2>2, <2>3 DEF DTypeOK
<1>3. edits \in 0..MaxEdits /\ seenMaster <= master
  BY BuilderAssumption
<1>4. \A j \in Instances : FamilyOK(j) /\ ReadOK(j)
  BY <1>1 DEF FamilyOK, Version, Committed, ReadOK, NoParts
<1> QED BY <1>2, <1>3, <1>4 DEF DInv

\* An edit and a removal: the new row, if any, has the next number.
LEMMA RowInv ==
    ASSUME DInv, NEW i \in Instances, NEW row \in OrNone(Row),
           edits < MaxEdits, edits' = edits + 1, row # None => row.value = edits',
           undo[i] = None, inst' = [inst EXCEPT ![i] = row],
           target' = Untracked(target, i), shown' = Untracked(shown, i),
           missed' = missed \ {i},
           UNCHANGED <<undo, ready, pc, mem, batch, part, built, shownPart, shownBuilt,
                       report, master, changed, seenReport, seenMaster>>
    PROVE  DInv'
<1>0. DTypeOK /\ edits \in Nat /\ edits' \in 0..MaxEdits
  BY BuilderAssumption DEF DInv
<1>1. target \in [Instances -> OrNone(TargetRow)] /\ shown \in [Instances -> OrNone(TargetRow)]
  BY <1>0 DEF DTypeOK
<1>2. DTypeOK'
  <2>1. inst' \in [Instances -> OrNone(Row)]
    BY <1>0 DEF DTypeOK
  <2>2. target' \in [Instances -> OrNone(TargetRow)] /\ shown' \in [Instances -> OrNone(TargetRow)]
    BY <1>1, UntrackedRows
  <2>3. target = shown => target' = shown'
    OBVIOUS
  <2> QED BY <1>0, <2>1, <2>2, <2>3 DEF DTypeOK
<1>3. ASSUME NEW j \in Instances, j # i PROVE FamilyOK(j)' /\ ReadOK(j)'
  <2>0. Untracked(target, i)[j] = target[j] /\ Untracked(shown, i)[j] = shown[j]
    BY <1>1, <1>3, UntrackedRows
  <2>1. target'[j] = target[j] /\ shown'[j] = shown[j] /\ inst'[j] = inst[j]
    BY <1>0, <1>3, <2>0 DEF DTypeOK
  <2>2. j \in missed => j \in missed'
    BY <1>3
  <2> QED BY <1>0, <2>1, <2>2, Typed, FamilyFrame, ReadFrame
<1>4. /\ inst'[i] = row /\ Committed(i)' = row
      /\ Committed(i) = inst[i]
  BY <1>0 DEF Committed, DTypeOK
<1>5. /\ target[i] = None => target'[i] = None
      /\ target[i] # None => /\ target'[i] \in TargetRow \ {None}
                             /\ target'[i].value = target[i].value /\ target'[i].tracked = FALSE
      /\ shown[i] = None => shown'[i] = None
      /\ shown[i] # None => /\ shown'[i] \in TargetRow \ {None}
                            /\ shown'[i].value = shown[i].value /\ shown'[i].tracked = FALSE
  BY <1>1, UntrackedRows
<1>6. FamilyOK(i)'
  <2>1. /\ Version(i, inst[i], target[i], part[i], built[i], missed, edits, master)
        /\ Version(i, Committed(i), shown[i], shownPart[i], shownBuilt[i], missed, edits, master)
    BY DEF DInv, FamilyOK
  <2>2. target'[i] \in OrNone(TargetRow) /\ shown'[i] \in OrNone(TargetRow)
    BY <1>5 DEF OrNone
  <2>3. Version(i, row, target'[i], part[i], built[i], missed', edits + 1, master)
    BY <1>5, <2>1, <2>2, Typed, VersionEdited
  <2>4. Version(i, row, shown'[i], shownPart[i], shownBuilt[i], missed', edits + 1, master)
    BY <1>5, <2>1, <2>2, Typed, VersionEdited
  <2> QED BY <1>4, <2>3, <2>4 DEF FamilyOK
<1>7. ReadOK(i)'
  <2>1. ReadOK(i)
    BY DEF DInv
  <2>2. mem[i] # None => mem[i].value \in Nat
    BY Typed DEF OrNone, Row, Values
  <2> QED BY <1>0, <1>4, <1>5, <2>1, <2>2 DEF ReadOK
<1> QED BY <1>0, <1>2, <1>3, <1>6, <1>7, Typed DEF DInv

LEMMA UserInv == ASSUME DInv, NEW i \in Instances, UserStep(i) PROVE DInv'
<1>0. DTypeOK /\ edits \in Nat
  BY BuilderAssumption DEF DInv
<1>1. UNCHANGED <<part, built, shownPart, shownBuilt, report, master,
                  changed, seenReport, seenMaster>>
  BY DEF UserStep, partVars, shownVars, dpVars, pairVars
<1>2. CASE Edit(i)
  <2> DEFINE row == [value  |-> edits',
                     status |-> IF inst[i] = None THEN "NEW" ELSE inst[i].status]
  <2>1. edits' \in Values /\ edits' = edits + 1
    BY <1>0, <1>2, BuilderAssumption DEF Edit, Values
  <2>2. row \in Row /\ row.value = edits'
    BY <2>1, Typed DEF OrNone, Row, Statuses
  <2>3. /\ inst' = [inst EXCEPT ![i] = row] /\ undo[i] = None /\ edits < MaxEdits
        /\ target' = Untracked(target, i) /\ shown' = Untracked(shown, i)
        /\ missed' = missed \ {i} /\ UNCHANGED <<undo, ready, pc, mem, batch>>
    BY <1>2 DEF Edit, agentVars, readVars
  <2>4. row \in OrNone(Row)
    BY <2>2 DEF OrNone
  <2> HIDE DEF row
  <2> QED BY <1>1, <2>1, <2>2, <2>3, <2>4, RowInv
<1>3. CASE Remove(i)
  <2>1. /\ inst' = [inst EXCEPT ![i] = None] /\ undo[i] = None /\ edits < MaxEdits
        /\ edits' = edits + 1
        /\ target' = Untracked(target, i) /\ shown' = Untracked(shown, i)
        /\ missed' = missed \ {i} /\ UNCHANGED <<undo, ready, pc, mem, batch>>
    BY <1>3 DEF Remove, agentVars, readVars
  <2>2. None \in OrNone(Row)
    BY DEF OrNone
  <2> QED BY <1>1, <2>1, <2>2, RowInv
<1>4. CASE ChangeReadiness(i)
  <2>1. /\ ready' = IF i \in ready THEN ready \ {i} ELSE ready \cup {i}
        /\ UNCHANGED <<inst, edits, target, shown, undo, pc, mem, batch, missed>>
    BY <1>4 DEF ChangeReadiness, userVars, dbVars, readVars
  <2>2. DTypeOK'
    BY <1>0, <1>1, <2>1 DEF DTypeOK
  <2>3. \A j \in Instances : FamilyOK(j)' /\ ReadOK(j)'
    BY <1>0, <1>1, <2>1, Typed, FamilyFrame, ReadFrame
  <2> QED BY <1>1, <2>1, <2>2, <2>3 DEF DInv
<1> QED BY <1>2, <1>3, <1>4 DEF UserStep

LEMMA ReportPartInv ==
    ASSUME DInv, NEW i \in Instances, NEW p \in Parts, ReportPart(i, p) PROVE DInv'
<1>0. DTypeOK /\ edits \in Nat
  BY BuilderAssumption DEF DInv
<1>1. UNCHANGED <<inst, edits, target, shown, undo, ready, pc, mem, batch, missed,
                  part, built, shownPart, shownBuilt, master, changed, seenReport, seenMaster>>
  BY DEF ReportPart, userVars, dbVars, readVars, partVars, shownVars, pairVars
<1>2. report' \in [Instances -> [Parts -> OrNone(Row)]]
  <2>0. report \in [Instances -> [Parts -> OrNone(Row)]]
        /\ shownPart \in [Instances -> [Parts -> OrNone(PartRow)]]
    BY <1>0 DEF DTypeOK
  <2>1. CASE shownPart[i][p] = None
    <3>1. report' = [report EXCEPT ![i][p] = None]
      BY <2>1 DEF ReportPart
    <3> QED BY <2>0, <3>1 DEF OrNone
  <2>2. CASE shownPart[i][p] # None
    <3>1. PICK s \in {"IN_PROGRESS", "ACTIVE"}, r \in {shownPart[i][p], report[i][p]} \ {None} :
            report' = [report EXCEPT ![i][p] = [value |-> r.value, status |-> s]]
      BY <2>2 DEF ReportPart
    <3>2. r.value \in Values
      BY <2>0 DEF OrNone, Row, PartRow
    <3>3. [value |-> r.value, status |-> s] \in OrNone(Row)
      BY <3>2 DEF Row, Statuses, OrNone
    <3> QED BY <2>0, <3>1, <3>3
  <2> QED BY <2>1, <2>2
<1>3. DTypeOK'
  BY <1>0, <1>1, <1>2 DEF DTypeOK
<1>4. \A j \in Instances : FamilyOK(j)' /\ ReadOK(j)'
  BY <1>0, <1>1, Typed, FamilyFrame, ReadFrame
<1> QED BY <1>1, <1>3, <1>4 DEF DInv

LEMMA MasterInv == ASSUME DInv, ChangeMaster PROVE DInv'
<1>0. DTypeOK /\ edits \in Nat /\ MaxMaster \in Nat
  BY BuilderAssumption, DerivativesAssumption DEF DInv
<1>1. master' = master + 1 /\ master' \in Masters /\ master \in Nat /\ seenMaster \in Nat
  BY <1>0, Typed DEF ChangeMaster, Masters
<1>2. UNCHANGED <<inst, edits, target, shown, undo, ready, pc, mem, batch, missed,
                  part, built, shownPart, shownBuilt, report, changed, seenReport, seenMaster>>
  BY DEF ChangeMaster, vars, userVars, dbVars, agentVars, readVars, partVars, shownVars, pairVars
<1>3. DTypeOK'
  BY <1>0, <1>1, <1>2 DEF DTypeOK
<1>4. \A j \in Instances : FamilyOK(j)' /\ ReadOK(j)'
  BY <1>0, <1>1, <1>2, FamilyFrame, ReadFrame
<1>5. seenMaster' <= master' /\ edits' \in 0..MaxEdits
  BY <1>1, <1>2 DEF DInv
<1> QED BY <1>3, <1>4, <1>5 DEF DInv

-----------------------------------------------------------------------------
(* What the vectors read *)

\* The vectors of UniversalBuilder; that of updated instances needs the most.
LEMMA FetchVectorInv == ASSUME DInv, FetchVector PROVE DInv'
<1>0. DTypeOK /\ edits \in Nat
  BY BuilderAssumption DEF DInv
<1>1. PICK S \in SUBSET Instances, to \in {"new", "deleted", "updated"} :
        /\ pc' = to /\ batch' \in Limited(S) /\ mem' = inst
        /\ to \in {"new", "updated"} => \A j \in S : inst[j] # None
        /\ to = "updated" => \A j \in S : target[j] # None
        /\ UNCHANGED <<inst, edits, target, shown, undo, ready, missed>>
  <2>1. CASE FetchNew
    BY <2>1 DEF FetchNew, Fetch, userVars, dbVars, agentVars
  <2>2. CASE FetchDeleted
    BY <2>2 DEF FetchDeleted, Fetch, userVars, dbVars, agentVars
  <2>3. CASE FetchUpdated
    BY <2>3 DEF FetchUpdated, Fetch, userVars, dbVars, agentVars
  <2> QED BY <2>1, <2>2, <2>3 DEF FetchVector
<1>2. UNCHANGED <<part, built, shownPart, shownBuilt, report, master,
                  changed, seenReport, seenMaster>>
  BY DEF FetchVector, KeepParts, partVars, shownVars, dpVars, pairVars
<1>3. batch' \subseteq S
  BY <1>1, LimitedSubset
<1>4. DTypeOK'
  BY <1>0, <1>1, <1>2, <1>3 DEF DTypeOK
<1>5. \A j \in Instances : FamilyOK(j)'
  BY <1>0, <1>1, <1>2, Typed, FamilyFrame
<1>6. ASSUME NEW j \in Instances PROVE ReadOK(j)'
  <2>1. Version(j, inst[j], target[j], part[j], built[j], missed, edits, master)
    BY DEF DInv, FamilyOK
  <2>2. inst[j] # None => inst[j].value \in Nat
    BY Typed DEF OrNone, Row, Values
  <2> QED BY <1>1, <1>2, <1>3, <2>1, <2>2 DEF ReadOK, Version
<1> QED BY <1>1, <1>2, <1>4, <1>5, <1>6 DEF DInv

\* The vector of outdated parts.
LEMMA FetchOutdatedInv ==
    ASSUME DInv, FetchOutdatedInstances \/ FetchOutdatedFails PROVE DInv'
<1>0. DTypeOK /\ edits \in Nat
  BY BuilderAssumption DEF DInv
<1>1. PICK pairs \in Limited(OutdatedPairs) :
        /\ FetchOutdatedParts(pairs)
        /\ batch' \subseteq Owners(pairs)
        /\ \A i \in batch' : inst[i] # None
  BY DEF FetchOutdatedInstances, FetchOutdatedFails
<1>2. /\ pc' = "outdated" /\ mem' = inst /\ seenReport' = report
      /\ changed' = [i \in Instances |-> {p \in Parts : <<i, p>> \in pairs}]
      /\ UNCHANGED <<inst, edits, target, shown, undo, ready, missed,
                     part, built, shownPart, shownBuilt, report, master, seenMaster>>
  BY <1>1 DEF FetchOutdatedParts, userVars, dbVars, agentVars, partVars, shownVars, dpVars
<1>3. \A pair \in pairs : /\ pair \in Instances \X Parts
                          /\ part[pair[1]][pair[2]] # None /\ report[pair[1]][pair[2]] # None
  BY <1>1, LimitedSubset DEF OutdatedPairs, OutdatedParts
<1>4. batch' \subseteq Instances
  BY <1>1, <1>3 DEF Owners
<1>5. changed' \in [Instances -> SUBSET Parts]
  BY <1>2
<1>6. DTypeOK'
  BY <1>0, <1>2, <1>4, <1>5 DEF DTypeOK
<1>7. \A j \in Instances : FamilyOK(j)'
  BY <1>0, <1>2, Typed, FamilyFrame
<1>8. ASSUME NEW j \in Instances, j \in batch' PROVE ReadOK(j)'
  <2>1. Version(j, inst[j], target[j], part[j], built[j], missed, edits, master)
    BY DEF DInv, FamilyOK
  <2>2. inst[j] # None /\ inst[j].value \in Nat
    BY <1>1, <1>8, Typed DEF OrNone, Row, Values
  <2>3. PICK pair \in pairs : pair[1] = j
    BY <1>1, <1>8 DEF Owners
  <2>4. part[j] # NoParts
    BY <1>3, <2>3 DEF NoParts
  <2>5. target[j] # None
    BY <2>1, <2>4 DEF Version
  <2>6. \A p \in changed'[j] : part[j][p] # None /\ report[j][p] # None
    <3> SUFFICES ASSUME NEW p \in Parts, <<j, p>> \in pairs
                 PROVE  part[j][p] # None /\ report[j][p] # None
      BY <1>2
    <3> QED BY <1>3
  <2> QED BY <1>2, <2>1, <2>2, <2>5, <2>6 DEF ReadOK, Version
<1>9. \A j \in Instances : ReadOK(j)'
  BY <1>8 DEF ReadOK
<1> QED BY <1>2, <1>6, <1>7, <1>9 DEF DInv

LEMMA FetchMastersInv == ASSUME DInv, FetchOutdatedMasters PROVE DInv'
<1>0. DTypeOK /\ edits \in Nat
  BY BuilderAssumption DEF DInv
<1>1. /\ pc' = "master" /\ seenMaster' = master
      /\ UNCHANGED <<inst, edits, target, shown, undo, ready, missed, mem,
                     part, built, shownPart, shownBuilt, report, master, changed, seenReport>>
  BY DEF FetchOutdatedMasters, userVars, dbVars, agentVars, partVars, shownVars, dpVars
<1>2. \A j \in batch' : j \in Instances /\ target[j] # None
  BY LimitedSubset DEF FetchOutdatedMasters
<1>3. DTypeOK'
  BY <1>0, <1>1, <1>2 DEF DTypeOK
<1>4. \A j \in Instances : FamilyOK(j)' /\ ReadOK(j)'
  BY <1>0, <1>1, <1>2, Typed, FamilyFrame DEF ReadOK
<1>5. seenMaster' <= master'
  BY <1>1, Typed
<1> QED BY <1>1, <1>3, <1>4, <1>5 DEF DInv

-----------------------------------------------------------------------------
(* What the builder does to one instance *)

\* The handling of one instance leaves all types as they are when the rows it
\* writes have theirs.
LEMMA HandledTypes ==
    ASSUME DInv, pc # "idle",
           UNCHANGED <<pc, mem, ready, shown, shownPart, shownBuilt, report, master,
                       changed, seenReport, seenMaster>>,
           batch' \subseteq batch, missed' \subseteq Instances,
           inst' \in [Instances -> OrNone(Row)], undo' \in [Instances -> OrNone(Row)],
           target' \in [Instances -> OrNone(TargetRow)],
           part' \in [Instances -> [Parts -> OrNone(PartRow)]],
           built' \in [Instances -> Masters]
    PROVE  DTypeOK'
<1>1. DTypeOK
  BY DEF DInv
<1> QED BY <1>1 DEF DTypeOK

\* What PaasObjects leaves.
LEMMA PaasParts ==
    ASSUME NEW parts \in [Parts -> OrNone(PartRow)], NEW v \in Values, NEW m \in Masters
    PROVE  /\ PaasObjects(parts, v, m) \in [Parts -> OrNone(PartRow)]
           /\ Present(PaasObjects(parts, v, m)) = Wanted(v, m)
           /\ \A p \in Parts : PaasObjects(parts, v, m)[p] # None
                               => PaasObjects(parts, v, m)[p].value = v
<1>1. Wanted(v, m) \in SUBSET Parts
  BY DerivativesAssumption
<1> QED BY <1>1, RebuildParts DEF PaasObjects

\* What is known of instance i when a vector handles it.
LEMMA HandleFacts ==
    ASSUME DInv, NEW i \in Instances, i \in batch
    PROVE  /\ DTypeOK /\ ReadOK(i) /\ i \notin batch \ {i}
           /\ Version(i, inst[i], target[i], part[i], built[i], missed, edits, master)
           /\ inst[i] # None => inst[i] \in Row /\ inst[i].value \in Nat
           /\ mem[i] # None => mem[i] \in Row /\ mem[i].value \in Nat
           /\ target[i] # None => /\ target[i] \in TargetRow /\ target[i].value \in Values
                                  /\ target[i].value \in Nat
<1>1. DTypeOK /\ ReadOK(i) /\ FamilyOK(i)
  BY DEF DInv
<1>2. /\ inst[i] \in OrNone(Row) /\ mem[i] \in OrNone(Row) /\ target[i] \in OrNone(TargetRow)
  BY Typed
<1> QED BY <1>1, <1>2 DEF FamilyOK, OrNone, Row, TargetRow, Values

\* Save takes no row away.
LEMMA SaveKeeps ==
    ASSUME inst \in [Instances -> OrNone(Row)], NEW i \in Instances, NEW s \in Statuses,
           mem[i] \in Row, inst[i] # None, Save(i, s)
    PROVE  inst'[i] # None
<1>1. CASE s = mem[i].status
  BY <1>1 DEF Save
<1>2. CASE s # mem[i].status
  <2>1. PICK v \in {mem[i].value, inst[i].value} :
          inst' = [inst EXCEPT ![i] = [value |-> v, status |-> s]]
    BY <1>2 DEF Save
  <2>2. inst[i] \in Row
    BY DEF OrNone
  <2>3. [value |-> v, status |-> s] \in Row
    BY <2>1, <2>2 DEF Row
  <2> QED BY <2>1, <2>3, BuilderAssumption
<1> QED BY <1>1, <1>2

LEMMA DCreateInv == ASSUME DInv, NEW i \in Instances, CreateInstance(i) PROVE DInv'
<1> DEFINE new == PaasObjects(NoParts, mem[i].value, master)
<1> DEFINE row == [value |-> mem[i].value, full |-> None, status |-> "IN_PROGRESS",
                   tracked |-> Tracked(i, "IN_PROGRESS")]
<1>1. /\ pc = "new" /\ i \in batch /\ batch' = batch \ {i}
      /\ Save(i, "IN_PROGRESS")
      /\ target' = [target EXCEPT ![i] = row]
      /\ part' = [part EXCEPT ![i] = new] /\ built' = [built EXCEPT ![i] = 0]
      /\ Miss(i, inst[i] # mem[i])
      /\ UNCHANGED <<pc, mem, ready, edits, shown, shownPart, shownBuilt, report, master,
                     changed, seenReport, seenMaster>>
  BY DEF CreateInstance, CreateTarget, Handle, agentVars, readVars, shownVars, dpVars, pairVars
<1>2. /\ DTypeOK /\ mem[i] \in Row /\ mem[i].value \in Nat /\ mem[i].value <= edits
      /\ inst[i] # None => mem[i].value <= inst[i].value /\ inst[i].value \in Nat
                           /\ inst[i].value <= edits
      /\ edits \in Nat /\ master \in Nat /\ master \in Masters /\ mem[i].value \in Values
      /\ i \notin batch'
  <2>1. DTypeOK /\ mem[i] # None
    BY <1>1, HandleFacts DEF ReadOK
  <2> QED BY <1>1, <2>1, HandleFacts, Typed DEF ReadOK, Row, DTypeOK, Version
<1>3. /\ inst' \in [Instances -> OrNone(Row)] /\ undo' \in [Instances -> OrNone(Row)]
      /\ \A j \in Instances : j # i => inst'[j] = inst[j] /\ undo'[j] = undo[j]
      /\ Committed(i)' = Committed(i)
      /\ inst'[i] # None => /\ inst[i] # None
                            /\ inst'[i].value \in {mem[i].value, inst[i].value}
  BY <1>1, <1>2, SaveRow DEF DTypeOK, Statuses
<1>4. /\ new \in [Parts -> OrNone(PartRow)]
      /\ Present(new) = Wanted(mem[i].value, master)
      /\ \A p \in Parts : new[p] # None => new[p].value = mem[i].value
  <2>1. NoParts \in [Parts -> OrNone(PartRow)]
    BY DEF NoParts, OrNone
  <2> QED BY <1>2, <2>1, PaasParts
<1>5. row \in TargetRow /\ row # None /\ row \in OrNone(TargetRow)
      /\ row.value = mem[i].value
  <2>1. Tracked(i, "IN_PROGRESS") \in BOOLEAN
    BY DEF Tracked
  <2>2. row \in TargetRow
    BY <1>2, <2>1 DEF TargetRow, OrNone, Statuses, Row
  <2> QED BY <2>2, BuilderAssumption DEF OrNone
<1>6. missed \subseteq missed' /\ missed' \subseteq Instances
      /\ (i \notin missed' => inst[i] = mem[i])
  BY <1>1, <1>2 DEF Miss, DTypeOK
<1>7. i \notin missed' => inst'[i] # None /\ inst'[i].value = mem[i].value
  <2> SUFFICES ASSUME i \notin missed' PROVE inst'[i] # None /\ inst'[i].value = mem[i].value
    OBVIOUS
  <2>1. inst[i] # None
    BY <1>2, <1>6, BuilderAssumption
  <2>2. inst'[i] # None
    BY <1>1, <1>2, <2>1, SaveKeeps DEF DTypeOK, Statuses
  <2> QED BY <1>3, <1>6, <2>2
<1> HIDE DEF new, row
<1>8. /\ target'[i] = row /\ part'[i] = new /\ built'[i] = 0
      /\ \A j \in Instances : j # i => /\ target'[j] = target[j] /\ part'[j] = part[j]
                                       /\ built'[j] = built[j]
  BY <1>1, <1>2 DEF DTypeOK
<1>9. DTypeOK'
  <2>1. 0 \in Masters
    BY DerivativesAssumption DEF Masters
  <2>2. /\ target' \in [Instances -> OrNone(TargetRow)]
        /\ part' \in [Instances -> [Parts -> OrNone(PartRow)]]
        /\ built' \in [Instances -> Masters]
    BY <1>1, <1>2, <1>4, <1>5, <2>1 DEF DTypeOK
  <2> QED BY <1>1, <1>3, <1>6, <2>2, HandledTypes
<1>10. Version(i, inst'[i], row, new, 0, missed', edits, master)
  <2>1. \A p \in Parts : new[p] # None => new[p].value = mem[i].value
    BY <1>4
  <2>2. inst'[i] # None => inst'[i].value <= edits /\ mem[i].value <= inst'[i].value
    BY <1>2, <1>3
  <2> QED BY <1>2, <1>4, <1>5, <1>7, <2>1, <2>2 DEF Version
<1>11. /\ \A j \in Instances : j # i =>
           /\ inst'[j] = inst[j] /\ undo'[j] = undo[j] /\ target'[j] = target[j]
           /\ part'[j] = part[j] /\ built'[j] = built[j]
      /\ Version(i, inst'[i], target'[i], part'[i], built'[i], missed', edits, master)
      /\ missed \subseteq missed'
  BY <1>3, <1>6, <1>8, <1>10
<1> QED BY <1>1, <1>3, <1>9, <1>11, DHandled

LEMMA DDeleteInv == ASSUME DInv, NEW i \in Instances, DeleteInstance(i) PROVE DInv'
<1>1. /\ pc = "deleted" /\ i \in batch /\ batch' = batch \ {i}
      /\ target' = [target EXCEPT ![i] = None]
      /\ part' = [part EXCEPT ![i] = NoParts]
      /\ UNCHANGED <<inst, undo, missed, built, pc, mem, ready, edits, shown, shownPart,
                     shownBuilt, report, master, changed, seenReport, seenMaster>>
  BY DEF DeleteInstance, DeleteTarget, Handle, agentVars, readVars, shownVars, dpVars, pairVars
<1>2. /\ DTypeOK
      /\ Version(i, inst[i], target[i], part[i], built[i], missed, edits, master)
  BY <1>1, HandleFacts
<1>3. NoParts \in [Parts -> OrNone(PartRow)] /\ None \in OrNone(TargetRow)
  BY DEF NoParts, OrNone
<1>4. /\ target'[i] = None /\ part'[i] = NoParts
      /\ \A j \in Instances : j # i => target'[j] = target[j] /\ part'[j] = part[j]
  BY <1>1, <1>2 DEF DTypeOK
<1>5. DTypeOK'
  <2>1. /\ target' \in [Instances -> OrNone(TargetRow)]
        /\ part' \in [Instances -> [Parts -> OrNone(PartRow)]]
    BY <1>1, <1>2, <1>3 DEF DTypeOK
  <2> QED BY <1>1, <1>2, <2>1, HandledTypes DEF DTypeOK
<1>6. Version(i, inst[i], None, NoParts, built[i], missed, edits, master)
  BY <1>2 DEF Version, NoParts
<1>7. Committed(i)' = Committed(i)
  BY <1>1 DEF Committed
<1>8. /\ \A j \in Instances : j # i =>
           /\ inst'[j] = inst[j] /\ undo'[j] = undo[j] /\ target'[j] = target[j]
           /\ part'[j] = part[j] /\ built'[j] = built[j]
      /\ Version(i, inst'[i], target'[i], part'[i], built'[i], missed', edits, master)
      /\ missed \subseteq missed'
  BY <1>1, <1>4, <1>6
<1> QED BY <1>1, <1>5, <1>7, <1>8, DHandled

LEMMA DUpdateInv == ASSUME DInv, NEW i \in Instances, UpdateInstance(i) PROVE DInv'
<1> DEFINE new == PaasObjects(part[i], mem[i].value, master)
<1> DEFINE row == [value |-> mem[i].value, full |-> target[i].full, status |-> mem[i].status,
                   tracked |-> Tracked(i, mem[i].status)]
<1>0. /\ pc = "updated" /\ i \in batch /\ batch' = batch \ {i}
      /\ UNCHANGED <<inst, undo, missed, built, pc, mem, ready, edits, shown, shownPart,
                     shownBuilt, report, master, changed, seenReport, seenMaster>>
  BY DEF UpdateInstance, UpdateTarget, Handle, agentVars, readVars, shownVars, dpVars, pairVars
<1>2. /\ DTypeOK /\ mem[i] \in Row /\ mem[i].value \in Nat /\ mem[i].value <= edits
      /\ inst[i] # None => mem[i].value <= inst[i].value /\ inst[i].value \in Nat
                           /\ inst[i].value <= edits
      /\ target[i] \in TargetRow /\ part[i] \in [Parts -> OrNone(PartRow)]
      /\ edits \in Nat /\ master \in Nat /\ master \in Masters /\ mem[i].value \in Values
      /\ built[i] \in Nat /\ built[i] <= master
  <2>1. DTypeOK /\ mem[i] # None /\ target[i] # None
    BY <1>0, HandleFacts DEF ReadOK
  <2> QED BY <1>0, <2>1, HandleFacts, Typed DEF ReadOK, Row, DTypeOK, Version
<1>1. target' = [target EXCEPT ![i] = row] /\ part' = [part EXCEPT ![i] = new]
  <2>1. /\ target' = [target EXCEPT ![i] =
                       [value |-> mem[i].value, full |-> @.full, status |-> mem[i].status,
                        tracked |-> Tracked(i, mem[i].status)]]
        /\ part' = [part EXCEPT ![i] = PaasObjects(@, mem[i].value, master)]
    BY DEF UpdateInstance, UpdateTarget
  <2>2. target \in [Instances -> OrNone(TargetRow)]
        /\ part \in [Instances -> [Parts -> OrNone(PartRow)]]
    BY <1>2 DEF DTypeOK
  <2> QED BY <2>1, <2>2
<1>3. /\ new \in [Parts -> OrNone(PartRow)]
      /\ Present(new) = Wanted(mem[i].value, master)
      /\ \A p \in Parts : new[p] # None => new[p].value = mem[i].value
  BY <1>2, PaasParts
<1>4. row \in TargetRow /\ row # None /\ row \in OrNone(TargetRow)
      /\ row.value = mem[i].value /\ row.tracked = (inst[i] = mem[i])
  <2>1. Tracked(i, mem[i].status) = (inst[i] = mem[i])
    BY DEF Tracked
  <2>2. row \in TargetRow
    BY <1>2, <2>1 DEF TargetRow, OrNone, Row
  <2> QED BY <2>1, <2>2, BuilderAssumption DEF OrNone
<1> HIDE DEF new, row
<1>5. /\ target'[i] = row /\ part'[i] = new
      /\ \A j \in Instances : j # i => target'[j] = target[j] /\ part'[j] = part[j]
  BY <1>1, <1>2 DEF DTypeOK
<1>6. DTypeOK'
  <2>1. /\ target' \in [Instances -> OrNone(TargetRow)]
        /\ part' \in [Instances -> [Parts -> OrNone(PartRow)]]
    BY <1>1, <1>2, <1>3, <1>4 DEF DTypeOK
  <2> QED BY <1>0, <1>2, <2>1, HandledTypes DEF DTypeOK
<1>7. Version(i, inst[i], row, new, built[i], missed, edits, master)
  <2>1. row.tracked => inst[i] # None /\ inst[i].value = mem[i].value
    BY <1>2, <1>4, BuilderAssumption
  <2>2. \A p \in Parts : new[p] # None => new[p].value = mem[i].value
    BY <1>3
  <2> QED BY <1>2, <1>3, <1>4, <2>1, <2>2 DEF Version
<1>8. Committed(i)' = Committed(i)
  BY <1>0 DEF Committed
<1>9. /\ \A j \in Instances : j # i =>
           /\ inst'[j] = inst[j] /\ undo'[j] = undo[j] /\ target'[j] = target[j]
           /\ part'[j] = part[j] /\ built'[j] = built[j]
      /\ Version(i, inst'[i], target'[i], part'[i], built'[i], missed', edits, master)
      /\ missed \subseteq missed'
  BY <1>0, <1>5, <1>7
<1> QED BY <1>0, <1>6, <1>8, <1>9, DHandled

\* An instance actualized after reports of its parts: the parts it saves are
\* between the target row and the row it read, and those there were or those
\* wanted.
LEMMA SaveActualizedInv ==
    ASSUME DInv, NEW i \in Instances, NEW new \in [Parts -> OrNone(PartRow)],
           SaveActualized(i, new),
           \A p \in Parts : new[p] # None => /\ target[i].value <= new[p].value
                                             /\ new[p].value <= mem[i].value,
           Present(new) \in {Present(part[i]), Wanted(mem[i].value, master)}
    PROVE  DInv'
<1>0. /\ pc = "outdated" /\ i \in batch /\ batch' = batch \ {i}
      /\ UNCHANGED <<built, pc, mem, ready, edits, shown, shownPart,
                     shownBuilt, report, master, changed, seenReport, seenMaster>>
      /\ part' = [part EXCEPT ![i] = new]
      /\ Miss(i, inst[i] # mem[i] \/ mem[i].value # target[i].value)
  BY DEF SaveActualized, Handle, agentVars, readVars, shownVars, dpVars, pairVars
<1>1. PICK s \in Statuses :
        /\ Save(i, s)
        /\ target' = [target EXCEPT ![i] = [@ EXCEPT !.status = s, !.tracked = Tracked(i, s)]]
  BY DEF SaveActualized
<1>2. /\ DTypeOK /\ mem[i] \in Row /\ mem[i].value \in Nat /\ mem[i].value <= edits
      /\ inst[i] # None => mem[i].value <= inst[i].value /\ inst[i].value \in Nat
                           /\ inst[i].value <= edits
      /\ target[i] \in TargetRow /\ target[i].value \in Nat
      /\ target[i] # None /\ target[i].value <= mem[i].value
      /\ edits \in Nat /\ master \in Nat
      /\ Version(i, inst[i], target[i], part[i], built[i], missed, edits, master)
  <2>1. DTypeOK /\ mem[i] # None /\ target[i] # None
    BY <1>0, HandleFacts DEF ReadOK
  <2> QED BY <1>0, <2>1, HandleFacts, Typed DEF ReadOK, Row, DTypeOK, Version
<1> DEFINE row == [target[i] EXCEPT !.status = s, !.tracked = Tracked(i, s)]
<1>3. /\ inst' \in [Instances -> OrNone(Row)] /\ undo' \in [Instances -> OrNone(Row)]
      /\ \A j \in Instances : j # i => inst'[j] = inst[j] /\ undo'[j] = undo[j]
      /\ Committed(i)' = Committed(i)
      /\ inst'[i] # None => /\ inst[i] # None
                            /\ inst'[i].value \in {mem[i].value, inst[i].value}
  BY <1>1, <1>2, SaveRow DEF DTypeOK
<1>4. target' = [target EXCEPT ![i] = row]
  BY <1>1, <1>2 DEF DTypeOK
<1>5. row \in TargetRow /\ row # None /\ row \in OrNone(TargetRow)
      /\ row.value = target[i].value
  <2>1. Tracked(i, s) \in BOOLEAN
    BY DEF Tracked
  <2>2. row \in TargetRow /\ row.value = target[i].value
    BY <1>2, <2>1 DEF TargetRow
  <2> QED BY <2>2, BuilderAssumption DEF OrNone
<1>6. missed \subseteq missed' /\ missed' \subseteq Instances
      /\ (i \notin missed' => i \notin missed /\ inst[i] = mem[i] /\ mem[i].value = target[i].value)
  BY <1>0, <1>2 DEF Miss, DTypeOK
<1>7. i \notin missed' => inst'[i] # None /\ inst'[i].value = mem[i].value
  <2> SUFFICES ASSUME i \notin missed' PROVE inst'[i] # None /\ inst'[i].value = mem[i].value
    OBVIOUS
  <2>1. inst[i] # None
    BY <1>2, <1>6, BuilderAssumption
  <2>2. inst'[i] # None
    BY <1>1, <1>2, <2>1, SaveKeeps DEF DTypeOK
  <2> QED BY <1>3, <1>6, <2>2
<1> HIDE DEF row
<1>8. /\ target'[i] = row /\ part'[i] = new
      /\ \A j \in Instances : j # i => target'[j] = target[j] /\ part'[j] = part[j]
  BY <1>0, <1>2, <1>4 DEF DTypeOK
<1>9. DTypeOK'
  <2>1. /\ target' \in [Instances -> OrNone(TargetRow)]
        /\ part' \in [Instances -> [Parts -> OrNone(PartRow)]]
        /\ built' \in [Instances -> Masters]
    BY <1>0, <1>2, <1>4, <1>5 DEF DTypeOK
  <2> QED BY <1>0, <1>3, <1>6, <2>1, HandledTypes
<1>10. Version(i, inst'[i], row, new, built[i], missed', edits, master)
  <2>1. inst'[i] # None => inst'[i].value <= edits /\ mem[i].value <= inst'[i].value
                           /\ inst'[i].value \in Nat
    BY <1>2, <1>3
  <2>2. \A p \in Parts : new[p] # None =>
          new[p].value <= edits /\ (inst'[i] # None => new[p].value <= inst'[i].value)
    <3> SUFFICES ASSUME NEW p \in Parts, new[p] # None
                 PROVE  new[p].value <= edits
                        /\ (inst'[i] # None => new[p].value <= inst'[i].value)
      OBVIOUS
    <3>1. new[p].value \in Nat /\ new[p].value <= mem[i].value
      BY DEF OrNone, PartRow, Values
    <3> QED BY <1>2, <2>1, <3>1
  <2>3. i \notin missed' /\ built[i] = master => Present(new) = Wanted(row.value, master)
    <3> SUFFICES ASSUME i \notin missed', built[i] = master
                 PROVE  Present(new) = Wanted(row.value, master)
      OBVIOUS
    <3>1. inst[i] # None /\ inst[i].value = target[i].value
      BY <1>2, <1>6, BuilderAssumption
    <3>2. Present(part[i]) = Wanted(target[i].value, master)
      BY <1>2, <1>6, <3>1 DEF Version
    <3> QED BY <1>5, <1>6, <3>2
  <2>4. inst'[i] # None => row.value <= inst'[i].value
    BY <1>2, <1>5, <2>1
  <2>5. i \notin missed' => inst'[i] # None /\ row.value = inst'[i].value
    BY <1>5, <1>6, <1>7
  <2> QED BY <1>2, <1>5, <2>1, <2>2, <2>3, <2>4, <2>5 DEF Version
<1>11. /\ \A j \in Instances : j # i =>
           /\ inst'[j] = inst[j] /\ undo'[j] = undo[j] /\ target'[j] = target[j]
           /\ part'[j] = part[j] /\ built'[j] = built[j]
      /\ Version(i, inst'[i], target'[i], part'[i], built'[i], missed', edits, master)
      /\ missed \subseteq missed'
  BY <1>0, <1>3, <1>6, <1>8, <1>10
<1> QED BY <1>0, <1>3, <1>9, <1>11, DHandled

\* The parts an actualized instance had when its reports were taken over.
LEMMA TakenFacts ==
    ASSUME DInv, NEW i \in Instances, i \in batch, pc = "outdated"
    PROVE  /\ Taken(i) \in [Parts -> OrNone(PartRow)]
           /\ Present(Taken(i)) = Present(part[i])
           /\ \A p \in Parts : Taken(i)[p] # None => /\ target[i].value <= Taken(i)[p].value
                                                     /\ Taken(i)[p].value <= mem[i].value
           /\ mem[i].value \in Values /\ target[i].value <= mem[i].value
           /\ mem[i].value \in Nat
<1>1. /\ ReadOK(i) /\ DTypeOK /\ mem[i] # None
      /\ Version(i, inst[i], target[i], part[i], built[i], missed, edits, master)
      /\ \A p \in changed[i] : part[i][p] # None /\ seenReport[i][p] # None
  BY HandleFacts DEF ReadOK
<1>2. /\ part[i] \in [Parts -> OrNone(PartRow)] /\ seenReport[i] \in [Parts -> OrNone(Row)]
      /\ mem[i] \in Row
  BY <1>1, HandleFacts, Typed
<1>3. /\ Taken(i) \in [Parts -> OrNone(PartRow)]
      /\ \A p \in Parts : /\ part[i][p] = None => Taken(i)[p] = None
                          /\ part[i][p] # None => /\ Taken(i)[p] # None
                                                  /\ Taken(i)[p].value = part[i][p].value
  BY <1>1, <1>2, TakenParts
<1>4. Present(Taken(i)) = Present(part[i])
  BY <1>3 DEF Present
<1> QED BY <1>1, <1>2, <1>3, <1>4 DEF ReadOK, Version, Row, Values

LEMMA DActualizeInv ==
    ASSUME DInv, NEW i \in Instances, ActualizeChanged(i) \/ ActualizeAll(i) PROVE DInv'
<1> DEFINE new == PaasObjects(Taken(i), mem[i].value, master)
<1>1. i \in batch /\ pc = "outdated" /\ master \in Masters
  BY DEF ActualizeChanged, ActualizeAll, SaveActualized, Handle, DInv, DTypeOK
<1>2. /\ Taken(i) \in [Parts -> OrNone(PartRow)]
      /\ Present(Taken(i)) = Present(part[i])
      /\ \A p \in Parts : Taken(i)[p] # None => /\ target[i].value <= Taken(i)[p].value
                                                /\ Taken(i)[p].value <= mem[i].value
      /\ mem[i].value \in Values /\ target[i].value <= mem[i].value /\ mem[i].value \in Nat
  BY <1>1, TakenFacts
<1>3. CASE ActualizeChanged(i)
  BY <1>2, <1>3, SaveActualizedInv DEF ActualizeChanged
<1>4. CASE ActualizeAll(i)
  <2>1. /\ new \in [Parts -> OrNone(PartRow)]
        /\ Present(new) = Wanted(mem[i].value, master)
        /\ \A p \in Parts : new[p] # None => new[p].value = mem[i].value
    BY <1>1, <1>2, PaasParts
  <2>2. SaveActualized(i, new)
    BY <1>4 DEF ActualizeAll
  <2> HIDE DEF new
  <2>3. \A p \in Parts : new[p] # None => /\ target[i].value <= new[p].value
                                          /\ new[p].value <= mem[i].value
    BY <1>2, <2>1
  <2>4. Present(new) \in {Present(part[i]), Wanted(mem[i].value, master)}
    BY <2>1
  <2> QED BY <2>1, <2>2, <2>3, <2>4, SaveActualizedInv
<1> QED BY <1>3, <1>4

\* The parts are built from the target row, for the master the vector read.
LEMMA ActualizeMasterInv ==
    ASSUME DInv, NEW i \in Instances, ActualizeMaster(i) PROVE DInv'
<1> DEFINE new == PaasObjects(part[i], target[i].value, seenMaster)
<1>0. /\ pc = "master" /\ i \in batch /\ batch' = batch \ {i}
      /\ built' = [built EXCEPT ![i] = seenMaster]
      /\ UNCHANGED <<inst, undo, target, missed, pc, mem, ready, edits, shown, shownPart,
                     shownBuilt, report, master, changed, seenReport, seenMaster>>
  BY DEF ActualizeMaster, Handle, agentVars, readVars, shownVars, dpVars, pairVars
<1>2. /\ DTypeOK /\ target[i] # None /\ target[i].value \in Values /\ target[i].value \in Nat
      /\ part[i] \in [Parts -> OrNone(PartRow)]
      /\ edits \in Nat /\ master \in Nat /\ seenMaster \in Masters /\ seenMaster \in Nat
      /\ seenMaster <= master
      /\ Version(i, inst[i], target[i], part[i], built[i], missed, edits, master)
  <2>1. DTypeOK /\ target[i] # None /\ seenMaster <= master
    BY <1>0, HandleFacts DEF ReadOK, DInv
  <2> QED BY <1>0, <2>1, HandleFacts, Typed DEF DTypeOK
<1>1. part' = [part EXCEPT ![i] = new]
  BY <1>2 DEF ActualizeMaster, DTypeOK
<1>3. /\ new \in [Parts -> OrNone(PartRow)]
      /\ Present(new) = Wanted(target[i].value, seenMaster)
      /\ \A p \in Parts : new[p] # None => new[p].value = target[i].value
  BY <1>2, PaasParts
<1> HIDE DEF new
<1>4. /\ part'[i] = new /\ built'[i] = seenMaster
      /\ \A j \in Instances : j # i => part'[j] = part[j] /\ built'[j] = built[j]
  BY <1>0, <1>1, <1>2 DEF DTypeOK
<1>5. DTypeOK'
  <2>1. /\ part' \in [Instances -> [Parts -> OrNone(PartRow)]]
        /\ built' \in [Instances -> Masters]
    BY <1>0, <1>1, <1>2, <1>3 DEF DTypeOK
  <2> QED BY <1>0, <1>2, <2>1, HandledTypes DEF DTypeOK
<1>6. Version(i, inst[i], target[i], new, seenMaster, missed, edits, master)
  BY <1>2, <1>3 DEF Version
<1>7. /\ \A j \in Instances : j # i =>
           /\ inst'[j] = inst[j] /\ undo'[j] = undo[j] /\ target'[j] = target[j]
           /\ part'[j] = part[j] /\ built'[j] = built[j]
      /\ Version(i, inst'[i], target'[i], part'[i], built'[i], missed', edits, master)
      /\ missed \subseteq missed'
  BY <1>0, <1>4, <1>6
<1>8. Committed(i)' = Committed(i)
  BY <1>0 DEF Committed
<1> QED BY <1>0, <1>5, <1>7, <1>8, DHandled

\* An instance that is left alone, whatever the reason.
LEMMA LeftAloneInv ==
    ASSUME DInv, NEW i \in Instances,
           InstanceNotFound(i) \/ SkipInstance(i) \/ MasterWithoutParts(i)
    PROVE  DInv'
<1>0. DTypeOK /\ edits \in Nat /\ edits <= edits /\ master \in Nat /\ master <= master
  BY Typed DEF DInv
<1>1. /\ batch' \subseteq batch /\ pc # "idle"
      /\ UNCHANGED <<inst, undo, target, missed, pc, mem, ready, edits, shown>>
  <2>1. CASE InstanceNotFound(i)
    BY <2>1 DEF InstanceNotFound, CreateNotFound, Handle, agentVars, readVars
  <2>2. CASE SkipInstance(i)
    BY <2>2 DEF SkipInstance, Hold, Raise, MasterRaises, Handle, agentVars, readVars
  <2>3. CASE MasterWithoutParts(i)
    BY <2>3 DEF MasterWithoutParts, agentVars, readVars
  <2> QED BY <2>1, <2>2, <2>3
<1>2. UNCHANGED <<part, built, shownPart, shownBuilt, report, master,
                  changed, seenReport, seenMaster>>
  BY DEF InstanceNotFound, SkipInstance, MasterWithoutParts, KeepParts, partVars, shownVars,
         dpVars, pairVars
<1>3. DTypeOK'
  BY <1>0, <1>1, <1>2, HandledTypes DEF DTypeOK
<1>4. \A j \in Instances : FamilyOK(j)' /\ ReadOK(j)'
  <2> SUFFICES ASSUME NEW j \in Instances PROVE FamilyOK(j)' /\ ReadOK(j)'
    OBVIOUS
  <2>1. j \in batch' => j \in batch
    BY <1>1
  <2> QED BY <1>0, <1>1, <1>2, <2>1, FamilyFrame, ReadFrame
<1> QED BY <1>1, <1>2, <1>3, <1>4 DEF DInv

-----------------------------------------------------------------------------
(* End of the transaction *)

\* The committed version becomes that of the transaction, or the other way
\* round: then both are the same.
LEMMA EndInv ==
    ASSUME DInv, EndTransaction, EndRead, UNCHANGED missed,
           DTypeOK', target' = shown', part' = shownPart', built' = shownBuilt',
           \A j \in Instances :
             Version(j, inst'[j], target'[j], part'[j], built'[j], missed, edits, master)
    PROVE  DInv'
<1>1. /\ batch' = {} /\ seenMaster' = 0 /\ UNCHANGED <<edits, master>>
      /\ \A j \in Instances : undo'[j] = None
  BY DEF EndTransaction, EndRead, dpVars
<1>2. \A j \in Instances : FamilyOK(j)' /\ ReadOK(j)'
  BY <1>1 DEF FamilyOK, Committed, ReadOK
<1>3. edits' \in 0..MaxEdits /\ seenMaster' <= master'
  BY <1>1, Typed DEF DInv
<1> QED BY <1>2, <1>3 DEF DInv

\* What ends with the transaction leaves nothing read.
LEMMA EndTypes ==
    ASSUME DInv, EndTransaction, EndRead, UNCHANGED missed,
           inst' \in [Instances -> OrNone(Row)],
           target' = shown', part' = shownPart', built' = shownBuilt',
           target' \in [Instances -> OrNone(TargetRow)],
           part' \in [Instances -> [Parts -> OrNone(PartRow)]],
           built' \in [Instances -> Masters]
    PROVE  DTypeOK'
<1>0. DTypeOK
  BY DEF DInv
<1>1. /\ pc' = "idle" /\ batch' = {} /\ UNCHANGED <<ready, report, master>>
      /\ undo' = [i \in Instances |-> None] /\ mem' = [i \in Instances |-> None]
      /\ changed' = NoChange /\ seenReport' = NoReports /\ seenMaster' = 0
  BY DEF EndTransaction, EndRead, agentVars, dpVars
<1>2. /\ [i \in Instances |-> None] \in [Instances -> OrNone(Row)]
      /\ NoChange \in [Instances -> SUBSET Parts]
      /\ NoReports \in [Instances -> [Parts -> OrNone(Row)]]
      /\ 0 \in Masters
  BY DerivativesAssumption DEF OrNone, NoChange, NoReports, NoParts, Masters
<1> QED BY <1>0, <1>1, <1>2 DEF DTypeOK

LEMMA DCommitInv == ASSUME DInv, CommitAll PROVE DInv'
<1>0. DTypeOK
  BY DEF DInv
<1>1. /\ EndTransaction /\ EndRead
      /\ shown' = target /\ shownPart' = part /\ shownBuilt' = built
      /\ UNCHANGED <<inst, target, missed, part, built>>
  BY DEF CommitAll, partVars
<1>2. DTypeOK'
  BY <1>0, <1>1, EndTypes DEF DTypeOK
<1>3. \A j \in Instances :
        Version(j, inst'[j], target'[j], part'[j], built'[j], missed, edits, master)
  BY <1>1 DEF DInv, FamilyOK
<1> QED BY <1>1, <1>2, <1>3, EndInv

LEMMA DRollbackInv == ASSUME DInv, RollbackAll PROVE DInv'
<1>0. DTypeOK
  BY DEF DInv
<1>1. /\ EndTransaction /\ EndRead
      /\ target' = shown /\ part' = shownPart /\ built' = shownBuilt
      /\ inst' = [j \in Instances |-> Committed(j)]
      /\ UNCHANGED <<shown, shownPart, shownBuilt, missed>>
  BY DEF RollbackAll, Rollback, shownVars, Committed
<1>2. inst' \in [Instances -> OrNone(Row)]
  BY <1>1, Typed
<1>3. DTypeOK'
  BY <1>0, <1>1, <1>2, EndTypes DEF DTypeOK
<1>4. ASSUME NEW j \in Instances
      PROVE  Version(j, inst'[j], target'[j], part'[j], built'[j], missed, edits, master)
  <2>1. Version(j, Committed(j), shown[j], shownPart[j], shownBuilt[j], missed, edits, master)
    BY DEF DInv, FamilyOK
  <2> QED BY <1>1, <2>1
<1> QED BY <1>1, <1>3, <1>4, EndInv

-----------------------------------------------------------------------------
(* The invariant *)

LEMMA DStutterInv == ASSUME DInv, UNCHANGED allVars PROVE DInv'
<1>0. DTypeOK /\ edits \in Nat /\ edits <= edits /\ master \in Nat /\ master <= master
  BY Typed DEF DInv
<1>1. UNCHANGED <<inst, undo, target, missed, pc, mem, ready, edits, shown, batch, part, built,
                  shownPart, shownBuilt, report, master, changed, seenReport, seenMaster>>
  BY DEF allVars, vars, userVars, dbVars, agentVars, readVars, partVars, shownVars, dpVars,
         pairVars
<1>2. DTypeOK'
  BY <1>0, <1>1 DEF DTypeOK
<1>3. \A j \in Instances : FamilyOK(j)' /\ ReadOK(j)'
  BY <1>0, <1>1, FamilyFrame, ReadFrame
<1> QED BY <1>1, <1>2, <1>3 DEF DInv

LEMMA DNextInv == ASSUME DInv, [DNext]_allVars PROVE DInv'
<1>1. CASE DBuilder
  <2>1. CASE FetchVector
    BY <2>1, FetchVectorInv
  <2>2. CASE FetchOutdatedInstances \/ FetchOutdatedFails
    BY <2>2, FetchOutdatedInv
  <2>3. CASE FetchOutdatedMasters
    BY <2>3, FetchMastersInv
  <2>4. CASE CommitAll
    BY <2>4, DCommitInv
  <2>5. CASE RollbackAll
    BY <2>5, DRollbackInv
  <2>6. ASSUME NEW i \in Instances, InstanceStep(i) PROVE DInv'
    <3>1. CASE CreateInstance(i)
      BY <3>1, DCreateInv
    <3>2. CASE DeleteInstance(i)
      BY <3>2, DDeleteInv
    <3>3. CASE UpdateInstance(i)
      BY <3>3, DUpdateInv
    <3>4. CASE ActualizeChanged(i) \/ ActualizeAll(i)
      BY <3>4, DActualizeInv
    <3>5. CASE ActualizeMaster(i)
      BY <3>5, ActualizeMasterInv
    <3>6. CASE InstanceNotFound(i) \/ SkipInstance(i) \/ MasterWithoutParts(i)
      BY <3>6, LeftAloneInv
    <3> QED BY <2>6, <3>1, <3>2, <3>3, <3>4, <3>5, <3>6 DEF InstanceStep
  <2> QED BY <1>1, <2>1, <2>2, <2>3, <2>4, <2>5, <2>6 DEF DBuilder
<1>2. CASE DWorld
  BY <1>2, UserInv, ReportPartInv, MasterInv DEF DWorld
<1>3. CASE UNCHANGED allVars
  BY <1>3, DStutterInv
<1> QED BY <1>1, <1>2, <1>3 DEF DNext

\* DInv is inductive: it holds from the first state on, whatever users, agents,
\* the master, the hooks and the database do.
THEOREM DInvariance == DSpec => []DInv
<1>1. DInit => DInv
  BY DInitInv
<1>2. DInv /\ [DNext]_allVars => DInv'
  BY DNextInv
<1> QED BY <1>1, <1>2, PTL DEF DSpec

-----------------------------------------------------------------------------
(* What follows from it *)

\* All variables have their types, and between iterations nothing is left to
\* commit: what the builder wrote to the tables of instances, target resources
\* and derivatives is published by one commit or not at all.
THEOREM DerivativesTypeCorrect == DSpec => []DTypeOK
<1>1. DInv => DTypeOK
  BY DEF DInv
<1> QED BY <1>1, DInvariance, PTL

\* Agents never see a derivative without its resource, nor of an older build
\* than it; of another build only while an edit waits or was missed: they are
\* changed in the savepoint of the instance.
THEOREM FamilyNeverTorn == DSpec => []FamilyTogether
<1>1. ASSUME DInv PROVE FamilyTogether
  <2>1. ASSUME NEW i \in Instances, NEW p \in Parts, shownPart[i][p] # None
        PROVE  /\ shown[i] # None
               /\ shownPart[i][p].value >= shown[i].value
               /\ shown[i].tracked /\ i \notin missed
                  => shownPart[i][p].value = shown[i].value
    <3>1. Version(i, Committed(i), shown[i], shownPart[i], shownBuilt[i], missed, edits, master)
      BY <1>1 DEF DInv, FamilyOK
    <3>2. shownPart[i] # NoParts
      BY <2>1 DEF NoParts
    <3>3. shown[i] # None
      BY <3>1, <3>2 DEF Version
    <3>4. /\ shownPart[i][p].value \in Nat /\ shown[i].value \in Nat
          /\ Committed(i) # None => Committed(i).value \in Nat
      BY <1>1, <2>1, <3>3, Typed DEF OrNone, PartRow, TargetRow, Row, Values
    <3> QED BY <2>1, <3>1, <3>3, <3>4 DEF Version
  <2> QED BY <2>1 DEF FamilyTogether
<1> QED BY <1>1, DInvariance, PTL

\* An instance that has committed the present state of its master has the
\* derivatives wanted for it, although the master may change between the read
\* of the vector and the commit, and the instance be edited or rebuilt by
\* another vector of the same iteration.
THEOREM MasterAlwaysBuilt == DSpec => []MasterBuilt
<1>1. ASSUME DInv PROVE MasterBuilt
  <2>1. ASSUME NEW i \in Instances \ missed,
               shown[i] # None, shown[i].tracked, shownBuilt[i] = master
        PROVE  {p \in Parts : shownPart[i][p] # None} = Wanted(shown[i].value, master)
    <3>1. Version(i, Committed(i), shown[i], shownPart[i], shownBuilt[i], missed, edits, master)
      BY <1>1 DEF DInv, FamilyOK
    <3>2. Present(shownPart[i]) = Wanted(shown[i].value, master)
      BY <2>1, <3>1 DEF Version
    <3> QED BY <3>2 DEF Present
  <2> QED BY <2>1 DEF MasterBuilt
<1> QED BY <1>1, DInvariance, PTL

-----------------------------------------------------------------------------
(* When a part becomes ACTIVE *)

\* The reports of the instance have been taken over in this transaction.
Late(j) == pc = "master" \/ (pc = "outdated" /\ j \notin batch)

\* A part is ACTIVE in the transaction because everybody sees it so, or by a
\* report of its value that was taken over.
ActiveOK(j) ==
    \A p \in Parts :
        part[j][p] # None /\ part[j][p].status = "ACTIVE" =>
          \/ shownPart[j][p] # None /\ shownPart[j][p].status = "ACTIVE"
          \/ Late(j) /\ part[j][p].full.value = part[j][p].value

ActiveInv == DInv /\ \A j \in Instances : ActiveOK(j)

\* A build leaves a part ACTIVE only if it leaves it as it is.
LEMMA RebuildActive ==
    ASSUME NEW parts \in [Parts -> OrNone(PartRow)], NEW v \in Values, NEW m \in Masters,
           NEW p \in Parts,
           PaasObjects(parts, v, m)[p] # None, PaasObjects(parts, v, m)[p].status = "ACTIVE"
    PROVE  parts[p] # None /\ PaasObjects(parts, v, m)[p] = parts[p]
<1> DEFINE new == PaasObjects(parts, v, m)
<1>1. new[p] = IF p \notin Wanted(v, m) THEN None
               ELSE IF parts[p] = None THEN NewPart(v)
               ELSE IF parts[p].value = v THEN parts[p]
               ELSE [parts[p] EXCEPT !.value = v, !.status = "NEW"]
  BY DEF PaasObjects, Rebuild
<1>2. new[p] # None /\ new[p].status = "ACTIVE"
  OBVIOUS
<1> HIDE DEF new
<1>3. parts[p] # None
  BY <1>1, <1>2 DEF NewPart
<1>4. parts[p].value = v
  <2> SUFFICES ASSUME parts[p].value # v PROVE FALSE
    OBVIOUS
  <2>1. parts[p] \in PartRow
    BY <1>3 DEF OrNone
  <2>2. [parts[p] EXCEPT !.value = v, !.status = "NEW"].status = "NEW"
    BY <2>1 DEF PartRow
  <2> QED BY <1>1, <1>2, <1>3, <2>2
<1>5. new[p] = parts[p]
  BY <1>1, <1>2, <1>3, <1>4
<1> QED BY <1>3, <1>5 DEF new

\* A report that is taken over makes a part ACTIVE only if it is of its value.
LEMMA TakenActive ==
    ASSUME DInv, NEW i \in Instances, i \in batch, pc = "outdated", NEW p \in Parts,
           Taken(i)[p] # None, Taken(i)[p].status = "ACTIVE"
    PROVE  \/ part[i][p] # None /\ part[i][p].status = "ACTIVE"
           \/ Taken(i)[p].full.value = Taken(i)[p].value
<1>1. CASE p \notin changed[i]
  BY <1>1 DEF Taken
<1>2. CASE p \in changed[i]
  <2>1. part[i][p] \in PartRow /\ part[i][p] # None /\ seenReport[i][p] \in Row
    BY <1>2, HandleFacts, Typed DEF ReadOK, OrNone
  <2>2. Taken(i)[p] = HashStatus(part[i][p], seenReport[i][p])
    BY <1>2 DEF Taken
  <2> QED BY <2>1, <2>2 DEF HashStatus, PartRow, Row
<1> QED BY <1>1, <1>2

LEMMA ActiveFrame ==
    ASSUME NEW j \in Instances, ActiveOK(j), part'[j] = part[j], shownPart'[j] = shownPart[j],
           Late(j) => Late(j)'
    PROVE  ActiveOK(j)'
BY DEF ActiveOK

\* A part handled before the reports are is ACTIVE only if it was not changed.
LEMMA ActiveBuilt ==
    ASSUME ActiveInv, NEW i \in Instances, NEW j \in Instances,
           CreateInstance(i) \/ DeleteInstance(i) \/ UpdateInstance(i) \/ ActualizeMaster(i)
    PROVE  ActiveOK(j)'
<1>0. DInv /\ DTypeOK /\ ActiveOK(j) /\ ActiveOK(i)
  BY DEF ActiveInv, DInv
<1>1. /\ UNCHANGED <<pc, shownPart>> /\ i \in batch /\ batch' = batch \ {i}
      /\ pc \in {"new", "deleted", "updated", "master"}
  BY DEF CreateInstance, CreateTarget, DeleteInstance, DeleteTarget, UpdateInstance,
         UpdateTarget, ActualizeMaster, Handle, readVars, shownVars
<1>2. PICK new \in [Parts -> OrNone(PartRow)] :
        /\ part' = [part EXCEPT ![i] = new]
        /\ \A p \in Parts : new[p] # None /\ new[p].status = "ACTIVE"
                            => part[i][p] # None /\ new[p] = part[i][p]
  <2>0. /\ part[i] \in [Parts -> OrNone(PartRow)] /\ NoParts \in [Parts -> OrNone(PartRow)]
        /\ part \in [Instances -> [Parts -> OrNone(PartRow)]]
    BY <1>0, Typed DEF NoParts, OrNone, DTypeOK
  <2>1. CASE CreateInstance(i)
    <3> DEFINE new == PaasObjects(NoParts, mem[i].value, master)
    <3>1. mem[i].value \in Values /\ master \in Masters
      BY <1>0, <1>1, <2>1, HandleFacts
         DEF CreateInstance, CreateTarget, Handle, ReadOK, Row, DTypeOK
    <3>2. new \in [Parts -> OrNone(PartRow)]
      BY <2>0, <3>1, PaasParts
    <3>3. \A p \in Parts : ~(new[p] # None /\ new[p].status = "ACTIVE")
      BY <2>0, <3>1, RebuildActive DEF NoParts
    <3>4. part' = [part EXCEPT ![i] = new]
      BY <2>1 DEF CreateInstance
    <3> QED BY <3>2, <3>3, <3>4
  <2>2. CASE DeleteInstance(i)
    BY <2>0, <2>2 DEF DeleteInstance, NoParts
  <2>3. CASE UpdateInstance(i)
    <3> DEFINE new == PaasObjects(part[i], mem[i].value, master)
    <3>1. mem[i].value \in Values /\ master \in Masters
      BY <1>0, <1>1, <2>3, HandleFacts
         DEF UpdateInstance, UpdateTarget, Handle, ReadOK, Row, DTypeOK
    <3>2. new \in [Parts -> OrNone(PartRow)]
      BY <2>0, <3>1, PaasParts
    <3>3. \A p \in Parts : new[p] # None /\ new[p].status = "ACTIVE"
                           => part[i][p] # None /\ new[p] = part[i][p]
      BY <2>0, <3>1, RebuildActive
    <3>4. part' = [part EXCEPT ![i] = new]
      BY <2>0, <2>3 DEF UpdateInstance
    <3> QED BY <3>2, <3>3, <3>4
  <2>4. CASE ActualizeMaster(i)
    <3> DEFINE new == PaasObjects(part[i], target[i].value, seenMaster)
    <3>1. target[i].value \in Values /\ seenMaster \in Masters
      BY <1>0, <1>1, <2>4, HandleFacts DEF ActualizeMaster, Handle, ReadOK, DTypeOK
    <3>2. new \in [Parts -> OrNone(PartRow)]
      BY <2>0, <3>1, PaasParts
    <3>3. \A p \in Parts : new[p] # None /\ new[p].status = "ACTIVE"
                           => part[i][p] # None /\ new[p] = part[i][p]
      BY <2>0, <3>1, RebuildActive
    <3>4. part' = [part EXCEPT ![i] = new]
      BY <2>0, <2>4 DEF ActualizeMaster
    <3> QED BY <3>2, <3>3, <3>4
  <2> QED BY <2>1, <2>2, <2>3, <2>4
<1>3. Late(j) => Late(j)'
  BY <1>1 DEF Late
<1>4. CASE j # i
  <2>1. part'[j] = part[j]
    BY <1>0, <1>2, <1>4 DEF DTypeOK
  <2> QED BY <1>0, <1>1, <1>3, <2>1, ActiveFrame
<1>5. CASE j = i
  <2>1. part'[i] = new
    BY <1>0, <1>2 DEF DTypeOK
  <2> QED BY <1>0, <1>1, <1>2, <1>3, <1>5, <2>1 DEF ActiveOK
<1> QED BY <1>4, <1>5

\* A part whose reports are taken over.
LEMMA ActiveTaken ==
    ASSUME ActiveInv, NEW i \in Instances, NEW j \in Instances,
           ActualizeChanged(i) \/ ActualizeAll(i)
    PROVE  ActiveOK(j)'
<1>0. DInv /\ DTypeOK /\ ActiveOK(j) /\ ActiveOK(i)
  BY DEF ActiveInv, DInv
<1>1. /\ UNCHANGED <<pc, shownPart>> /\ i \in batch /\ batch' = batch \ {i}
      /\ pc = "outdated"
  BY DEF ActualizeChanged, ActualizeAll, SaveActualized, Handle, readVars, shownVars
<1>2. /\ Taken(i) \in [Parts -> OrNone(PartRow)] /\ mem[i].value \in Values /\ master \in Masters
  BY <1>0, <1>1, TakenFacts DEF DTypeOK
<1>3. PICK new \in [Parts -> OrNone(PartRow)] :
        /\ part' = [part EXCEPT ![i] = new]
        /\ \A p \in Parts : new[p] # None /\ new[p].status = "ACTIVE"
                            => Taken(i)[p] # None /\ new[p] = Taken(i)[p]
  <2>1. CASE ActualizeChanged(i)
    BY <1>2, <2>1 DEF ActualizeChanged, SaveActualized
  <2>2. CASE ActualizeAll(i)
    <3> DEFINE new == PaasObjects(Taken(i), mem[i].value, master)
    <3>1. new \in [Parts -> OrNone(PartRow)]
      BY <1>2, PaasParts
    <3>2. \A p \in Parts : new[p] # None /\ new[p].status = "ACTIVE"
                           => Taken(i)[p] # None /\ new[p] = Taken(i)[p]
      BY <1>2, RebuildActive
    <3>3. part' = [part EXCEPT ![i] = new]
      BY <2>2 DEF ActualizeAll, SaveActualized
    <3> QED BY <3>1, <3>2, <3>3
  <2> QED BY <2>1, <2>2
<1>4. CASE j # i
  <2>1. part'[j] = part[j] /\ (Late(j) => Late(j)')
    BY <1>0, <1>1, <1>3, <1>4 DEF DTypeOK, Late
  <2> QED BY <1>0, <1>1, <2>1, ActiveFrame
<1>5. CASE j = i
  <2>1. part'[i] = new /\ Late(i)' /\ ~Late(i)
    BY <1>0, <1>1, <1>3 DEF DTypeOK, Late
  <2>2. ASSUME NEW p \in Parts, new[p] # None, new[p].status = "ACTIVE"
        PROVE  \/ shownPart[i][p] # None /\ shownPart[i][p].status = "ACTIVE"
               \/ new[p].full.value = new[p].value
    <3>1. Taken(i)[p] # None /\ new[p] = Taken(i)[p]
      BY <1>3, <2>2
    <3>2. \/ part[i][p] # None /\ part[i][p].status = "ACTIVE"
          \/ Taken(i)[p].full.value = Taken(i)[p].value
      BY <1>0, <1>1, <2>2, <3>1, TakenActive
    <3> QED BY <1>0, <2>1, <3>1, <3>2 DEF ActiveOK
  <2> QED BY <1>1, <1>5, <2>1, <2>2 DEF ActiveOK
<1> QED BY <1>4, <1>5

LEMMA ActiveNext == ASSUME ActiveInv, [DNext]_allVars PROVE ActiveInv'
<1>0. DInv /\ DInv'
  BY DNextInv DEF ActiveInv
<1> SUFFICES ASSUME NEW j \in Instances PROVE ActiveOK(j)'
  BY <1>0 DEF ActiveInv
<1>1. ActiveOK(j)
  BY DEF ActiveInv
<1>2. CASE FetchVector \/ FetchOutdatedInstances \/ FetchOutdatedFails \/ FetchOutdatedMasters
  <2>1. UNCHANGED <<part, shownPart>> /\ (Late(j) => Late(j)')
    BY <1>2 DEF FetchVector, FetchNew, FetchDeleted, FetchUpdated, Fetch, FetchOutdatedInstances,
                FetchOutdatedFails, FetchOutdatedParts, FetchOutdatedMasters, KeepParts,
                partVars, shownVars, Late
  <2> QED BY <1>1, <2>1, ActiveFrame
<1>3. CASE CommitAll \/ RollbackAll
  <2>1. part'[j] = shownPart'[j]
    BY <1>3 DEF CommitAll, RollbackAll, partVars, shownVars
  <2> QED BY <2>1 DEF ActiveOK
<1>4. ASSUME NEW i \in Instances, InstanceStep(i) PROVE ActiveOK(j)'
  <2>1. CASE CreateInstance(i) \/ DeleteInstance(i) \/ UpdateInstance(i) \/ ActualizeMaster(i)
    BY <2>1, ActiveBuilt
  <2>2. CASE ActualizeChanged(i) \/ ActualizeAll(i)
    BY <2>2, ActiveTaken
  <2>3. CASE InstanceNotFound(i) \/ SkipInstance(i) \/ MasterWithoutParts(i)
    <3>1. UNCHANGED <<part, shownPart, pc>> /\ batch' \subseteq batch
      BY <2>3 DEF InstanceNotFound, CreateNotFound, SkipInstance, Hold, Raise, MasterRaises, Handle,
                  MasterWithoutParts, KeepParts, partVars, shownVars, readVars
    <3>2. Late(j) => Late(j)'
      BY <3>1 DEF Late
    <3> QED BY <1>1, <3>1, <3>2, ActiveFrame
  <2> QED BY <1>4, <2>1, <2>2, <2>3 DEF InstanceStep
<1>5. CASE DWorld \/ UNCHANGED allVars
  <2>1. UNCHANGED <<part, shownPart, pc, batch>>
    BY <1>5 DEF DWorld, UserStep, Edit, Remove, ChangeReadiness, ReportPart, ChangeMaster,
                partVars, shownVars, readVars, vars, allVars
  <2>2. Late(j) => Late(j)'
    BY <2>1 DEF Late
  <2> QED BY <1>1, <2>1, <2>2, ActiveFrame
<1> QED BY <1>2, <1>3, <1>4, <1>5 DEF DNext, DBuilder

\* What agents see becomes ACTIVE only by a report of the value they see,
\* whatever was reported, rebuilt, committed and undone before.
THEOREM ActiveOnlyIfBuilt == DSpec => PartActiveIfBuilt
<1> DEFINE Becomes ==
      \A i \in Instances, p \in Parts :
         /\ shownPart'[i][p] # None /\ shownPart'[i][p].status = "ACTIVE"
         /\ shownPart[i][p] = None \/ shownPart[i][p].status # "ACTIVE"
         => shownPart'[i][p].full.value = shownPart'[i][p].value
<1>1. DInit => ActiveInv
  <2> SUFFICES ASSUME DInit, NEW j \in Instances, NEW p \in Parts PROVE part[j][p] = None
    BY DInitInv DEF ActiveInv, ActiveOK
  <2> QED BY DEF DInit, NoReports, NoParts
<1>2. ActiveInv /\ [DNext]_allVars => ActiveInv'
  BY ActiveNext
<1>3. ASSUME ActiveInv, [DNext]_allVars PROVE [Becomes]_allVars
  <2> SUFFICES ASSUME ~UNCHANGED allVars PROVE Becomes
    OBVIOUS
  <2>1. CASE CommitAll
    <3>1. shownPart' = part
      BY <2>1 DEF CommitAll
    <3> QED BY <1>3, <3>1 DEF ActiveInv, ActiveOK
  <2>2. ASSUME shownPart' = shownPart PROVE Becomes
    BY <2>2
  <2>3. CASE DWorld
    BY <2>2, <2>3 DEF DWorld, UserStep, ReportPart, ChangeMaster, shownVars
  <2>4. CASE DBuilder /\ ~CommitAll
    <3>1. shownPart' = shownPart
      BY <2>4 DEF DBuilder, FetchVector, FetchOutdatedInstances, FetchOutdatedFails,
                  FetchOutdatedParts, FetchOutdatedMasters, RollbackAll, InstanceStep,
                  CreateInstance, DeleteInstance, UpdateInstance, ActualizeChanged, ActualizeAll,
                  SaveActualized, InstanceNotFound, SkipInstance, ActualizeMaster,
                  MasterWithoutParts, KeepParts, shownVars
    <3> QED BY <2>2, <3>1
  <2> QED BY <1>3, <2>1, <2>3, <2>4 DEF DNext
<1> QED BY <1>1, <1>2, <1>3, PTL DEF DSpec, PartActiveIfBuilt, Becomes

-----------------------------------------------------------------------------
(* What UniversalBuilder promises of edits holds with derivatives too *)

\* With derivatives as without them, an edit is built or still found as
\* updated: the vectors of outdated parts and masters do not hide it either.
THEOREM EditNotPassedOverWithParts == DSpec => []TrackedIsBuilt
<1>1. ASSUME DInv PROVE TrackedIsBuilt
  <2> SUFFICES ASSUME NEW i \in Instances \ missed,
                      Committed(i) # None, shown[i] # None, shown[i].tracked
               PROVE  shown[i].value = Committed(i).value
    BY DEF TrackedIsBuilt
  <2>1. Version(i, Committed(i), shown[i], shownPart[i], shownBuilt[i], missed, edits, master)
    BY <1>1 DEF DInv, FamilyOK
  <2> QED BY <2>1 DEF Version
<1> QED BY <1>1, DInvariance, PTL

\* The target row of the transaction is not behind the one agents see, and a
\* row that the vector of new instances holds has none they see.
Ahead(j) ==
    /\ shown[j] # None /\ target[j] # None => shown[j].value <= target[j].value
    /\ pc = "new" /\ j \in batch => shown[j] = None

AheadInv == DInv /\ \A j \in Instances : Ahead(j)

\* A step keeps it that leaves the values of target and shown rows alone.
LEMMA AheadFrame ==
    ASSUME NEW j \in Instances, Ahead(j),
           target'[j] # None => target[j] # None /\ target'[j].value = target[j].value,
           shown'[j] = shown[j], pc' = pc, batch' \subseteq batch
    PROVE  Ahead(j)'
BY DEF Ahead

\* Both hooks of an outdated instance save it, with some parts.
LEMMA SomeActualized ==
    ASSUME NEW i, ActualizeChanged(i) \/ ActualizeAll(i)
    PROVE  \E new : SaveActualized(i, new)
<1>1. ActualizeAll(i) => SaveActualized(i, PaasObjects(Taken(i), mem[i].value, master))
  BY DEF ActualizeAll
<1>2. ActualizeChanged(i) => SaveActualized(i, Taken(i))
  BY DEF ActualizeChanged
<1> QED BY <1>1, <1>2, Zenon

\* Nothing is shown while an instance is handled.
LEMMA StepShowsNothing ==
    ASSUME NEW i \in Instances, InstanceStep(i)
    PROVE  shown' = shown /\ pc' = pc /\ batch' \subseteq batch
<1>1. ASSUME NEW v, Handle(v, i) PROVE shown' = shown /\ pc' = pc /\ batch' \subseteq batch
  BY <1>1 DEF Handle, readVars
<1>2. CASE CreateInstance(i) \/ DeleteInstance(i) \/ UpdateInstance(i) \/ ActualizeMaster(i)
  <2>1. Handle("new", i) \/ Handle("deleted", i) \/ Handle("updated", i) \/ Handle("master", i)
    BY <1>2, Zenon DEF CreateInstance, CreateTarget, DeleteInstance, DeleteTarget,
                       UpdateInstance, UpdateTarget, ActualizeMaster
  <2> QED BY <1>1, <2>1
<1>3. CASE ActualizeChanged(i) \/ ActualizeAll(i)
  <2>1. PICK new : SaveActualized(i, new)
    BY <1>3, SomeActualized
  <2>2. Handle("outdated", i)
    BY <2>1, Zenon DEF SaveActualized
  <2> QED BY <1>1, <2>2
<1>4. CASE InstanceNotFound(i) \/ SkipInstance(i)
  <2>1. \E v \in {"new", "deleted", "updated", "outdated", "master"} : Handle(v, i)
    BY <1>4 DEF InstanceNotFound, CreateNotFound, SkipInstance, Hold, Raise, MasterRaises
  <2> QED BY <1>1, <2>1
<1>5. CASE MasterWithoutParts(i)
  BY <1>5 DEF MasterWithoutParts, readVars
<1> QED BY <1>2, <1>3, <1>4, <1>5 DEF InstanceStep

\* Handling an instance keeps it: whatever a vector writes is at least as new.
LEMMA AheadHandled ==
    ASSUME AheadInv, NEW i \in Instances, InstanceStep(i), NEW j \in Instances
    PROVE  Ahead(j)'
<1>0. DTypeOK /\ Ahead(j) /\ target \in [Instances -> OrNone(TargetRow)]
  BY DEF AheadInv, DInv, DTypeOK
<1>1. shown' = shown /\ pc' = pc /\ batch' \subseteq batch
  BY StepShowsNothing
<1>2. CASE CreateInstance(i)
  <2>1. pc = "new" /\ i \in batch /\ (j # i => target'[j] = target[j])
    BY <1>0, <1>2 DEF CreateInstance, CreateTarget, Handle
  <2>2. CASE j = i
    BY <1>0, <1>1, <2>1, <2>2 DEF Ahead
  <2> QED BY <1>0, <1>1, <2>1, <2>2, AheadFrame
<1>3. CASE DeleteInstance(i)
  <2>1. target' = [target EXCEPT ![i] = None]
    BY <1>3 DEF DeleteInstance, DeleteTarget
  <2> QED BY <1>0, <1>1, <2>1, AheadFrame
<1>4. CASE UpdateInstance(i)
  <2>1. /\ pc = "updated" /\ i \in batch
        /\ target' = [target EXCEPT ![i] =
                        [value |-> mem[i].value, full |-> @.full,
                         status |-> mem[i].status, tracked |-> Tracked(i, mem[i].status)]]
    BY <1>4 DEF UpdateInstance, UpdateTarget, Handle
  <2>2. CASE j = i
    <3>1. /\ target[i] # None /\ target[i].value <= mem[i].value
          /\ target[i].value \in Nat /\ mem[i].value \in Nat
      BY <2>1, HandleFacts DEF AheadInv, ReadOK
    <3>2. target'[i].value = mem[i].value
      BY <1>0, <2>1
    <3>3. shown[i] # None => shown[i].value \in Nat
      BY Typed DEF AheadInv, OrNone, TargetRow, Values
    <3> QED BY <1>0, <1>1, <2>1, <2>2, <3>1, <3>2, <3>3 DEF Ahead
  <2>3. CASE j # i
    <3>1. target'[j] = target[j]
      BY <1>0, <2>1, <2>3
    <3> QED BY <1>0, <1>1, <3>1, AheadFrame
  <2> QED BY <2>2, <2>3
<1>5. CASE ActualizeChanged(i) \/ ActualizeAll(i)
  <2>0. PICK new : SaveActualized(i, new)
    BY <1>5, SomeActualized
  <2>1. pc = "outdated" /\ i \in batch
    BY <2>0 DEF SaveActualized, Handle
  <2>2. PICK s \in Statuses :
          target' = [target EXCEPT ![i] = [@ EXCEPT !.status = s, !.tracked = Tracked(i, s)]]
    BY <2>0 DEF SaveActualized
  <2>3. target[i] # None /\ target[i] \in TargetRow
    BY <2>1, HandleFacts DEF AheadInv, ReadOK
  <2>4. target'[i].value = target[i].value /\ (j # i => target'[j] = target[j])
    BY <1>0, <2>2, <2>3 DEF TargetRow
  <2> QED BY <1>0, <1>1, <2>3, <2>4, AheadFrame
<1>6. CASE InstanceNotFound(i) \/ SkipInstance(i) \/ ActualizeMaster(i) \/ MasterWithoutParts(i)
  <2>1. target' = target
    BY <1>6 DEF InstanceNotFound, CreateNotFound, SkipInstance, Hold, Raise, MasterRaises,
                ActualizeMaster, MasterWithoutParts
  <2> QED BY <1>0, <1>1, <2>1, AheadFrame
<1> QED BY <1>2, <1>3, <1>4, <1>5, <1>6 DEF InstanceStep

LEMMA AheadNext == ASSUME AheadInv, [DNext]_allVars PROVE AheadInv'
<1>0. DInv /\ DInv' /\ DTypeOK
  BY DNextInv DEF AheadInv, DInv
<1> SUFFICES ASSUME NEW j \in Instances PROVE Ahead(j)'
  BY <1>0 DEF AheadInv
<1>1. Ahead(j)
  BY DEF AheadInv
<1>2. CASE FetchVector \/ FetchOutdatedInstances \/ FetchOutdatedFails \/ FetchOutdatedMasters
  <2>1. UNCHANGED <<target, shown>>
    BY <1>2 DEF FetchVector, FetchNew, FetchDeleted, FetchUpdated, Fetch, FetchOutdatedInstances,
                FetchOutdatedFails, FetchOutdatedParts, FetchOutdatedMasters, dbVars
  <2>2. ASSUME pc' = "new", j \in batch' PROVE shown[j] = None
    <3>1. FetchNew
      BY <1>2, <2>2 DEF FetchVector, FetchDeleted, FetchUpdated, Fetch, FetchOutdatedInstances,
                        FetchOutdatedFails, FetchOutdatedParts, FetchOutdatedMasters
    <3>2. target = shown /\ target[j] = None
      BY <1>0, <2>2, <3>1 DEF FetchNew, Fetch, Limited, DTypeOK
    <3> QED BY <3>2
  <2> QED BY <1>1, <2>1, <2>2 DEF Ahead
<1>3. CASE CommitAll \/ RollbackAll
  <2>1. target' = shown' /\ pc' = "idle"
    BY <1>3 DEF CommitAll, RollbackAll, Rollback, EndTransaction
  <2>2. shown'[j] # None => shown'[j].value \in Nat
    BY <1>0 DEF DInv, DTypeOK, OrNone, TargetRow, Values
  <2> QED BY <2>1, <2>2 DEF Ahead
<1>4. ASSUME NEW i \in Instances, InstanceStep(i) PROVE Ahead(j)'
  BY <1>4, AheadHandled
<1>5. ASSUME NEW i \in Instances, Edit(i) \/ Remove(i) PROVE Ahead(j)'
  <2>1. /\ target' = Untracked(target, i) /\ shown' = Untracked(shown, i)
        /\ pc' = pc /\ batch' = batch
    BY <1>5 DEF Edit, Remove, readVars
  <2>2. target \in [Instances -> OrNone(TargetRow)] /\ shown \in [Instances -> OrNone(TargetRow)]
    BY <1>0 DEF DTypeOK
  <2>3. CASE j = i
    <3>1. IF target[i] = None THEN target'[i] = None ELSE target'[i].value = target[i].value
      BY <2>1, <2>2, UntrackedRows
    <3>2. IF shown[i] = None THEN shown'[i] = None ELSE shown'[i].value = shown[i].value
      BY <2>1, <2>2, UntrackedRows
    <3> QED BY <1>1, <2>1, <2>3, <3>1, <3>2 DEF Ahead
  <2>4. CASE j # i
    <3>1. target'[j] = target[j] /\ shown'[j] = shown[j]
      BY <2>1, <2>2, <2>4, UntrackedRows
    <3> QED BY <1>1, <2>1, <3>1, AheadFrame
  <2> QED BY <2>3, <2>4
<1>6. CASE UNCHANGED <<target, shown, pc, batch>>
  BY <1>1, <1>6, AheadFrame
<1>7. CASE DWorld \/ UNCHANGED allVars
  BY <1>5, <1>6, <1>7 DEF DWorld, UserStep, ChangeReadiness, ReportPart, ChangeMaster,
                          dbVars, readVars, vars, allVars
<1> QED BY <1>2, <1>3, <1>4, <1>7 DEF DNext, DBuilder

\* With derivatives as without them, what agents see of an instance never goes
\* back to an earlier edit: no vector writes an older value, and what a failing
\* transaction wrote is not seen.
THEOREM EditNotUndoneWithParts == DSpec => BuildsForward
<1> DEFINE Forward == \A i \in Instances : shown[i] # None /\ shown'[i] # None
                                           => shown[i].value <= shown'[i].value
<1>1. DInit => AheadInv
  BY DInitInv DEF DInit, Init, AheadInv, Ahead
<1>2. AheadInv /\ [DNext]_allVars => AheadInv'
  BY AheadNext
<1>3. ASSUME AheadInv, [DNext]_allVars PROVE [Forward]_vars
  <2> SUFFICES ASSUME ~UNCHANGED vars, NEW i \in Instances,
                      shown[i] # None, shown'[i] # None
               PROVE  shown[i].value <= shown'[i].value
    BY DEF Forward
  <2>0. DTypeOK /\ Ahead(i)
    BY <1>3 DEF AheadInv, DInv
  <2>1. shown[i].value \in Nat
    BY <2>0 DEF DTypeOK, OrNone, TargetRow, Values
  <2>2. CASE shown' = shown
    BY <2>1, <2>2
  <2>3. CASE CommitAll
    BY <2>0, <2>3 DEF CommitAll, Ahead
  <2>4. ASSUME NEW k \in Instances, Edit(k) \/ Remove(k)
        PROVE  shown[i].value <= shown'[i].value
    <3>1. shown' = Untracked(shown, k)
      BY <2>4 DEF Edit, Remove
    <3>2. shown \in [Instances -> OrNone(TargetRow)]
      BY <2>0 DEF DTypeOK
    <3>3. Untracked(shown, k)[i].value = shown[i].value
      BY <3>2, UntrackedRows
    <3> QED BY <2>1, <3>1, <3>3
  <2>5. CASE DWorld
    <3>1. (\E k \in Instances : Edit(k) \/ Remove(k)) \/ shown' = shown
      BY <2>5 DEF DWorld, UserStep, ReportPart, ChangeReadiness, ChangeMaster, dbVars, vars
    <3> QED BY <2>2, <2>4, <3>1
  <2>6. CASE DBuilder /\ ~CommitAll
    <3>1. CASE \E k \in Instances : InstanceStep(k)
      BY <2>2, <3>1, StepShowsNothing
    <3>2. CASE FetchVector \/ FetchOutdatedInstances \/ FetchOutdatedFails
               \/ FetchOutdatedMasters \/ RollbackAll
      BY <2>2, <3>2 DEF FetchVector, FetchNew, FetchDeleted, FetchUpdated, Fetch,
                        FetchOutdatedInstances, FetchOutdatedFails, FetchOutdatedParts,
                        FetchOutdatedMasters, RollbackAll, Rollback, dbVars
    <3> QED BY <2>6, <3>1, <3>2 DEF DBuilder
  <2> QED BY <1>3, <2>3, <2>5, <2>6 DEF DNext, allVars, vars
<1> QED BY <1>1, <1>2, <1>3, PTL DEF DSpec, BuildsForward, Forward

=============================================================================
