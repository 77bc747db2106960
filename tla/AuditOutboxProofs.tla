------------------------- MODULE AuditOutboxProofs -------------------------
(***************************************************************************)
(* Theorems about AuditOutbox, for any writers, resources, batch size and  *)
(* number of events.                                                       *)
(***************************************************************************)
EXTENDS AuditOutbox, FiniteSetTheorems, TLAPS

-----------------------------------------------------------------------------
(* The batch *)

LEMMA EventsFinite == IsFiniteSet(Events)
<1> DEFINE D == (1..MaxEvents) \X Resources
           F == [p \in D |-> [at |-> p[1], res |-> p[2]]]
<1>1. IsFiniteSet(1..MaxEvents)
  BY FS_Interval, OutboxAssumption
<1>2. IsFiniteSet(D)
  BY <1>1, FS_Product, OutboxAssumption
<1>3. F \in [D -> Events]
  BY DEF Events
<1>4. ASSUME NEW e \in Events PROVE \E p \in D : F[p] = e
  <2>1. <<e.at, e.res>> \in D
    BY DEF Events
  <2>2. F[<<e.at, e.res>>] = e
    BY <2>1 DEF Events
  <2> QED
    BY <2>1, <2>2
<1>5. F \in Surjection(D, Events)
  BY <1>3, <1>4 DEF Surjection
<1> QED
  BY <1>2, <1>5, FS_Surjection

\* LIMIT cuts the newest rows off: the batch has every row older than one of
\* its own.
LEMMA BatchClosed ==
    ASSUME NEW e \in OldestPending, NEW f \in Pending, f.at < e.at
    PROVE  f \in OldestPending
<1> DEFINE Below(g) == {h \in Pending : h.at < g.at}
<1>1. e \in Pending /\ Cardinality(Below(e)) < BatchSize
  BY DEF OldestPending
<1>2. Below(f) \subseteq Below(e)
  BY <1>1, OutboxAssumption DEF Pending, Events
<1>3. IsFiniteSet(Below(e))
  <2>1. Below(e) \in SUBSET Events
    BY DEF Pending
  <2> QED
    BY <2>1, EventsFinite, FS_Subset
<1>4. Cardinality(Below(f)) <= Cardinality(Below(e))
  BY <1>2, <1>3, FS_Subset
<1>5. IsFiniteSet(Below(f))
  BY <1>2, <1>3, FS_Subset
<1>6. Cardinality(Below(f)) \in Nat /\ Cardinality(Below(e)) \in Nat
  BY <1>3, <1>5, FS_CardinalityType
<1>7. Cardinality(Below(f)) < BatchSize
  BY <1>1, <1>4, <1>6, OutboxAssumption
<1> QED
  BY <1>7 DEF OldestPending

-----------------------------------------------------------------------------
(* The inductive invariant *)

\* Events are created at increasing times.
ClockInv == \A e \in Events : row[e] # "unused" => e.at <= clock

\* The lock of a resource: after an event of an open transaction there are no
\* events of the resource but those of that transaction.
LockInv ==
    \A e, f \in Events :
        row[f] = "open" /\ e.res = f.res /\ f.at < e.at
        => row[e] = "unused" \/ (row[e] = "open" /\ owner[e] = owner[f])

\* What the iteration knows of the rows it fetched.
SenderInv ==
    /\ \A e \in batch \ errors : row[e] = "NEW"
    /\ \A e \in errors : row[e] \in {"NEW", "ERROR", "dropped"}
    /\ acked # None => /\ acked \in (batch \ errors) \cap central
                       /\ \A f \in batch : acked.at <= f.at

\* The batch misses no earlier row of the resources it has.
BatchInv ==
    \A e \in batch : Pending \cap Log!Earlier(e) \subseteq batch

CentralInv == \A e \in central : row[e] \in {"NEW", "sent"}

Inv == /\ TypeOK /\ ClockInv /\ LockInv /\ SenderInv /\ BatchInv /\ CentralInv
       /\ NothingLost /\ InOrder

LEMMA InitInv == Init => Inv
  BY OutboxAssumption
     DEF Init, Inv, TypeOK, ClockInv, LockInv, SenderInv, BatchInv, CentralInv,
         NothingLost, InOrder, Log!InOrder, RowStates

\* An event the iteration may send has no earlier event of its resource that
\* waits.
LEMMA EarlierSettled ==
    ASSUME Inv, NEW e \in Events, Current(e)
    PROVE  Committed \cap Log!Earlier(e) \subseteq central \cup Dropped
<1> SUFFICES ASSUME NEW f \in Committed, f \in Log!Earlier(e)
             PROVE  f \in central \cup Dropped
  OBVIOUS
<1>1. f \notin batch
  BY OutboxAssumption DEF Current, Log!Earlier, Events
<1>2. f \notin Pending
  BY <1>1 DEF Inv, BatchInv, Current
<1> QED
  BY <1>2 DEF Committed, Pending, Dropped, Inv, NothingLost

LEMMA NextInv == Inv /\ [Next]_vars => Inv'
<1> SUFFICES ASSUME Inv, [Next]_vars PROVE Inv'
  OBVIOUS
<1> USE OutboxAssumption
<1>1. CASE UNCHANGED vars
  BY <1>1 DEF Inv, TypeOK, ClockInv, LockInv, SenderInv, BatchInv, CentralInv,
     NothingLost, InOrder, Log!InOrder, Log!Earlier, Log!Settled, Committed,
     Dropped, Pending, vars, writerVars, senderVars
<1>2. ASSUME NEW w \in Writers, NEW r \in Resources, Mutate(w, r) PROVE Inv'
  <2> DEFINE n == [at |-> clock', res |-> r]
  <2>1. /\ n \in Events /\ n.at = clock + 1 /\ n.res = r /\ clock' = clock + 1
        /\ clock \in Nat
    BY <1>2 DEF Mutate, Events, Inv, TypeOK
  <2>2. row[n] = "unused"
    BY <2>1 DEF Inv, ClockInv
  <2>3. \A e \in Events : e # n => row'[e] = row[e] /\ owner'[e] = owner[e]
    BY <1>2, <2>1 DEF Mutate, Inv, TypeOK
  <2>4. row'[n] = "open" /\ owner'[n] = w
    BY <1>2, <2>1 DEF Mutate, Inv, TypeOK
  <2>5. UNCHANGED <<central, batch, errors, acked, faultsLeft>>
    BY <1>2 DEF Mutate, senderVars
  <2>6. TypeOK'
    BY <1>2, <2>1, <2>5 DEF Mutate, Inv, TypeOK, RowStates
  <2>7. ClockInv'
    BY <2>1, <2>3 DEF Inv, ClockInv, Events
  <2>8. LockInv'
    <3> SUFFICES ASSUME NEW e \in Events, NEW f \in Events, row'[f] = "open",
                        e.res = f.res, f.at < e.at
                 PROVE  \/ row'[e] = "unused"
                        \/ row'[e] = "open" /\ owner'[e] = owner'[f]
      BY DEF LockInv
    <3>1. CASE f = n
      <4>1. e # n /\ row[e] = "unused"
        BY <2>1, <3>1 DEF Inv, ClockInv, Events
      <4> QED
        BY <2>3, <4>1
    <3>2. CASE f # n /\ e = n
      <4>1. owner[f] = w
        BY <1>2, <2>1, <2>3, <3>2 DEF Mutate
      <4> QED
        BY <2>3, <2>4, <3>2, <4>1
    <3>3. CASE f # n /\ e # n
      BY <2>3, <3>3 DEF Inv, LockInv
    <3> QED
      BY <3>1, <3>2, <3>3
  <2>9. Pending' = Pending /\ Committed' = Committed /\ Dropped' = Dropped
    BY <2>1, <2>2, <2>3, <2>4 DEF Pending, Committed, Dropped
  <2>10. \A e \in Events : row[e] # "unused" => row'[e] = row[e]
    BY <2>2, <2>3
  <2>11. SenderInv' /\ CentralInv'
    BY <2>5, <2>10 DEF Inv, TypeOK, SenderInv, CentralInv
  <2>12. BatchInv' /\ InOrder'
    BY <2>5, <2>9 DEF Inv, BatchInv, InOrder, Log!InOrder, Log!Settled
  <2>13. NothingLost'
    BY <2>3, <2>4, <2>5 DEF Inv, NothingLost
  <2> QED
    BY <2>6, <2>7, <2>8, <2>11, <2>12, <2>13 DEF Inv
<1>3. ASSUME NEW w \in Writers, Commit(w) \/ Rollback(w) PROVE Inv'
  <2>1. UNCHANGED <<clock, owner, central, batch, errors, acked, faultsLeft>>
    BY <1>3 DEF Commit, Rollback, EndTransaction, writerVars, senderVars
  <2>2. \A e \in Events : /\ row'[e] # row[e] => /\ row[e] = "open" /\ owner[e] = w
                                                /\ row'[e] \in {"NEW", "rolledback"}
                          /\ row[e] = "open" /\ owner[e] = w => row'[e] # "open"
    BY <1>3 DEF Commit, Rollback, EndTransaction, Open
  <2>3. TypeOK'
    BY <1>3, <2>1 DEF Commit, Rollback, EndTransaction, Inv, TypeOK, RowStates
  <2>4. ClockInv' /\ SenderInv' /\ CentralInv' /\ NothingLost'
    BY <2>1, <2>2 DEF Inv, TypeOK, ClockInv, SenderInv, CentralInv, NothingLost
  <2>5. LockInv'
    BY <2>1, <2>2 DEF Inv, LockInv
  <2>6. \A e \in Events : row[e] \notin {"unused", "open"} =>
          /\ Pending' \cap Log!Earlier(e) \subseteq Pending
          /\ Committed' \cap Log!Earlier(e) \subseteq Committed
    BY <2>2 DEF Inv, LockInv, Pending, Committed, Log!Earlier
  <2>7. BatchInv'
    BY <2>1, <2>6 DEF Inv, TypeOK, SenderInv, BatchInv
  <2>8. Dropped \subseteq Dropped'
    BY <2>2 DEF Dropped
  <2>9. InOrder'
    BY <2>1, <2>6, <2>8 DEF Inv, TypeOK, CentralInv, InOrder, Log!InOrder,
       Log!Settled
  <2> QED
    BY <2>3, <2>4, <2>5, <2>7, <2>9 DEF Inv
<1>4. CASE Fetch
  <2>1. BatchInv'
    BY <1>4, BatchClosed DEF Fetch, BatchInv, Log!Earlier, Pending, OldestPending
  <2>2. acked = None
    BY <1>4 DEF Fetch, Inv, TypeOK
  <2>3. OldestPending \subseteq Pending
    BY DEF OldestPending
  <2>4. SenderInv' /\ TypeOK'
    BY <1>4, <2>2, <2>3 DEF Fetch, Inv, SenderInv, TypeOK, Pending, writerVars
  <2> QED
    BY <1>4, <2>1, <2>4
       DEF Fetch, Inv, ClockInv, LockInv, CentralInv, NothingLost, InOrder,
           Log!InOrder, Log!Earlier, Log!Settled, Committed, Dropped, writerVars
<1>5. ASSUME NEW e \in Events, Send(e) \/ SendFails(e) PROVE Inv'
  <2>1. /\ Current(e) /\ e \notin errors
        /\ central' \in {central, central \cup {e}}
        /\ UNCHANGED <<clock, owner, row>>
    BY <1>5 DEF Send, SendFails, writerVars
  <2>2. /\ faultsLeft' \in 0..MaxFaults
        /\ \/ batch' = batch /\ errors' = errors /\ acked' = e /\ e \in central'
           \/ batch' = {} /\ errors' = {} /\ acked' = None
    BY <1>5 DEF Send, SendFails, Break, Fault, Inv, TypeOK
  <2>3. TypeOK' /\ ClockInv' /\ LockInv' /\ NothingLost'
    BY <2>1, <2>2 DEF Inv, TypeOK, ClockInv, LockInv, NothingLost, Current
  <2>4. SenderInv' /\ CentralInv'
    BY <2>1, <2>2 DEF Inv, SenderInv, CentralInv, Current
  <2>5. BatchInv'
    BY <2>1, <2>2 DEF Inv, BatchInv, Pending
  <2>6. InOrder'
    <3>1. Committed \cap Log!Earlier(e) \subseteq central \cup Dropped
      BY <2>1, EarlierSettled
    <3>2. Committed' = Committed /\ Dropped' = Dropped
      BY <2>1 DEF Committed, Dropped
    <3> QED
      BY <2>1, <3>1, <3>2 DEF Inv, InOrder, Log!InOrder, Log!Settled
  <2> QED
    BY <2>3, <2>4, <2>5, <2>6 DEF Inv
<1>6. CASE (\E e \in Events : StopAtError(e)) \/ Abort
  BY <1>6 DEF StopAtError, Abort, Break, Fault, Inv, TypeOK, ClockInv, LockInv,
     SenderInv, BatchInv, CentralInv, NothingLost, InOrder, Log!InOrder,
     Log!Earlier, Log!Settled, Committed, Dropped, writerVars
<1>7. ASSUME NEW e \in Events, Conflict(e) \/ Resolve(e) PROVE Inv'
  <2>1. UNCHANGED <<clock, owner, central>>
    BY <1>7 DEF Conflict, Resolve, writerVars
  <2>2. \/ UNCHANGED <<batch, errors, acked>>
        \/ batch' = {} /\ errors' = {} /\ acked' = None
    BY <1>7 DEF Conflict, Resolve, Break, senderVars
  <2>3. /\ row[e] \in {"NEW", "ERROR"} /\ e \notin central
        /\ row'[e] \in {"NEW", "ERROR", "dropped"}
        /\ row' = [row EXCEPT ![e] = row'[e]]
    BY <1>7 DEF Conflict, Resolve, Current, Inv, TypeOK, SenderInv, CentralInv
  <2>4. \A f \in Events : f # e => row'[f] = row[f]
    BY <2>3 DEF Inv, TypeOK
  <2>5. TypeOK'
    BY <1>7, <2>1, <2>2, <2>3 DEF Conflict, Resolve, Fault, Inv, TypeOK, RowStates
  <2>6. ClockInv' /\ LockInv' /\ CentralInv' /\ NothingLost'
    BY <2>1, <2>3, <2>4
       DEF Inv, TypeOK, ClockInv, LockInv, CentralInv, NothingLost
  <2>7. SenderInv'
    <3>1. CASE Conflict(e)
      BY <3>1 DEF Conflict, Break, SenderInv
    <3>2. CASE Resolve(e)
      <4>1. row[e] = "ERROR" /\ UNCHANGED <<batch, errors, acked>>
        BY <3>2 DEF Resolve, senderVars
      <4> QED
        BY <2>1, <2>3, <2>4, <4>1 DEF Inv, TypeOK, SenderInv
    <3> QED
      BY <1>7, <3>1, <3>2
  <2>8. Pending' \subseteq Pending /\ Committed' = Committed /\ Dropped \subseteq Dropped'
    BY <2>3, <2>4 DEF Pending, Committed, Dropped
  <2>9. BatchInv'
    BY <2>2, <2>8 DEF Inv, BatchInv
  <2>10. InOrder'
    BY <2>1, <2>8 DEF Inv, InOrder, Log!InOrder, Log!Settled
  <2> QED
    BY <2>5, <2>6, <2>7, <2>9, <2>10 DEF Inv
<1>8. CASE DeleteRow
  <2>1. /\ acked \in Events /\ acked \in batch \ errors /\ acked \in central
        /\ row[acked] = "NEW"
    BY <1>8 DEF DeleteRow, Inv, TypeOK, SenderInv
  <2>2. /\ row' = [row EXCEPT ![acked] = "sent"] /\ acked' = None
        /\ batch' = batch \ {acked}
        /\ UNCHANGED <<clock, owner, central, errors, faultsLeft>>
    BY <1>8 DEF DeleteRow, writerVars
  <2>3. \A f \in Events : f # acked => row'[f] = row[f]
    BY <2>2 DEF Inv, TypeOK
  <2>4. row'[acked] = "sent"
    BY <2>1, <2>2 DEF Inv, TypeOK
  <2>5. TypeOK'
    BY <2>1, <2>2 DEF Inv, TypeOK, RowStates
  <2>6. ClockInv' /\ LockInv' /\ CentralInv' /\ NothingLost'
    BY <2>1, <2>2, <2>3, <2>4
       DEF Inv, TypeOK, ClockInv, LockInv, CentralInv, NothingLost
  <2>7. SenderInv'
    BY <2>1, <2>2, <2>3 DEF Inv, TypeOK, SenderInv
  <2>8. /\ Pending' = Pending \ {acked} /\ Committed' = Committed
        /\ Dropped' = Dropped
    BY <2>1, <2>3, <2>4 DEF Pending, Committed, Dropped
  <2>9. BatchInv' /\ InOrder'
    BY <2>2, <2>8 DEF Inv, BatchInv, InOrder, Log!InOrder, Log!Settled
  <2> QED
    BY <2>5, <2>6, <2>7, <2>9 DEF Inv
<1> QED
  BY <1>1, <1>2, <1>3, <1>4, <1>5, <1>6, <1>7, <1>8
     DEF Next, Writing, Sender, Operating

-----------------------------------------------------------------------------
(* Theorems *)

LEMMA Invariance == Spec => []Inv
  BY InitInv, NextInv, PTL DEF Spec

\* Every variable of the outbox keeps its type: no step leaves the row of an
\* event, the batch or the event being sent in an undefined state.
THEOREM OutboxTypeCorrect == Spec => []TypeOK
  BY Invariance, PTL DEF Inv

\* The events of one resource arrive in the order of its changes.
THEOREM OrderPerResource == Spec => []InOrder
  BY Invariance, PTL DEF Inv

\* No committed event leaves the outbox undelivered.
THEOREM DeletedOnlyDelivered == Spec => []NothingLost
  BY Invariance, PTL DEF Inv

\* Every step of the outbox is a step of the log, or changes nothing of it.
THEOREM ImplementsLog == Spec => LogNext
<1> DEFINE mapped == <<Committed, central, Dropped>>
<1>1. Inv /\ [Next]_vars => [Log!Next]_mapped
  <2> SUFFICES ASSUME Inv, Next PROVE Log!Next \/ UNCHANGED mapped
    BY DEF vars, Committed, Dropped
  <2>1. ASSUME NEW w \in Writers, NEW r \in Resources, Mutate(w, r)
        PROVE  UNCHANGED mapped
    <3> DEFINE n == [at |-> clock', res |-> r]
    <3>1. n \in Events /\ row[n] = "unused"
      BY <2>1, OutboxAssumption DEF Mutate, Events, Inv, TypeOK, ClockInv
    <3>2. row' = [row EXCEPT ![n] = "open"] /\ central' = central
      BY <2>1 DEF Mutate
    <3> QED
      BY <3>1, <3>2 DEF Committed, Dropped, Inv, TypeOK
  <2>2. ASSUME NEW w \in Writers, Rollback(w) PROVE UNCHANGED mapped
    BY <2>2 DEF Rollback, EndTransaction, Open, Committed, Dropped
  <2>3. ASSUME NEW w \in Writers, Commit(w) PROVE Log!Next
    <3>1. /\ Open(w) # {} /\ Open(w) \cap Committed = {}
          /\ Committed' = Committed \cup Open(w)
          /\ UNCHANGED <<central, Dropped>>
      BY <2>3 DEF Commit, EndTransaction, Open, Committed, Dropped
    <3>2. \A e \in Open(w) : \A f \in Committed : e \notin Log!Earlier(f)
      BY DEF Open, Committed, Log!Earlier, Inv, LockInv
    <3>3. Open(w) \in SUBSET Events
      BY DEF Open
    <3>4. Log!Record(Open(w))
      BY <3>1, <3>2 DEF Log!Record
    <3> QED
      BY <3>3, <3>4 DEF Log!Next
  <2>4. ASSUME NEW e \in Events, Send(e) \/ SendFails(e)
        PROVE  Log!Next \/ UNCHANGED mapped
    <3>1. /\ Current(e) /\ e \notin errors /\ UNCHANGED <<Committed, Dropped>>
          /\ central' \in {central, central \cup {e}}
      BY <2>4 DEF Send, SendFails, Committed, Dropped
    <3>2. e \in Committed \ Dropped
      BY <3>1 DEF Current, Inv, SenderInv, Committed, Dropped
    <3>3. Committed \cap Log!Earlier(e) \subseteq central \cup Dropped
      BY <3>1, EarlierSettled
    <3>4. CASE central' = central \cup {e} /\ e \notin central
      BY <3>1, <3>2, <3>3, <3>4 DEF Log!Next, Log!Deliver, Log!Settled
    <3>5. CASE central' = central
      BY <3>1, <3>5
    <3> QED
      BY <3>1, <3>4, <3>5
  <2>5. ASSUME NEW e \in Events, Conflict(e) PROVE UNCHANGED mapped
    <3>1. row[e] = "NEW" /\ row' = [row EXCEPT ![e] = "ERROR"] /\ central' = central
      BY <2>5 DEF Conflict, Current, Inv, SenderInv
    <3> QED
      BY <3>1 DEF Committed, Dropped, Inv, TypeOK
  <2>6. CASE DeleteRow
    <3>1. /\ acked \in Events /\ row[acked] = "NEW" /\ central' = central
          /\ row' = [row EXCEPT ![acked] = "sent"]
      BY <2>6 DEF DeleteRow, Inv, TypeOK, SenderInv
    <3> QED
      BY <3>1 DEF Committed, Dropped, Inv, TypeOK
  <2>7. ASSUME NEW e \in Events, Resolve(e) PROVE Log!Next \/ UNCHANGED mapped
    <3>1. row[e] = "ERROR" /\ central' = central
      BY <2>7 DEF Resolve
    <3>2. CASE row' = [row EXCEPT ![e] = "NEW"]
      BY <3>1, <3>2 DEF Committed, Dropped, Inv, TypeOK
    <3>3. CASE row' = [row EXCEPT ![e] = "dropped"]
      <4>1. /\ Committed' = Committed /\ Dropped' = Dropped \cup {e}
            /\ e \in Committed \ Dropped /\ e \notin central
        BY <3>1, <3>3 DEF Committed, Dropped, Inv, TypeOK, CentralInv
      <4>2. Log!Waive(e)
        BY <3>1, <4>1 DEF Log!Waive, Log!Settled
      <4> QED
        BY <4>2 DEF Log!Next
    <3> QED
      BY <2>7, <3>2, <3>3 DEF Resolve
  <2>8. CASE Fetch \/ (\E e \in Events : StopAtError(e)) \/ Abort
    BY <2>8 DEF Fetch, StopAtError, Abort, Committed, Dropped
  <2> QED
    BY <2>1, <2>2, <2>3, <2>4, <2>5, <2>6, <2>7, <2>8
       DEF Next, Writing, Sender, Operating
<1> QED
  BY <1>1, Invariance, PTL DEF Spec, LogNext

=============================================================================
