---------------------------- MODULE AuditOutbox ----------------------------
(***************************************************************************)
(* The audit outbox: transactions that change resources and write their    *)
(* AuditDeliveryEvent rows, and the AuditSenderService that delivers them  *)
(* to the central Audit.                                                   *)
(*                                                                         *)
(* An event is the time it was created at (created_at) and the resource it *)
(* is about; the clock never gives a time twice.  A row is visible to the  *)
(* sender from the commit on, which may come long after created_at.        *)
(***************************************************************************)
EXTENDS Naturals, FiniteSets

CONSTANTS
    Writers,    \* sessions that change resources
    Resources,
    None,
    BatchSize,  \* rows the sender fetches per iteration
    MaxEvents,  \* bound: events created
    MaxFaults   \* bound: lost requests or answers, conflicts, crashes

ASSUME OutboxAssumption ==
    /\ IsFiniteSet(Resources)
    /\ BatchSize \in Nat \ {0}
    /\ MaxEvents \in Nat
    /\ MaxFaults \in Nat
    /\ None \notin Resources /\ None \notin Writers

Events == [at : 1..MaxEvents, res : Resources]

RowStates == {"unused", "open", "rolledback", "NEW", "ERROR", "sent", "dropped"}

VARIABLES
    clock,      \* created_at of the last event
    owner,      \* the session whose transaction an event is part of
    row,        \* the outbox row of each event
    central,    \* events the central Audit has
    batch,      \* rows the iteration fetched and did not process
    errors,     \* those of them fetched with status ERROR
    acked,      \* the event acknowledged and not yet deleted, or None
    faultsLeft

writerVars == <<clock, owner>>
senderVars == <<batch, errors, acked>>
vars == <<writerVars, row, central, senderVars, faultsLeft>>

Open(w) == {e \in Events : row[e] = "open" /\ owner[e] = w}
Pending == {e \in Events : row[e] \in {"NEW", "ERROR"}}

Init ==
    /\ clock = 0
    /\ owner = [e \in Events |-> None]
    /\ row = [e \in Events |-> "unused"]
    /\ central = {}
    /\ batch = {} /\ errors = {} /\ acked = None
    /\ faultsLeft = MaxFaults

Fault == faultsLeft > 0 /\ faultsLeft' = faultsLeft - 1

-----------------------------------------------------------------------------
(* Transactions of the service *)

\* (mutant) the event is created before the row of the resource is locked.
MutateUnlocked(w, r) ==
    /\ clock < MaxEvents
    /\ clock' = clock + 1
    /\ LET e == [at |-> clock', res |-> r]
       IN  /\ owner' = [owner EXCEPT ![e] = w]
           /\ row' = [row EXCEPT ![e] = "open"]
    /\ UNCHANGED <<central, senderVars, faultsLeft>>

\* insert, update (of a dirty model) or delete: the row of the resource is
\* written, and so locked until the end of the transaction, then the event.
Mutate(w, r) ==
    /\ clock < MaxEvents
    /\ \A e \in Events : row[e] = "open" /\ e.res = r => owner[e] = w
    /\ clock' = clock + 1
    /\ LET e == [at |-> clock', res |-> r]
       IN  /\ owner' = [owner EXCEPT ![e] = w]
           /\ row' = [row EXCEPT ![e] = "open"]
    /\ UNCHANGED <<central, senderVars, faultsLeft>>

\* The change and its events are committed, or rolled back, together.
EndTransaction(w, to) ==
    /\ Open(w) # {}
    /\ row' = [e \in Events |-> IF e \in Open(w) THEN to ELSE row[e]]
    /\ UNCHANGED <<writerVars, central, senderVars, faultsLeft>>

Commit(w)   == EndTransaction(w, "NEW")
Rollback(w) == EndTransaction(w, "rolledback")

-----------------------------------------------------------------------------
(* AuditSenderService *)

\* (mutant) only rows newer than what was delivered are looked at.
PendingBeyond == {e \in Pending : \A f \in central : f.at < e.at}

\* ORDER BY created_at, uuid LIMIT batch_size
OldestPending ==
    {e \in Pending : Cardinality({f \in Pending : f.at < e.at}) < BatchSize}

Fetch ==
    /\ batch = {}
    /\ batch' = OldestPending
    /\ errors' = {e \in batch' : row[e] = "ERROR"}
    /\ UNCHANGED <<writerVars, row, central, acked, faultsLeft>>

\* The event the loop is at.
Current(e) == e \in batch /\ acked = None /\ \A f \in batch : e.at <= f.at

Break == batch' = {} /\ errors' = {} /\ acked' = None

\* The delivery is blocked by a conflicting event.
StopAtError(e) ==
    /\ Current(e) /\ e \in errors
    /\ Break
    /\ UNCHANGED <<writerVars, row, central, faultsLeft>>

\* send_event returned: the central Audit has the event.
Send(e) ==
    /\ Current(e) /\ e \notin errors
    /\ central' = central \cup {e}
    /\ acked' = e
    /\ UNCHANGED <<writerVars, row, batch, errors, faultsLeft>>

\* (mutant) the row is deleted whether the event was acknowledged or not.
SendFailsForgets(e) ==
    /\ Current(e) /\ e \notin errors
    /\ \/ UNCHANGED central
       \/ central' = central \cup {e}
    /\ row' = [row EXCEPT ![e] = "sent"]
    /\ Break
    /\ Fault
    /\ UNCHANGED writerVars

\* send_event raised; the request may have arrived.
SendFails(e) ==
    /\ Current(e) /\ e \notin errors
    /\ \/ UNCHANGED central
       \/ central' = central \cup {e}
    /\ Break
    /\ Fault
    /\ UNCHANGED <<writerVars, row>>

\* ConflictError: the central Audit has the UUID with other content.  The row
\* is kept with status ERROR.
Conflict(e) ==
    /\ Current(e) /\ e \notin errors /\ e \notin central
    /\ row' = [row EXCEPT ![e] = "ERROR"]
    /\ Break
    /\ Fault
    /\ UNCHANGED <<writerVars, central>>

DeleteRow ==
    /\ acked # None
    /\ row' = [row EXCEPT ![acked] = "sent"]
    /\ batch' = batch \ {acked}
    /\ acked' = None
    /\ UNCHANGED <<writerVars, central, errors, faultsLeft>>

\* A write of the row fails, or the process dies: the iteration ends here.
Abort ==
    /\ batch # {}
    /\ Break
    /\ Fault
    /\ UNCHANGED <<writerVars, row, central>>

Sender ==
    \/ Fetch \/ DeleteRow \/ Abort
    \/ \E e \in Events : \/ StopAtError(e) \/ Send(e) \/ SendFails(e)
                         \/ Conflict(e)

-----------------------------------------------------------------------------
(* The operator resolves an ERROR row *)

Resolve(e) ==
    /\ row[e] = "ERROR"
    /\ \E to \in {"NEW", "dropped"} : row' = [row EXCEPT ![e] = to]
    /\ UNCHANGED <<writerVars, central, senderVars, faultsLeft>>

Writing ==
    \E w \in Writers : \/ Commit(w) \/ Rollback(w)
                       \/ \E r \in Resources : Mutate(w, r)

Operating == \E e \in Events : Resolve(e)

Next == Writing \/ Sender \/ Operating

\* The looper runs the sender for ever; operators and writers need not move.
Spec == Init /\ [][Next]_vars /\ WF_vars(Sender)

-----------------------------------------------------------------------------
(* Properties *)

\* Types of all variables.
TypeOK ==
    /\ clock \in 0..MaxEvents
    /\ owner \in [Events -> Writers \cup {None}]
    /\ row \in [Events -> RowStates]
    /\ central \subseteq Events
    /\ batch \subseteq Events /\ errors \subseteq batch
    /\ acked \in batch \cup {None}
    /\ faultsLeft \in 0..MaxFaults

\* A row leaves the outbox only when the central Audit has its event:
\* whatever answer is lost and wherever the sender dies, a committed event is
\* in the outbox, in the central Audit, or dropped by an operator.
NothingLost == \A e \in Events : row[e] = "sent" => e \in central

Committed == {e \in Events : row[e] \in {"NEW", "ERROR", "sent", "dropped"}}
Dropped   == {e \in Events : row[e] = "dropped"}

\* The outbox implements the log: in particular the events of one resource
\* arrive in the order of its changes, although transactions commit in
\* another order than they create events.
Log == INSTANCE AuditLog WITH
           recorded <- Committed, delivered <- central, waived <- Dropped
LogNext == [][Log!Next]_<<Committed, central, Dropped>>
InOrder == Log!InOrder

\* Every committed event is delivered, unless an older one is blocked: lost
\* answers, crashes and late commits leave no row behind.
Drains ==
    <>[](\A e \in Events :
           row[e] = "NEW" => \E f \in Events : f.at < e.at /\ row[f] = "ERROR")

=============================================================================
