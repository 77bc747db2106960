---------------------------- MODULE EventSender ----------------------------
(***************************************************************************)
(* EventSenderService: rows of gcl_sdk_events are posted to the            *)
(* notification service and then asked for until they are ACTIVE there.    *)
(*                                                                         *)
(* Every save is a transaction of its own.  The post and the save of the   *)
(* row are two steps, and so are the question and the save of its answer:  *)
(* requests may get lost on their way, answers on their way back, and the  *)
(* sender may die or lose the database in between.                         *)
(*                                                                         *)
(* The notification service is external.  The uuid of an event is the uuid *)
(* of its record there, so a second post of a record it has is refused; it *)
(* may forget a record, which is why the code knows EventNotFound.         *)
(***************************************************************************)
EXTENDS Naturals, FiniteSets

CONSTANTS
    Events,      \* events that are going to be created
    Limit,       \* butch_size: rows a query returns
    None,
    MaxFaults,   \* bound: failed calls and saves, crashes
    MaxForgets   \* bound: records the notification service forgets

Statuses == {"NEW", "IN_PROGRESS", "ERROR", "ACTIVE"}

ASSUME EventAssumption ==
    /\ IsFiniteSet(Events)
    /\ None \notin Events \union Statuses
    /\ Limit \in Nat \ {0}
    /\ MaxFaults \in Nat
    /\ MaxForgets \in Nat

VARIABLES
    row,        \* status of each event's row, or "unused"
    record,     \* status of the record the notification service has, or None
    known,      \* history: events the notification service has ever had
    notified,   \* history: events it has ever been done with
    forgotten,  \* history: events whose record it has lost
    pc,         \* idle, send or poll
    batch,      \* rows fetched and not yet handled
    cur,        \* the event of the batch in hand, or None
    status,     \* event.status of the event in hand, not yet saved
    faultsLeft, forgetsLeft

remote == <<record, known, notified, forgotten>>
local == <<pc, batch, cur, status>>
vars == <<row, remote, local, faultsLeft, forgetsLeft>>

TypeOK ==
    /\ row \in [Events -> Statuses \union {"unused"}]
    /\ record \in [Events -> {"IN_PROGRESS", "ERROR", "ACTIVE", None}]
    /\ known \subseteq Events /\ notified \subseteq known /\ forgotten \subseteq known
    /\ pc \in {"idle", "send", "poll"}
    /\ batch \subseteq Events
    /\ cur \in Events \union {None}
    /\ status \in Statuses
    /\ faultsLeft \in 0..MaxFaults /\ forgetsLeft \in 0..MaxForgets

Init ==
    /\ row = [e \in Events |-> "unused"]
    /\ record = [e \in Events |-> None]
    /\ known = {} /\ notified = {} /\ forgotten = {}
    /\ pc = "idle" /\ batch = {} /\ cur = None /\ status = "NEW"
    /\ faultsLeft = MaxFaults /\ forgetsLeft = MaxForgets

Fault == faultsLeft > 0 /\ faultsLeft' = faultsLeft - 1

-----------------------------------------------------------------------------
(* The service of the SDK and the notification service *)

(* A client saves a new event, to be sent later. *)
SaveEvent(e) ==
    /\ row[e] = "unused"
    /\ row' = [row EXCEPT ![e] = "NEW"]
    /\ UNCHANGED <<remote, local, faultsLeft, forgetsLeft>>

Process(e, s) ==
    /\ record[e] = "IN_PROGRESS"
    /\ record' = [record EXCEPT ![e] = s]
    /\ notified' = IF s = "ACTIVE" THEN notified \union {e} ELSE notified
    /\ UNCHANGED <<row, known, forgotten, local, faultsLeft, forgetsLeft>>

Forget(e) ==
    /\ forgetsLeft > 0
    /\ record[e] # None
    /\ record' = [record EXCEPT ![e] = None]
    /\ forgotten' = forgotten \union {e}
    /\ forgetsLeft' = forgetsLeft - 1
    /\ UNCHANGED <<row, known, notified, local, faultsLeft>>

-----------------------------------------------------------------------------
(* The sender *)

Rows(s) == {e \in Events : row[e] = s}

(* What get_all with a limit and no order may return. *)
Fetched(rows) ==
    {b \in SUBSET rows : Cardinality(b) = Limit \/ (Cardinality(b) < Limit /\ b = rows)}

FetchNew ==
    /\ pc = "idle"
    /\ batch' \in Fetched(Rows("NEW"))
    /\ pc' = "send" /\ cur' = None
    /\ UNCHANGED <<row, remote, status, faultsLeft, forgetsLeft>>

Take(e) ==
    /\ cur = None /\ e \in batch
    /\ batch' = batch \ {e} /\ cur' = e /\ UNCHANGED pc

Accepted(e) ==
    /\ record[e] = None
    /\ record' = [record EXCEPT ![e] = "IN_PROGRESS"]
    /\ known' = known \union {e}
    /\ UNCHANGED <<notified, forgotten>>

SendEvent(e) ==
    /\ pc = "send" /\ Take(e)
    /\ Accepted(e)
    /\ status' = "IN_PROGRESS"
    /\ UNCHANGED <<row, faultsLeft, forgetsLeft>>

(* The post is refused, since the service has the record; it is logged. *)
SendRefused(e) ==
    /\ pc = "send" /\ Take(e)
    /\ record[e] # None
    /\ status' = row[e]
    /\ UNCHANGED <<row, remote, faultsLeft, forgetsLeft>>

\* (mutant) the status is set before the post.
SendFailsUnnoticed(e) ==
    /\ pc = "send" /\ Take(e)
    /\ Fault
    /\ Accepted(e) \/ UNCHANGED remote
    /\ status' = "IN_PROGRESS"
    /\ UNCHANGED <<row, forgetsLeft>>

(* The request or the answer is lost; it is logged. *)
SendFails(e) ==
    /\ pc = "send" /\ Take(e)
    /\ Fault
    /\ Accepted(e) \/ UNCHANGED remote
    /\ status' = row[e]
    /\ UNCHANGED <<row, forgetsLeft>>

FetchInProgress ==
    /\ pc = "send" /\ cur = None /\ batch = {}
    /\ batch' \in Fetched(Rows("IN_PROGRESS"))
    /\ pc' = "poll"
    /\ UNCHANGED <<row, remote, cur, status, faultsLeft, forgetsLeft>>

\* (mutant) what is not ACTIVE is sent again.
StatusOfActive(e) == IF record[e] = "ACTIVE" THEN "ACTIVE" ELSE "NEW"

\* (mutant) an event that is not found is waited for.
StatusOfWaiting(e) == IF record[e] = "ACTIVE" THEN "ACTIVE" ELSE "IN_PROGRESS"

(* The status in the row once the answer is known. *)
StatusOf(e) ==
    IF record[e] = None THEN "NEW"
    ELSE IF record[e] = "ACTIVE" THEN "ACTIVE" ELSE "IN_PROGRESS"

GetEventStatus(e) ==
    /\ pc = "poll" /\ Take(e)
    /\ status' = StatusOf(e)
    /\ UNCHANGED <<row, remote, faultsLeft, forgetsLeft>>

Save ==
    /\ cur # None
    /\ row' = [row EXCEPT ![cur] = status]
    /\ cur' = None
    /\ UNCHANGED <<remote, pc, batch, status, faultsLeft, forgetsLeft>>

EndIteration ==
    /\ pc = "poll" /\ cur = None /\ batch = {}
    /\ pc' = "idle"
    /\ UNCHANGED <<row, remote, batch, cur, status, faultsLeft, forgetsLeft>>

(* A question that fails other than by EventNotFound, a save that fails    *)
(* and a crash all end the iteration, and what is in hand is not saved.    *)
Abort ==
    /\ pc # "idle"
    /\ Fault
    /\ pc' = "idle" /\ batch' = {} /\ cur' = None
    /\ UNCHANGED <<row, remote, status, forgetsLeft>>

-----------------------------------------------------------------------------
Iteration ==
    \/ FetchNew \/ FetchInProgress \/ Save \/ EndIteration
    \/ \E e \in Events : SendEvent(e) \/ SendRefused(e) \/ GetEventStatus(e)

Next ==
    \/ Iteration
    \/ Abort
    \/ \E e \in Events :
        \/ SaveEvent(e) \/ SendFails(e) \/ Forget(e)
        \/ \E s \in {"ACTIVE", "ERROR"} : Process(e, s)

(* The looper iterates for ever; the notification service gets done with   *)
(* what it has.                                                            *)
Fairness ==
    /\ WF_vars(Iteration)
    /\ \A e \in Events : WF_vars(\E s \in {"ACTIVE", "ERROR"} : Process(e, s))

Spec == Init /\ [][Next]_vars /\ Fairness
-----------------------------------------------------------------------------
(* Properties *)

(* No event is lost: the service of the SDK stops caring for an event only *)
(* when its notification was made, and waits for an answer only about what *)
(* the notification service has had, whatever was lost, refused, forgotten *)
(* or cut short in between.                                                *)
NoneLost == \A e \in Events :
    /\ row[e] = "ACTIVE" => e \in notified
    /\ row[e] = "IN_PROGRESS" => e \in known

(* A user is not notified twice for nothing: an event that the sender has  *)
(* begun to wait for is posted again only if the notification service lost *)
(* the record of that very event.                                          *)
BackOnlyIfForgotten ==
    [][\A e \in Events :
        row[e] = "IN_PROGRESS" /\ row'[e] = "NEW" => e \in forgotten]_vars

(* Where an event may stay for ever: its post is refused, because an       *)
(* earlier one arrived and the row could not be told (a post that is       *)
(* accepted passes through this state until it is saved); or it ended in   *)
(* ERROR, which the sender asks for again and again.                       *)
Refused(e) == row[e] = "NEW" /\ record[e] # None
Failed(e) == row[e] = "IN_PROGRESS" /\ record[e] = "ERROR"

(* Such events stay in what a query finds; when they fill its limit, the   *)
(* other events it finds starve.                                           *)
Starved(e) ==
    \/ row[e] = "NEW" /\ Cardinality({f \in Events : Refused(f)}) >= Limit
    \/ row[e] = "IN_PROGRESS" /\ Cardinality({f \in Events : Failed(f)}) >= Limit

(* Every event ends up ACTIVE, whatever was lost, forgotten or cut short,  *)
(* unless it is refused, failed or starved from some time on for ever.     *)
EventsDelivered ==
    <>[](\A e \in Events :
            row[e] \in {"unused", "ACTIVE"} \/ Refused(e) \/ Failed(e) \/ Starved(e))
=============================================================================
