------------------------- MODULE EventSenderProofs -------------------------
(* Proofs that the event sender loses no event and sends none again that   *)
(* the notification service has not lost.                                  *)
EXTENDS EventSender, TLAPS

(* What the notification service has had, is done with and has lost.       *)
Records == \A e \in Events :
    /\ record[e] # None => e \in known
    /\ record[e] = "ACTIVE" => e \in notified
    /\ e \in known /\ record[e] = None => e \in forgotten

(* What is fetched has the status it was fetched by until it is saved.     *)
BatchOK ==
    /\ cur \notin batch
    /\ \A e \in batch \union ({cur} \ {None}) :
        /\ pc # "idle"
        /\ pc = "send" => row[e] = "NEW"
        /\ pc = "poll" => row[e] = "IN_PROGRESS"

(* What is about to be saved is as true as what is in the rows.            *)
StatusOK == cur # None =>
    /\ status = "ACTIVE" => cur \in notified
    /\ status = "IN_PROGRESS" => cur \in known
    /\ pc = "poll" /\ status = "NEW" => cur \in forgotten

IInv == TypeOK /\ NoneLost /\ Records /\ BatchOK /\ StatusOK

USE DEF Statuses

LEMMA InitIInv == Init => IInv
BY EventAssumption DEF Init, IInv, TypeOK, NoneLost, Records, BatchOK, StatusOK

LEMMA FetchedRows ==
    ASSUME NEW rows, NEW b \in Fetched(rows) PROVE b \subseteq rows
BY DEF Fetched

(* The steps of others change no row but an unused one, and none of the    *)
(* sender's variables; records are only added to.                          *)
LEMMA OthersStep ==
    ASSUME IInv, NEW e \in Events,
           SaveEvent(e) \/ Forget(e) \/ \E s \in {"ACTIVE", "ERROR"} : Process(e, s)
    PROVE  IInv'
<1> USE EventAssumption DEF IInv
<1>1. CASE SaveEvent(e)
  BY <1>1 DEF SaveEvent, remote, local, TypeOK, NoneLost, Records, BatchOK, StatusOK
<1>2. CASE Forget(e)
  BY <1>2 DEF Forget, local, TypeOK, NoneLost, Records, BatchOK, StatusOK
<1>3. ASSUME NEW s \in {"ACTIVE", "ERROR"}, Process(e, s) PROVE IInv'
  BY <1>3 DEF Process, local, TypeOK, NoneLost, Records, BatchOK, StatusOK
<1> QED BY <1>1, <1>2, <1>3

(* Posting, whether it arrives, is refused or is lost. *)
LEMMA SendStep ==
    ASSUME IInv, NEW e \in Events, SendEvent(e) \/ SendRefused(e) \/ SendFails(e)
    PROVE  IInv'
<1> USE EventAssumption DEF IInv
<1>1. row[e] = "NEW" /\ e # None
  BY DEF SendEvent, SendRefused, SendFails, Take, BatchOK
<1>2. CASE SendEvent(e)
  BY <1>1, <1>2 DEF SendEvent, Take, Accepted, TypeOK, NoneLost, Records, BatchOK, StatusOK
<1>3. CASE SendRefused(e)
  BY <1>1, <1>3 DEF SendRefused, Take, remote, TypeOK, NoneLost, Records, BatchOK, StatusOK
<1>4. CASE SendFails(e)
  BY <1>1, <1>4 DEF SendFails, Fault, Take, Accepted, remote,
     TypeOK, NoneLost, Records, BatchOK, StatusOK
<1> QED BY <1>2, <1>3, <1>4

(* Asking: NEW is the answer only for a record that was had and lost. *)
LEMMA PollStep ==
    ASSUME IInv, NEW e \in Events, GetEventStatus(e)
    PROVE  IInv'
<1> USE EventAssumption DEF IInv
<1>1. row[e] = "IN_PROGRESS" /\ e \in known /\ e # None
  BY DEF GetEventStatus, Take, BatchOK, NoneLost
<1>2. StatusOf(e) \in Statuses
  BY DEF StatusOf
<1> QED BY <1>1, <1>2
  DEF GetEventStatus, Take, StatusOf, remote, TypeOK, NoneLost, Records, BatchOK, StatusOK

LEMMA SaveStep ==
    ASSUME IInv, Save
    PROVE  IInv'
<1> USE EventAssumption DEF IInv
<1>1. cur \in Events
  BY DEF Save, TypeOK
<1>2. (TypeOK /\ Records /\ StatusOK)'
  BY <1>1 DEF Save, remote, TypeOK, Records, StatusOK
<1>3. NoneLost'
  BY <1>1 DEF Save, remote, TypeOK, NoneLost, StatusOK
<1>4. BatchOK'
  BY <1>1 DEF Save, remote, TypeOK, BatchOK, StatusOK
<1> QED BY <1>2, <1>3, <1>4

(* Fetching a batch, ending the iteration and giving it up. *)
LEMMA LoopStep ==
    ASSUME IInv, FetchNew \/ FetchInProgress \/ EndIteration \/ Abort
    PROVE  IInv'
<1> USE EventAssumption DEF IInv
<1>1. CASE FetchNew
  BY <1>1, FetchedRows DEF FetchNew, Rows, remote, TypeOK, NoneLost, Records, BatchOK, StatusOK
<1>2. CASE FetchInProgress
  BY <1>2, FetchedRows
  DEF FetchInProgress, Rows, remote, TypeOK, NoneLost, Records, BatchOK, StatusOK
<1>3. CASE EndIteration
  BY <1>3 DEF EndIteration, remote, TypeOK, NoneLost, Records, BatchOK, StatusOK
<1>4. CASE Abort
  BY <1>4 DEF Abort, Fault, remote, TypeOK, NoneLost, Records, BatchOK, StatusOK
<1> QED BY <1>1, <1>2, <1>3, <1>4

LEMMA StepIInv == IInv /\ [Next]_vars => IInv'
<1> SUFFICES ASSUME IInv, [Next]_vars PROVE IInv'
  OBVIOUS
<1>1. CASE UNCHANGED vars
  BY <1>1 DEF vars, remote, local, IInv, TypeOK, NoneLost, Records, BatchOK, StatusOK
<1>2. CASE Next
  BY <1>2, OthersStep, SendStep, PollStep, SaveStep, LoopStep DEF Next, Iteration
<1> QED BY <1>1, <1>2

LEMMA Invariance == Spec => []IInv
BY InitIInv, StepIInv, PTL DEF Spec

(* The rows and variables of senders.py keep their types. *)
THEOREM SenderTypeCorrect == Spec => []TypeOK
<1>1. IInv => TypeOK
  BY DEF IInv
<1> QED BY <1>1, Invariance, PTL

(* No event is lost between its row and the notification service, however  *)
(* many requests, answers and saves are (senders.py:50-78).                *)
THEOREM NoEventLost == Spec => []NoneLost
<1>1. IInv => NoneLost
  BY DEF IInv
<1> QED BY <1>1, Invariance, PTL

(* An event the sender waits for is sent again only if its record was lost *)
(* (senders.py:76-77).                                                     *)
THEOREM NeverSentAgain == Spec => BackOnlyIfForgotten
<1> DEFINE A == \A e \in Events : row[e] = "IN_PROGRESS" /\ row'[e] = "NEW" => e \in forgotten
<1>1. IInv /\ [Next]_vars => [A]_vars
  <2> SUFFICES ASSUME IInv, Next PROVE A
    OBVIOUS
  <2> USE EventAssumption DEF IInv
  <2>1. CASE Save
    BY <2>1 DEF Save, TypeOK, BatchOK, StatusOK
  <2>2. ASSUME NEW e \in Events, SaveEvent(e) PROVE A
    BY <2>2 DEF SaveEvent, TypeOK
  <2>3. CASE UNCHANGED row
    BY <2>3 DEF TypeOK
  <2>4. Save \/ UNCHANGED row \/ \E e \in Events : SaveEvent(e)
    BY DEF Next, Iteration, FetchNew, FetchInProgress, EndIteration, SendEvent, SendRefused,
       GetEventStatus, Abort, SendFails, Forget, Process
  <2> QED BY <2>1, <2>2, <2>3, <2>4
<1>2. Spec => [][Next]_vars
  BY PTL DEF Spec
<1> QED BY <1>1, <1>2, Invariance, PTL DEF BackOnlyIfForgotten
=============================================================================
