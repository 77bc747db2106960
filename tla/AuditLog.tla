------------------------------ MODULE AuditLog ------------------------------
(***************************************************************************)
(* What the audit outbox promises.  Changes of resources are recorded;     *)
(* every recorded event reaches the central Audit once, after the earlier  *)
(* events of its resource, unless an operator waives it.                   *)
(***************************************************************************)
EXTENDS Naturals

CONSTANT Events     \* records of a creation time and a resource

VARIABLES
    recorded,   \* events of committed changes
    delivered,  \* events the central Audit has
    waived      \* events an operator gave up

vars == <<recorded, delivered, waived>>

Init == recorded = {} /\ delivered = {} /\ waived = {}

Settled == delivered \cup waived

Earlier(e) == {f \in Events : f.at < e.at /\ f.res = e.res}

\* A transaction commits: its events are later than those recorded of the
\* same resources.
Record(S) ==
    /\ S # {} /\ S \cap recorded = {}
    /\ \A e \in S : \A f \in recorded : e \notin Earlier(f)
    /\ recorded' = recorded \cup S
    /\ UNCHANGED <<delivered, waived>>

Deliver(e) ==
    /\ e \in recorded \ Settled
    /\ recorded \cap Earlier(e) \subseteq Settled
    /\ delivered' = delivered \cup {e}
    /\ UNCHANGED <<recorded, waived>>

Waive(e) ==
    /\ e \in recorded \ Settled
    /\ waived' = waived \cup {e}
    /\ UNCHANGED <<recorded, delivered>>

Next ==
    \/ \E S \in SUBSET Events : Record(S)
    \/ \E e \in Events : Deliver(e) \/ Waive(e)

Spec == Init /\ [][Next]_vars

\* Of each resource, the central Audit has the events up to some time, but
\* for those waived.
InOrder == \A e \in delivered : recorded \cap Earlier(e) \subseteq Settled

=============================================================================
