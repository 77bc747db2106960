--------------------------- MODULE MCPoolVolumes ----------------------------
EXTENDS PoolVolumes

CONSTANTS root1, root2, data, m1, m2, fast, slow, scratch, twin

TwoMachines == {m1, m2}
ThreeVolumes == {root1, root2, data}
SomePools == {fast, slow, scratch, twin}
TwoSizes == {1, 2}

\* Two durable pools, one of each tier; an ephemeral one with more room, and
\* one whose name is not unique.
Attr(p) ==
    [tier |-> IF p = slow THEN "warm" ELSE "hot", ephemeral |-> p = scratch,
     unique |-> p # twin,
     capacity |-> IF p = fast THEN 4 ELSE IF p = slow THEN 1 ELSE 9]

Kind(v) == [tier |-> "hot", ephemeral |-> FALSE, root |-> v # data]

\* Each machine has its root volume, the second one may grow; the data volume
\* moves, grows and is pinned.
Wants(v) ==
    IF v = data THEN [size : {1}, machine : OrNone(Machines), pin : {None}]
                     \cup [size : {2}, machine : {m2}, pin : {None, slow}]
    ELSE IF v = root1 THEN [size : {1}, machine : {m1}, pin : {None}]
    ELSE [size : {1, 2}, machine : {m2}, pin : {None}]

\* Both machines are wanted, and the data volume for the first one.
Both == [v \in Volumes |-> [size |-> 1, machine |-> IF v = root2 THEN m2 ELSE m1,
                            pin |-> None]]
=============================================================================
