--------------------------- MODULE MCLoadBalancer ---------------------------
\* Two LBs of a node, "a" with a route that may be a download, both catch-all.
EXTENDS LoadBalancer
CONSTANTS a, b, c1, c2, u1, u2

MCOrder == [l \in {a, b} |-> IF l = a THEN 1 ELSE 2]
MCCatchAll(c) == c = c1
V(c, u) == [conf |-> c, url |-> u]
MCWantedAs(l) == IF l = a THEN {V(c1, u1), V(c1, u2)} ELSE {V(c1, None), V(c2, None)}
MCFirstWant == [l \in {a, b} |-> IF l = a THEN V(c1, u1) ELSE None]
=============================================================================
