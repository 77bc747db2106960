------------------------ MODULE MCBuilderDerivatives ------------------------
EXTENDS BuilderDerivatives

CONSTANTS i1, i2, p1, p2

One == {i1}
TwoParts == {p1, p2}

\* The second part goes with the first edit or with the change of the master,
\* and comes back with the other; the third edit wants none until the master changes.
Needs(v, m) ==
    IF v = 3 /\ m = 0 THEN {} ELSE IF (v = 1) = (m = 0) THEN Parts ELSE {p1}
=============================================================================
