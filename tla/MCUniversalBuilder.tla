------------------------- MODULE MCUniversalBuilder -------------------------
EXTENDS UniversalBuilder

CONSTANTS i1, i2

Two == {i1, i2}
=============================================================================
