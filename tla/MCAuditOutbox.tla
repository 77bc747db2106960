--------------------------- MODULE MCAuditOutbox ---------------------------
EXTENDS AuditOutbox

CONSTANTS w1, w2, ra, rb

SomeWriters == {w1, w2}
SomeResources == {ra, rb}
=============================================================================
