--------------------------- MODULE MCEventSender ---------------------------
(* A small instance of EventSender for TLC. *)
EXTENDS EventSender

CONSTANTS e1, e2, e3

=============================================================================
