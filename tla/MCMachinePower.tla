--------------------------- MODULE MCMachinePower ---------------------------
(* MachinePower with two configurations, so that a recreation can happen. *)
EXTENDS MachinePower

CONSTANTS c1, c2

MCConfs == {c1, c2}
=============================================================================
