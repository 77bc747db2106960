-------------------------- MODULE MCUniversalAgent --------------------------
(***************************************************************************)
(* Instances of UniversalAgent for TLC: one managed resource and one fact, *)
(* each of a kind of its own, so that a kind may become empty; and two of  *)
(* a kind, so that one fails beside the other.                             *)
(***************************************************************************)
EXTENDS UniversalAgent, TLC

CONSTANTS c1, c2, f1, KC, KF

OneEachKind == (c1 :> KC) @@ (f1 :> KF)
TwoOfAKind  == (c1 :> KC) @@ (c2 :> KC)

=============================================================================
