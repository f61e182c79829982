---------------------------- MODULE MCFixSession ----------------------------
(***************************************************************************)
(* FixSession for TLC: two application messages one way and one the other, *)
(* so that order and loss in both directions are in play.                  *)
(***************************************************************************)
EXTENDS FixSession

TwoAndOne == [I |-> 2, A |-> 1]
OneEach == [I |-> 1, A |-> 1]

=============================================================================
