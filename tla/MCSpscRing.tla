----------------------------- MODULE MCSpscRing -----------------------------
(***************************************************************************)
(* A ring of two slots that wraps around twice, two messages that can be   *)
(* told apart, and two kills: one on each side, or two on the same.        *)
(***************************************************************************)
EXTENDS SpscRing

=============================================================================
