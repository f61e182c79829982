---------------------------- MODULE MCHistogram ----------------------------
(* Two histograms of a six-bit word with four slots in the first bucket: the *)
(* samples sit on both sides of every slot and bucket boundary up to 15, of   *)
(* the two smaller ceilings, and past the largest.                            *)
EXTENDS Histogram, TLC

CONSTANTS h1, h2

MCHistograms == {h1, h2}
MCHighests == {0, 9, 31}
MCValues == {0, 3, 4, 5, 7, 8, 9, 10, 31, 32}
Symmetry == Permutations(MCHistograms)
=============================================================================
