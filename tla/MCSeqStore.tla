----------------------------- MODULE MCSeqStore -----------------------------
(***************************************************************************)
(* SeqStore for TLC.  Once a power cut has taken away what an open had     *)
(* adopted nothing more is promised: the next open is still looked at, and *)
(* what follows it is not.                                                 *)
(***************************************************************************)
EXTENDS SeqStore

UntilTaken == trust = "Taken" => proc = "Down"

=============================================================================
