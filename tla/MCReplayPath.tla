---------------------------- MODULE MCReplayPath ----------------------------
(***************************************************************************)
(* Four datagrams of one and two messages through a queue of one and two   *)
(* connections, into a store of two slots: it wraps, evicts, starts over   *)
(* at a hole, and meets datagrams of an earlier connection late.           *)
(***************************************************************************)
EXTENDS ReplayPath

MCStream ==
    << [first |-> 1, count |-> 1], [first |-> 2, count |-> 2], [first |-> 4, count |-> 1],
       [first |-> 5, count |-> 2] >>

MCRanges == {<<2, 4>>, <<3, 5>>, <<4, 9>>}

=============================================================================
