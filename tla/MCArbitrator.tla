---------------------------- MODULE MCArbitrator ----------------------------
(***************************************************************************)
(* A stream of seven messages in datagrams of one and two messages, a      *)
(* window of Capacity datagrams and one resynchronisation: long enough     *)
(* for a full window, a datagram inside the hole it forces, a gap declared *)
(* on a quiet feed with the window full, and a frontier moved back.        *)
(***************************************************************************)
EXTENDS Arbitrator

MCDatagrams ==
    { [first |-> 1, count |-> 1], [first |-> 2, count |-> 2],
      [first |-> 4, count |-> 1], [first |-> 5, count |-> 2],
      [first |-> 7, count |-> 1] }

=============================================================================
