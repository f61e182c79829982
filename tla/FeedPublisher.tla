---------------------------- MODULE FeedPublisher ----------------------------
(***************************************************************************)
(* FeedPublisher (crates/matching-engine/src/feed.rs): the datagram being  *)
(* filled, its sequence numbers and what flush hands to the arms.  The     *)
(* publisher is the value f; out is what has been sent since the caller    *)
(* last looked, incremental datagrams and snapshot fragments in order.     *)
(* The snapshots are in EngineFeed.                                        *)
(***************************************************************************)
EXTENDS BookSet

CONSTANTS
  batch_size,       \* messages per datagram
  Room,             \* what fits in max_datagram_bytes, in units of message size
  Size              \* the size of a message, by kind

NewFeed == [buf |-> <<>>, first_seq |-> 1, next_seq |-> 1, out |-> <<>>]

last_sequence(f) == f.next_seq - 1

\* The bytes written into the datagram so far.
Filled(f) == FoldFunction(LAMBDA m, n : n + Size[m.kind], 0, f.buf)

flush(f) ==
  IF f.buf = <<>> THEN f
  ELSE [f EXCEPT !.out = Append(@, [first_seq |-> f.first_seq, msgs |-> f.buf]),
                 !.buf = <<>>,
                 !.first_seq = f.next_seq]

\* The datagram a message goes into: a full batch, or one without room for it,
\* is sent first.
MakeRoom(f, m) ==
  IF Len(f.buf) >= batch_size \/ Filled(f) + Size[m.kind] > Room THEN flush(f) ELSE f

emit(f, m) == [MakeRoom(f, m) EXCEPT !.buf = Append(@, m), !.next_seq = @ + 1]

\* add_order, modify_order, delete_order and trade: each emits its own message.
announce(f, m) == emit(f, m)

heartbeat(f) == emit(f, [kind |-> "Heartbeat", symbol |-> 0, last |-> last_sequence(f)])

------------------------------------------------------------------------------
Arms == {"A", "B"}

\* DropMode, and no injected loss at all.
DropModes == {"off", "independent", "exclusive", "correlated"}

\* Mutant of drop_arms: exclusive loss flips a coin for each arm.
drop_arms_Independently(mode) ==
  CASE mode = "off" -> {{}}
    [] mode = "correlated" -> {{}, Arms}
    [] OTHER -> SUBSET Arms

\* The sets of arms the loss injector may withhold one incremental datagram from.
drop_arms(mode) ==
  CASE mode = "off" -> {{}}
    [] mode = "independent" -> SUBSET Arms
    [] mode = "exclusive" -> {{}, {"A"}, {"B"}}
    [] mode = "correlated" -> {{}, Arms}

=============================================================================
