---------------------------- MODULE BoundedFifo ----------------------------
(***************************************************************************)
(* What a ring promises its two ends: a queue of whole messages, taken in  *)
(* the order they were put, never more than Capacity of them.              *)
(***************************************************************************)
EXTENDS Integers, Sequences

CONSTANTS Messages, Capacity

VARIABLE queue

Init == queue = <<>>

Put(m) ==
    /\ Len(queue) < Capacity
    /\ queue' = Append(queue, m)

Take ==
    /\ queue # <<>>
    /\ queue' = Tail(queue)

Next == (\E m \in Messages : Put(m)) \/ Take

Spec == Init /\ [][Next]_queue

=============================================================================
