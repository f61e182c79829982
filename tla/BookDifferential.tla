-------------------------- MODULE BookDifferential --------------------------
(***************************************************************************)
(* The fast book and the reference book fed the same operations, as        *)
(* crates/book/tests/differential.rs feeds them: every message the feed    *)
(* handler applies (crates/book/src/apply.rs) is one of these operations   *)
(* on one symbol's book.  An operation the fast book refuses for want of   *)
(* room (slab, window, grid) is not applied to the reference, which has no *)
(* such limits.                                                            *)
(***************************************************************************)
EXTENDS MboBook

CONSTANTS Ids, Price, Quantity,   \* what an operation may name
          Confs                   \* the capacities a book is built with

VARIABLES fast,    \* the MboBook
          slow,    \* the ReferenceBook
          agree    \* whether both gave the same answer to every operation

vars == <<fast, slow, agree>>

Ref == INSTANCE ReferenceBook

CapacityErrors == {"SlabFull", "PriceOutOfRange", "PriceOffGrid"}

Init == /\ \E c \in Confs : fast = new(c)
        /\ slow = Ref!EmptyBook
        /\ agree = TRUE

\* The same answer, or the same refusal for the same reason.  Only a reduction to
\* zero of an order that is not there has two reasons, which the two books look
\* at in opposite orders.
SameAnswer(e, f) == e = f \/ <<e, f>> = <<"ZeroQuantity", "UnknownOrderId">>

\* One operation through both: r is the fast book's answer, s the reference's.
Both(r, s) ==
  /\ fast' = r.book
  /\ slow' = IF r.err \in CapacityErrors THEN slow ELSE s.book
  /\ agree' = (agree /\ (r.err \in CapacityErrors \/ SameAnswer(r.err, s.err)))

Add(id, side, p, q) == Both(add(fast, id, side, p, q), Ref!add(slow, id, side, p, q))
Delete(id) == Both(delete(fast, id), Ref!delete(slow, id))
Reduce(id, q) == Both(reduce(fast, id, q), Ref!reduce(slow, id, q))
Replace(id, p, q) == Both(replace(fast, id, p, q), Ref!replace(slow, id, p, q))
Clear == Both(Ok(clear(fast)), Ref!Ok(Ref!clear(slow)))

Next == \/ \E id \in Ids, s \in Sides, p \in Price, q \in Quantity : Add(id, s, p, q)
        \/ \E id \in Ids : Delete(id)
        \/ \E id \in Ids, q \in Quantity : Reduce(id, q)
        \/ \E id \in Ids, p \in Price, q \in Quantity : Replace(id, p, q)
        \/ Clear

Spec == Init /\ [][Next]_vars

------------------------------------------------------------------------------

\* MboBook::check_invariants holds after every operation, a refused one
\* included: no order of slab reuse, backward-shift deletion and window slides
\* leaves the slab, the map, the queues, the counts and the cached touch
\* disagreeing.
InvariantsHold == check_invariants(fast) /\ Ref!check_invariants(slow)

\* Whatever was done, the two books hold the same orders in the same queues and
\* answer every read (get, front, level_count, for_each_level at any depth,
\* for_each_order) alike, and each operation was refused by both, for the same
\* reason, or by neither, unless the fast book was out of room.
BooksAgree ==
  /\ agree
  /\ \A id \in Ids : get(fast, id) = IF Ref!IsLive(slow, id) THEN <<slow.orders[id]>> ELSE <<>>
  /\ \A s \in Sides :
       /\ front(fast, s) = Ref!front(slow, s)
       /\ for_each_order(fast, s) = Ref!orders_in_queue_order(slow, s)
       /\ \A depth \in 0 .. 2 :
            /\ level_count(fast, s, depth) = Ref!level_count(slow, s, depth)
            /\ for_each_level(fast, s, depth) = Ref!levels(slow, s, depth)

\* slot_for refuses a price on the grid exactly when no window of this capacity
\* holds it together with everything resting: tick.rs says a rebase "succeeds
\* whenever success is arithmetically possible", and it must never lose a level.
RefusesOnlyWhatCannotFit ==
  \A p \in Price :
    LET held == {price_at(fast.index, i) : i \in occupied_extent(fast)} \cup {p}
        wide == (Max(held) - Min(held)) \div fast.index.tick + 1 > fast.index.capacity
    IN  (p - fast.index.anchor) % fast.index.tick = 0 => (slot_for(fast, p).err # "") = wide

=============================================================================
