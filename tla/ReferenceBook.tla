---------------------------- MODULE ReferenceBook ----------------------------
(***************************************************************************)
(* The obviously-correct book of crates/book/src/reference.rs as operators *)
(* on a value: the map of resting orders and, per side, a map from price   *)
(* to the queue of order ids resting there, oldest first.  A price with    *)
(* nothing resting is not in the map.  Every operation returns the book    *)
(* after it and the error it refused with ("" when it did not).            *)
(***************************************************************************)
EXTENDS Integers, Sequences, FiniteSets, FiniteSetsExt

Sides == {"Bid", "Ask"}

EmptyMap == [x \in {} |-> x]
EmptyBook == [orders |-> EmptyMap, levels |-> [s \in Sides |-> EmptyMap]]

Ok(b) == [book |-> b, err |-> ""]
Refuse(b, e) == [book |-> b, err |-> e]

IsLive(b, id) == id \in DOMAIN b.orders

push_back(levels, price, id) ==
  [p \in DOMAIN levels \cup {price} |->
     IF p # price THEN levels[p]
     ELSE IF price \in DOMAIN levels THEN Append(levels[price], id) ELSE <<id>>]

\* ReferenceBook::unlink: a level left empty is removed from the map.
unlink(levels, price, id) ==
  LET queue == levels[price]
      pos   == CHOOSE i \in DOMAIN queue : queue[i] = id
      left  == [i \in 1 .. Len(queue) - 1 |-> IF i < pos THEN queue[i] ELSE queue[i + 1]]
  IN  [p \in IF left = <<>> THEN DOMAIN levels \ {price} ELSE DOMAIN levels |->
         IF p = price THEN left ELSE levels[p]]

add(b, id, side, price, quantity) ==
  CASE quantity = 0 -> Refuse(b, "ZeroQuantity")
    [] quantity > 0 /\ IsLive(b, id) -> Refuse(b, "DuplicateOrderId")
    [] OTHER ->
         Ok([orders |-> [o \in DOMAIN b.orders \cup {id} |->
                           IF o = id THEN [side |-> side, price |-> price, quantity |-> quantity]
                           ELSE b.orders[o]],
             levels |-> [b.levels EXCEPT ![side] = push_back(@, price, id)]])

delete(b, id) ==
  IF ~IsLive(b, id) THEN Refuse(b, "UnknownOrderId")
  ELSE LET o == b.orders[id]
       IN  Ok([orders |-> [x \in DOMAIN b.orders \ {id} |-> b.orders[x]],
               levels |-> [b.levels EXCEPT ![o.side] = unlink(@, o.price, id)]])

reduce(b, id, new_quantity) ==
  CASE ~IsLive(b, id) -> Refuse(b, "UnknownOrderId")
    [] IsLive(b, id) /\ new_quantity = 0 -> Refuse(b, "ZeroQuantity")
    [] IsLive(b, id) /\ new_quantity > b.orders[id].quantity -> Refuse(b, "ReduceWouldIncrease")
    [] OTHER -> Ok([b EXCEPT !.orders[id].quantity = new_quantity])

replace(b, id, new_price, new_quantity) ==
  CASE new_quantity = 0 -> Refuse(b, "ZeroQuantity")
    [] new_quantity > 0 /\ ~IsLive(b, id) -> Refuse(b, "UnknownOrderId")
    [] OTHER ->
         LET o == b.orders[id]
         IN  Ok([orders |-> [b.orders EXCEPT ![id] = [side |-> o.side, price |-> new_price,
                                                      quantity |-> new_quantity]],
                 levels |-> [b.levels EXCEPT ![o.side] =
                               push_back(unlink(@, o.price, id), new_price, id)]])

clear(b) == EmptyBook

\* Whether price p is matched before price q on this side.
Better(side, p, q) == IF side = "Bid" THEN p > q ELSE p < q

\* The occupied prices of a side, best first: the direction every walk takes.
Prices(b, side) ==
  LET P == DOMAIN b.levels[side]
  IN  [i \in 1 .. Cardinality(P) |->
         CHOOSE p \in P : Cardinality({q \in P : Better(side, q, p)}) = i - 1]

\* ReferenceBook::front: <<price, id>> of the first order an aggressor meets,
\* or <<>>.
front(b, side) ==
  IF DOMAIN b.levels[side] = {} THEN <<>>
  ELSE LET p == Prices(b, side)[1] IN <<p, b.levels[side][p][1]>>

emit_level(b, side, price) ==
  LET q == b.levels[side][price]
  IN  [price |-> price, order_count |-> Len(q),
       quantity |-> FoldFunction(LAMBDA id, sum : b.orders[id].quantity + sum, 0, q)]

level_count(b, side, depth) ==
  LET n == Cardinality(DOMAIN b.levels[side])
  IN  IF depth = 0 THEN n ELSE Min({n, depth})

\* ReferenceBook::levels / for_each_level: aggregated, best first; depth 0 is
\* every level.
levels(b, side, depth) ==
  LET ps == Prices(b, side)
      n  == level_count(b, side, depth)
  IN  [i \in 1 .. n |-> emit_level(b, side, ps[i])]

\* Level by level, best first, and within a level oldest first.
orders_in_queue_order(b, side) ==
  LET ps  == Prices(b, side)
      walk[i \in 0 .. Len(ps)] == IF i = 0 THEN <<>> ELSE walk[i - 1] \o b.levels[side][ps[i]]
      ids == walk[Len(ps)]
  IN  [i \in 1 .. Len(ids) |-> [order_id |-> ids[i], side |-> b.orders[ids[i]].side,
                                price |-> b.orders[ids[i]].price,
                                quantity |-> b.orders[ids[i]].quantity]]

\* ReferenceBook::check_invariants: the map and the levels describe the same
\* orders, each filed once, at its own price and side, with a quantity.
check_invariants(b) ==
  /\ \A s \in Sides : \A p \in DOMAIN b.levels[s] :
       /\ b.levels[s][p] # <<>>
       /\ \A i \in DOMAIN b.levels[s][p] :
            LET id == b.levels[s][p][i]
            IN  /\ IsLive(b, id)
                /\ b.orders[id].price = p
                /\ b.orders[id].side = s
                /\ b.orders[id].quantity > 0
  /\ Cardinality(DOMAIN b.orders)
       = Len(orders_in_queue_order(b, "Bid")) + Len(orders_in_queue_order(b, "Ask"))

=============================================================================
