------------------------------- MODULE MboBook -------------------------------
(***************************************************************************)
(* The fast book (crates/book/src/mbo.rs): a slab of nodes with a free     *)
(* list threaded through it, an open-addressed id map with backward-shift  *)
(* deletion, two dense arrays of levels over a price window that rebases,  *)
(* intrusive queues per level, and cached touch and level counts.  The     *)
(* whole structure is the value b; every method is an operator from the    *)
(* value before it to the value after it and the error it returns.         *)
(*                                                                         *)
(* The hash of an order id is part of the configuration (`home'): nothing  *)
(* may depend on which one it is.                                          *)
(***************************************************************************)
EXTENDS TickIndex, Sequences, FiniteSets, FiniteSetsExt

CONSTANTS MinLevels, MinOrders    \* the floors MboBook::new puts under a capacity

Sides == {"Bid", "Ask"}
NIL == -1

Ok(x) == [book |-> x, err |-> ""]
Refuse(x, e) == [book |-> x, err |-> e]

EmptyNode == [order_id |-> 0, price |-> 0, quantity |-> 0, side |-> "Bid",
              slot |-> NIL, next |-> NIL, prev |-> NIL]
EmptyCell == [quantity |-> 0, orders |-> 0, head |-> NIL, tail |-> NIL]
EmptyEntry == [order_id |-> 0, node |-> NIL]

IsEmpty(cell) == cell.orders = 0

\* The smallest power of two that is at least n.
next_power_of_two(n) == Min({2^k : k \in {j \in 0 .. n : 2^j >= n}})

FreshNodes(n) == [i \in 0 .. n - 1 |->
                    [EmptyNode EXCEPT !.next = IF i + 1 < n THEN i + 1 ELSE NIL]]

new(c) ==
  LET nlevels == Higher(c.levels, MinLevels)
      norders == Higher(c.orders, MinOrders)
  IN  [home      |-> c.home,
       index     |-> centred_on(c.reference_price, c.tick, nlevels),
       cells     |-> [s \in Sides |-> [i \in 0 .. nlevels - 1 |-> EmptyCell]],
       nodes     |-> FreshNodes(norders),
       free_head |-> 0,
       map       |-> [i \in 0 .. next_power_of_two(norders * 4) - 1 |-> EmptyEntry],
       live      |-> 0,
       best      |-> [s \in Sides |-> NIL],
       levels    |-> [s \in Sides |-> 0]]

\* MboBook::clear: keeps the allocations and the window.
clear(x) ==
  [x EXCEPT !.cells = [s \in Sides |-> [i \in DOMAIN x.cells[s] |-> EmptyCell]],
            !.nodes = FreshNodes(Cardinality(DOMAIN x.nodes)),
            !.map = [i \in DOMAIN x.map |-> EmptyEntry],
            !.free_head = 0,
            !.live = 0,
            !.best = [s \in Sides |-> NIL],
            !.levels = [s \in Sides |-> 0]]

slot_of(x, price) == Higher(slot(x.index, price), NIL)

------------------------------------------------------------------------------
(* The order-id map.                                                       *)

MapLen(x) == Cardinality(DOMAIN x.map)
hash(x, id) == x.home[id] % MapLen(x)

\* MboBook::map_find: linear probing from the home slot to the id or to the
\* first free entry; NIL when it is not there.
map_find(x, id) ==
  LET at(k) == (hash(x, id) + k) % MapLen(x)
      stops == {k \in 0 .. MapLen(x) : \/ x.map[at(k)].node = NIL
                                       \/ x.map[at(k)].order_id = id}
  IN  IF stops = {} THEN NIL
      ELSE LET i == at(Min(stops)) IN IF x.map[i].node = NIL THEN NIL ELSE i

map_insert(x, id, node) ==
  LET at(k) == (hash(x, id) + k) % MapLen(x)
      k     == Min({j \in 0 .. MapLen(x) - 1 : x.map[at(j)].node = NIL})
  IN  [x EXCEPT !.map[at(k)] = [order_id |-> id, node |-> node]]

\* Mutant: the wrap-around of the table is forgotten.
Stays_NoWrap(home, hole, j) == home > hole /\ home <= j

\* Whether the entry at j, whose home is `home', must stay where it is when
\* `hole' has been emptied: its home lies cyclically inside (hole, j].
Stays(home, hole, j) ==
  IF hole <= j THEN home > hole /\ home <= j ELSE home > hole \/ home <= j

RECURSIVE close_chain(_, _, _)
close_chain(x, hole, last) ==
  LET j == (last + 1) % MapLen(x)
      e == x.map[j]
  IN  IF e.node = NIL THEN x
      ELSE IF Stays(hash(x, e.order_id), hole, j) THEN close_chain(x, hole, j)
      ELSE close_chain([x EXCEPT !.map[hole] = e, !.map[j] = EmptyEntry], j, j)

\* MboBook::map_remove_at: backward-shift deletion.
map_remove_at(x, hole) == close_chain([x EXCEPT !.map[hole] = EmptyEntry], hole, hole)

------------------------------------------------------------------------------
(* The window.                                                             *)

Occupied(x, i) == ~IsEmpty(x.cells["Bid"][i]) \/ ~IsEmpty(x.cells["Ask"][i])

\* MboBook::occupied_extent: the occupied slots over both sides; the code
\* returns the lowest and the highest.
occupied_extent(x) == {i \in 0 .. x.index.capacity - 1 : Occupied(x, i)}

ShiftCells(cells, shift) ==
  [i \in DOMAIN cells |-> IF i + shift \in DOMAIN cells THEN cells[i + shift] ELSE EmptyCell]

\* The book after rebase_for answered r: every level, node and cached touch
\* moves with the window.
Slid(x, r) ==
  LET moved(i) == IF i = NIL THEN NIL ELSE i - r.shift
  IN  IF ~r.fits THEN Refuse(x, "PriceOutOfRange")
      ELSE Ok([x EXCEPT !.cells = [s \in Sides |-> ShiftCells(@[s], r.shift)],
                        !.nodes = [n \in DOMAIN @ |-> [@[n] EXCEPT !.slot = moved(@)]],
                        !.best = [s \in Sides |-> moved(@[s])],
                        !.index = r.moved])

rebase(x, price) ==
  LET extent == occupied_extent(x)
  IN  Slid(x, IF extent = {} THEN rebase_for(x.index, price, FALSE, 0, 0)
              ELSE rebase_for(x.index, price, TRUE, price_at(x.index, Min(extent)),
                                                    price_at(x.index, Max(extent))))

\* MboBook::slot_for: the slot of the price, and the book with its window moved
\* if that was needed (r is then what rebase did).
SlotAfter(r, price) ==
  LET j == slot(r.book.index, price)
  IN  IF r.err # "" \/ j < 0 THEN [book |-> r.book, err |-> "PriceOutOfRange", slot |-> NIL]
      ELSE [book |-> r.book, err |-> "", slot |-> j]

slot_for(x, price) ==
  LET i == slot(x.index, price)
  IN  CASE i >= 0 -> [book |-> x, err |-> "", slot |-> i]
        [] i = OffGrid -> [book |-> x, err |-> "PriceOffGrid", slot |-> NIL]
        [] i = Outside -> SlotAfter(rebase(x, price), price)

------------------------------------------------------------------------------
(* The touch and the level counts, maintained incrementally.               *)

level_opened(x, side) == [x EXCEPT !.levels[side] = @ + 1]
level_closed(x, side) == [x EXCEPT !.levels[side] = @ - 1]

note_occupied(x, side, i) ==
  IF \/ x.best[side] = NIL
     \/ side = "Bid" /\ i > x.best[side]
     \/ side = "Ask" /\ i < x.best[side]
  THEN [x EXCEPT !.best[side] = i] ELSE x

\* MboBook::rescan_best: away from the touch, starting at the cached one.
rescan_best(x, side) ==
  LET top   == x.index.capacity - 1
      start == IF x.best[side] # NIL THEN x.best[side] ELSE IF side = "Bid" THEN top ELSE 0
      found == {i \in IF side = "Bid" THEN 0 .. start ELSE start .. top :
                  ~IsEmpty(x.cells[side][i])}
  IN  [x EXCEPT !.best[side] = IF found = {} THEN NIL
                               ELSE IF side = "Bid" THEN Max(found) ELSE Min(found)]

RescanIfEmptied(x, side, i, emptied) ==
  IF emptied /\ x.best[side] = i THEN rescan_best(x, side) ELSE x

------------------------------------------------------------------------------
(* The intrusive queue of a level, and the slab.                           *)

link_back(x, side, i, node) ==
  LET tail == x.cells[side][i].tail
  IN  IF tail = NIL
      THEN [x EXCEPT !.cells[side][i].head = node, !.cells[side][i].tail = node,
                     !.nodes[node].prev = NIL, !.nodes[node].next = NIL]
      ELSE [x EXCEPT !.cells[side][i].tail = node, !.nodes[tail].next = node,
                     !.nodes[node].prev = tail, !.nodes[node].next = NIL]

unlink(x, side, i, node) ==
  LET p == x.nodes[node].prev
      n == x.nodes[node].next
  IN  [x EXCEPT !.nodes = [k \in DOMAIN @ |->
                             CASE k = node -> [@[k] EXCEPT !.prev = NIL, !.next = NIL]
                               [] k = p /\ k # node -> [@[k] EXCEPT !.next = n]
                               [] k = n /\ k \notin {p, node} -> [@[k] EXCEPT !.prev = p]
                               [] OTHER -> @[k]],
                !.cells[side][i].head = IF @ = node THEN n ELSE @,
                !.cells[side][i].tail = IF @ = node THEN p ELSE @]

\* MboBook::give_node: back to the head of the free list, wiped.
give_node(x, node) ==
  [x EXCEPT !.nodes[node] = [EmptyNode EXCEPT !.next = x.free_head], !.free_head = node]

\* The level's totals when an order of this quantity joins or leaves it.
Joined(x, side, i, q) ==
  [x EXCEPT !.cells[side][i].quantity = @ + q, !.cells[side][i].orders = @ + 1]
Left(x, side, i, q) ==
  [x EXCEPT !.cells[side][i].quantity = @ - q, !.cells[side][i].orders = @ - 1]

\* link_back, the totals and level_opened, as add and replace do them.
File(x, side, i, node, q) ==
  LET y == Joined(link_back(x, side, i, node), side, i, q)
  IN  IF IsEmpty(x.cells[side][i]) THEN level_opened(y, side) ELSE y

------------------------------------------------------------------------------
(* The operations.                                                         *)

\* add once the price has been resolved to s.
AddAt(s, id, side, price, quantity) ==
  LET node == s.book.free_head
      y    == [s.book EXCEPT !.free_head = s.book.nodes[node].next,
                 !.nodes[node] = [order_id |-> id, price |-> price, quantity |-> quantity,
                                  side |-> side, slot |-> s.slot, next |-> NIL, prev |-> NIL],
                 !.live = @ + 1]
  IN  IF s.err # "" THEN Refuse(s.book, s.err)
      ELSE IF node = NIL THEN Refuse(s.book, "SlabFull")
      ELSE Ok(note_occupied(map_insert(File(y, side, s.slot, node, quantity), id, node),
                            side, s.slot))

add(x, id, side, price, quantity) ==
  IF quantity = 0 THEN Refuse(x, "ZeroQuantity")
  ELSE IF map_find(x, id) # NIL THEN Refuse(x, "DuplicateOrderId")
  ELSE AddAt(slot_for(x, price), id, side, price, quantity)

\* delete and replace take the order off its level first; n is the node as it was.
Detached(x, node, n) == Left(unlink(x, n.side, n.slot, node), n.side, n.slot, n.quantity)

\* The rest of delete, y being the book with the order detached.
Freed(y, at, node, n) ==
  LET emptied == IsEmpty(y.cells[n.side][n.slot])
      z       == [give_node(map_remove_at(y, at), node) EXCEPT !.live = @ - 1]
  IN  RescanIfEmptied(IF emptied THEN level_closed(z, n.side) ELSE z, n.side, n.slot, emptied)

delete(x, id) ==
  LET at   == map_find(x, id)
      node == x.map[at].node
  IN  IF at = NIL THEN Refuse(x, "UnknownOrderId")
      ELSE Ok(Freed(Detached(x, node, x.nodes[node]), at, node, x.nodes[node]))

reduce(x, id, new_quantity) ==
  LET at   == map_find(x, id)
      node == x.map[at].node
      n    == x.nodes[node]
  IN  IF new_quantity = 0 THEN Refuse(x, "ZeroQuantity")
      ELSE IF at = NIL THEN Refuse(x, "UnknownOrderId")
      ELSE IF new_quantity > n.quantity THEN Refuse(x, "ReduceWouldIncrease")
      ELSE Ok([x EXCEPT !.nodes[node].quantity = new_quantity,
                        !.cells[n.side][n.slot].quantity = @ - (n.quantity - new_quantity)])

\* Mutant: an order replaced at its own price keeps its place in the queue.
replace_KeepsPlace(x, id, new_price, new_quantity) ==
  LET at == map_find(x, id)
      n  == x.nodes[x.map[at].node]
  IN  IF new_quantity = 0 THEN Refuse(x, "ZeroQuantity")
      ELSE IF at = NIL THEN Refuse(x, "UnknownOrderId")
      ELSE IF new_price = n.price
           THEN Ok([x EXCEPT !.nodes[x.map[at].node].quantity = new_quantity,
                             !.cells[n.side][n.slot].quantity = @ - n.quantity + new_quantity])
      ELSE add(delete(x, id).book, id, n.side, new_price, new_quantity)

\* The rest of replace, y being the book with the order detached.
Refiled(y, i, node, n, price, quantity) ==
  LET emptied == IsEmpty(y.cells[n.side][n.slot])
      z       == [IF emptied THEN level_closed(y, n.side) ELSE y EXCEPT
                    !.nodes[node].price = price, !.nodes[node].quantity = quantity,
                    !.nodes[node].slot = i]
  IN  RescanIfEmptied(note_occupied(File(z, n.side, i, node, quantity), n.side, i),
                      n.side, n.slot, emptied)

\* replace once the new price has been resolved to s; n is read after that.
ReplaceAt(s, node, price, quantity) ==
  LET n == s.book.nodes[node]
  IN  IF s.err # "" THEN Refuse(s.book, s.err)
      ELSE Ok(Refiled(Detached(s.book, node, n), s.slot, node, n, price, quantity))

\* MboBook::replace: the destination is resolved, and the window perhaps
\* moved, before anything is detached; the old slot is read after that.
replace(x, id, new_price, new_quantity) ==
  LET at == map_find(x, id)
  IN  IF new_quantity = 0 THEN Refuse(x, "ZeroQuantity")
      ELSE IF at = NIL THEN Refuse(x, "UnknownOrderId")
      ELSE ReplaceAt(slot_for(x, new_price), x.map[at].node, new_price, new_quantity)

------------------------------------------------------------------------------
(* Reading it.                                                             *)

\* MboBook::get: <<the order>>, or <<>>.
get(x, id) ==
  LET at == map_find(x, id)
      n  == x.nodes[x.map[at].node]
  IN  IF at = NIL THEN <<>>
      ELSE <<[side |-> n.side, price |-> n.price, quantity |-> n.quantity]>>

front(x, side) ==
  LET i == x.best[side]
  IN  IF i = NIL THEN <<>>
      ELSE IF x.cells[side][i].head = NIL THEN <<>>
      ELSE <<price_at(x.index, i), x.nodes[x.cells[side][i].head].order_id>>

\* The slots a walk of a side visits, in its order: from the cached touch away.
WalkFrom(x, side) ==
  IF x.best[side] = NIL THEN <<>>
  ELSE IF side = "Bid" THEN [k \in 1 .. x.best[side] + 1 |-> x.best[side] + 1 - k]
  ELSE [k \in 1 .. x.index.capacity - x.best[side] |-> x.best[side] + k - 1]

level_count(x, side, depth) ==
  IF depth = 0 THEN x.levels[side] ELSE Lower(x.levels[side], depth)

for_each_level(x, side, depth) ==
  LET seen == SelectSeq(WalkFrom(x, side), LAMBDA i : ~IsEmpty(x.cells[side][i]))
      n    == IF depth = 0 THEN Len(seen) ELSE Lower(Len(seen), depth)
  IN  [k \in 1 .. n |-> [price |-> price_at(x.index, seen[k]),
                         order_count |-> x.cells[side][seen[k]].orders,
                         quantity |-> x.cells[side][seen[k]].quantity]]

\* The nodes of a queue from this one to its end; cut off, as check_invariants
\* does, when the list is longer than the slab.
RECURSIVE Queue(_, _, _)
Queue(x, node, bound) ==
  IF node = NIL \/ bound = 0 THEN <<>>
  ELSE <<node>> \o Queue(x, x.nodes[node].next, bound - 1)

QueueAt(x, side, i) == Queue(x, x.cells[side][i].head, Cardinality(DOMAIN x.nodes) + 1)

RECURSIVE QueuesOf(_, _, _)
QueuesOf(x, side, slots) ==
  IF slots = <<>> THEN <<>>
  ELSE QueueAt(x, side, Head(slots)) \o QueuesOf(x, side, Tail(slots))

for_each_order(x, side) ==
  LET nodes == QueuesOf(x, side, WalkFrom(x, side))
  IN  [k \in 1 .. Len(nodes) |->
         [order_id |-> x.nodes[nodes[k]].order_id, side |-> x.nodes[nodes[k]].side,
          price |-> x.nodes[nodes[k]].price, quantity |-> x.nodes[nodes[k]].quantity]]

\* MboBook::check_invariants: the slab, the map, the level lists and the caches
\* agree with one another.
check_invariants(x) ==
  LET all == [s \in Sides |-> [i \in DOMAIN x.cells[s] |-> QueueAt(x, s, i)]]
      total(q) == MapThenSumSet(LAMBDA k : x.nodes[q[k]].quantity, DOMAIN q)
      full(s) == {i \in DOMAIN x.cells[s] : ~IsEmpty(x.cells[s][i])}
      held(s) == MapThenSumSet(LAMBDA i : Len(all[s][i]), DOMAIN all[s])
  IN  /\ \A s \in Sides : \A i \in DOMAIN x.cells[s] :
           LET q == all[s][i]
           IN  /\ \A k \in DOMAIN q :
                    /\ x.nodes[q[k]].slot = i
                    /\ x.nodes[q[k]].side = s
                    /\ x.nodes[q[k]].prev = IF k = 1 THEN NIL ELSE q[k - 1]
                    /\ x.nodes[q[k]].quantity > 0
                    /\ get(x, x.nodes[q[k]].order_id) # <<>>
               /\ Len(q) <= Cardinality(DOMAIN x.nodes)
               /\ x.cells[s][i].tail = IF q = <<>> THEN NIL ELSE q[Len(q)]
               /\ x.cells[s][i].orders = Len(q)
               /\ x.cells[s][i].quantity = total(q)
      /\ \A s \in Sides : Cardinality(full(s)) = level_count(x, s, 0)
      /\ held("Bid") + held("Ask") = x.live
      /\ x.best["Bid"] = IF full("Bid") = {} THEN NIL ELSE Max(full("Bid"))
      /\ x.best["Ask"] = IF full("Ask") = {} THEN NIL ELSE Min(full("Ask"))
      /\ Cardinality({i \in DOMAIN x.map : x.map[i].node # NIL}) = x.live

=============================================================================
