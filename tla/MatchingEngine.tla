--------------------------- MODULE MatchingEngine ---------------------------
(***************************************************************************)
(* The matching engine (crates/matching-engine/src/engine.rs): price-time  *)
(* matching over the reference books, every change published as it is      *)
(* made.  The engine is the value e, with the publisher it writes to in    *)
(* e.feed and the checkpoints its caller takes in e.digests.               *)
(***************************************************************************)
EXTENDS FeedPublisher

CONSTANTS
  MaxPassiveFills,   \* MAX_PASSIVE_FILLS
  digest_interval,
  DigestDepth        \* DIGEST_DEPTH

\* Engine::new; live is a set, its order only feeds a random pick.
NewEngine(symbols, reference_price) ==
  [books |-> EmptyMap,
   live |-> [s \in symbols |-> {}], mid |-> [s \in symbols |-> reference_price],
   next_order_id |-> 1, next_trade_id |-> 1,
   watched |-> {}, passive_fills |-> <<>>, passive_fills_dropped |-> 0,
   feed |-> NewFeed, digests |-> EmptyMap, failed |-> ""]

\* Called once for each of ids.
watch_order(e, ids) == [e EXCEPT !.watched = @ \cup ids]
unwatch_order(e, ids) == [e EXCEPT !.watched = @ \ ids]

opposite(side) == IF side = "Bid" THEN "Ask" ELSE "Bid"

get(e, symbol, id) ==
  LET b == book_of(e.books, symbol) IN IF IsLive(b, id) THEN <<b.orders[id]>> ELSE <<>>

\* Engine::publish: the change is made to the book (r is the book's answer) and
\* announced; a change the book refuses is not announced and ends the engine.
Published(e, m, r) ==
  IF r.err # "" THEN [e EXCEPT !.failed = r.err]
  ELSE [e EXCEPT !.books = with_book(@, m.symbol, r.book), !.feed = announce(@, m)]

publish(e, m) ==
  LET b == book_of(e.books, m.symbol)
  IN  Published(e, m, CASE m.kind = "Add" -> add(b, m.order_id, m.side, m.price, m.quantity)
                        [] m.kind = "Reduce" -> reduce(b, m.order_id, m.quantity)
                        [] m.kind = "Replace" -> replace(b, m.order_id, m.price, m.quantity)
                        [] m.kind = "Delete" -> delete(b, m.order_id)
                        [] m.kind = "Trade" -> Ok(b))

\* The caller's on_sequence: the engine's run loop takes a checkpoint every
\* digest_interval messages, the order path takes none.
on_sequence(e, checkpoints) ==
  LET seq == last_sequence(e.feed)
  IN  IF checkpoints /\ seq % digest_interval = 0
      THEN [e EXCEPT !.digests = [n \in DOMAIN @ \cup {seq} |->
              IF n = seq THEN digest_of(e.books, DigestDepth) ELSE e.digests[n]]]
      ELSE e

Announce(e, m, checkpoints) == on_sequence(publish(e, m), checkpoints)

remove_live(e, symbol, id) == [e EXCEPT !.live[symbol] = @ \ {id}]

------------------------------------------------------------------------------
\* Mutant of crosses: equal prices do not trade.
crosses_Strictly(side, price, best_price) == Better(side, price, best_price)

crosses(side, price, best_price) == ~Better(side, best_price, price)

\* A fill of a watched resting order is kept for whoever watches, or counted.
RecordPassiveFill(e, fill) ==
  IF fill.resting_order_id \notin e.watched THEN e
  ELSE IF Len(e.passive_fills) < MaxPassiveFills
  THEN [e EXCEPT !.passive_fills = Append(@, fill)]
  ELSE [e EXCEPT !.passive_fills_dropped = @ + 1]

\* One turn of the matching loop: o, an order with something left, takes what it
\* can from `resting', the order id at the front of the best opposite level.
TakeFront(e, o, price, id, resting) ==
  LET fill   == Min({o.remaining, resting.quantity})
      full   == fill = resting.quantity
      trade  == [kind |-> "Trade", symbol |-> o.symbol, resting |-> id, price |-> price,
                 quantity |-> fill]
      change == IF full THEN [kind |-> "Delete", symbol |-> o.symbol, order_id |-> id]
                ELSE [kind |-> "Reduce", symbol |-> o.symbol, order_id |-> id,
                      quantity |-> resting.quantity - fill]
      traded == Announce([e EXCEPT !.next_trade_id = @ + 1], trade, o.checkpoints)
  IN  [e |-> RecordPassiveFill(
               [Announce(traded, change, o.checkpoints) EXCEPT
                  !.live[o.symbol] = IF full THEN @ \ {id} ELSE @],
               [resting_order_id |-> id, quantity |-> fill, price |-> price,
                leaves |-> resting.quantity - fill, symbol |-> o.symbol,
                side |-> opposite(o.side)]),
       o |-> [o EXCEPT !.remaining = @ - fill,
                       !.fills = Append(@, [quantity |-> fill, price |-> price,
                                            leaves |-> o.remaining - fill])]]

\* The head and the body of the matching loop, on the pair m of an engine and an
\* order; nothing happens once the loop is over.
Turn(m) ==
  LET at == front(book_of(m.e.books, m.o.symbol), opposite(m.o.side))
  IN  IF m.o.remaining = 0 \/ at = <<>> \/ ~crosses(m.o.side, m.o.price, at[1])
      THEN m
      ELSE TakeFront(m.e, m.o, at[1], at[2], get(m.e, m.o.symbol, at[2])[1])

\* The matching loop.  A turn takes one unit at least, so there are never more
\* turns than the order has units.
Match(m) ==
  LET after[n \in 0 .. m.o.remaining] == IF n = 0 THEN m ELSE Turn(after[n - 1])
      end == after[m.o.remaining]
  IN  [end EXCEPT !.e.books = get_or_create(@, m.o.symbol)]

\* What the loop left of the order rests.
Rest(m, id, generator_may_recycle) ==
  [e |-> IF m.o.remaining = 0 THEN m.e
         ELSE [Announce(m.e, [kind |-> "Add", symbol |-> m.o.symbol, order_id |-> id,
                              side |-> m.o.side, price |-> m.o.price,
                              quantity |-> m.o.remaining], m.o.checkpoints) EXCEPT
                 !.live[m.o.symbol] = IF generator_may_recycle THEN @ \cup {id} ELSE @],
   order_id |-> id, fills |-> m.o.fills, resting |-> m.o.remaining]

\* Engine::submit_reported: what the order meets is taken, what is left rests.
submit_reported(e, symbol, side, price, quantity, generator_may_recycle, checkpoints) ==
  Rest(Match([e |-> [e EXCEPT !.next_order_id = @ + 1],
              o |-> [symbol |-> symbol, side |-> side, price |-> price, remaining |-> quantity,
                     fills |-> <<>>, checkpoints |-> checkpoints]]),
       e.next_order_id, generator_may_recycle)

\* Mutant of cancel_reported: the id stays on the generator's list.
cancel_reported_KeepsLive(e, symbol, id, checkpoints) ==
  IF get(e, symbol, id) = <<>> THEN [e |-> e, remaining |-> <<>>]
  ELSE [e |-> Announce(e, [kind |-> "Delete", symbol |-> symbol, order_id |-> id], checkpoints),
        remaining |-> <<get(e, symbol, id)[1].quantity>>]

\* Engine::cancel_reported: remaining is <<>> when the book does not hold the order.
cancel_reported(e, symbol, id, checkpoints) ==
  IF get(e, symbol, id) = <<>>
  THEN [e |-> [e EXCEPT !.books = get_or_create(@, symbol)], remaining |-> <<>>]
  ELSE [e |-> remove_live(Announce(e, [kind |-> "Delete", symbol |-> symbol, order_id |-> id],
                                   checkpoints), symbol, id),
        remaining |-> <<get(e, symbol, id)[1].quantity>>]

\* Engine::amend: new_price is <<>> to leave the price alone.  Nothing is
\* matched, so an amended price may cross the book.
amend(e, symbol, id, new_price, new_quantity, checkpoints) ==
  LET resting == get(e, symbol, id)
      price   == IF new_price = <<>> THEN resting[1].price ELSE new_price[1]
      keeps   == price = resting[1].price /\ new_quantity < resting[1].quantity
  IN  IF resting = <<>> THEN [e EXCEPT !.books = get_or_create(@, symbol)]
      ELSE Announce(e, IF keeps
                       THEN [kind |-> "Reduce", symbol |-> symbol, order_id |-> id,
                             quantity |-> new_quantity]
                       ELSE [kind |-> "Replace", symbol |-> symbol, order_id |-> id,
                             price |-> price, quantity |-> new_quantity], checkpoints)

=============================================================================
