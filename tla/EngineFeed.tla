----------------------------- MODULE EngineFeed -----------------------------
(***************************************************************************)
(* The engine process (crates/matching-engine/src/main.rs) and a consumer  *)
(* of its feed.  The run loop takes client orders, then one intent of the  *)
(* flow generator (generator.rs), and flushes, heartbeats and publishes    *)
(* snapshots as its timers expire.  The consumer rebuilds the books from   *)
(* what the arms deliver: it applies datagrams while they are contiguous,  *)
(* and after a loss waits for a whole snapshot cycle.  Delivery is prompt  *)
(* here; the handler's work under delay and reordering is FeedHandler's.   *)
(***************************************************************************)
EXTENDS MatchingEngine, SequencesExt

CONSTANTS
  FragmentRoom,    \* orders that fit in one snapshot datagram
  ReferencePrice,
  target_depth, price_spread_ticks, Reach,   \* the generator's Shape
  Setups   \* how the engine is run: the symbols, the loss mode, the quantities
           \* orders carry, what clients may ask for, and the bounds max_drift,
           \* max_orders and max_seq

ASSUME SetupsAssumption == \A s \in Setups : s.mode \in DropModes

VARIABLES
  e,          \* the engine
  setup,      \* which of the setups this is
  lost_both,  \* FeedStats::messages_lost_both
  clients,    \* history: ids of the orders that came from clients
  c           \* the consumer

vars == <<e, setup, lost_both, clients, c>>

Consumer0 == [books |-> EmptyMap, expect |-> 1, heard |-> 0, recovering |-> FALSE,
              in_cycle |-> FALSE, agree |-> TRUE]

Init == /\ setup \in Setups
        /\ e = NewEngine(setup.symbols, ReferencePrice)
        /\ lost_both = 0
        /\ clients = {}
        /\ c = Consumer0

------------------------------------------------------------------------------
(* The snapshots of feed.rs: a cycle of fragments that carries every resting
   order, headed with the last incremental sequence it contains. *)

\* Mutant of Cut: the orders go out by age of id, not in queue order.
Cut_ById(b) ==
  LET ids == SetToSortSeq(DOMAIN b.orders, LAMBDA x, y : x < y)
  IN  IF ids = <<>> THEN <<<<>>>>
      ELSE [i \in 1 .. Len(ids) |->
              <<[order_id |-> ids[i], side |-> b.orders[ids[i]].side,
                 price |-> b.orders[ids[i]].price, quantity |-> b.orders[ids[i]].quantity]>>]

\* Orders cut into the fragments that carry them; no orders still make one.
CutEvery(orders) ==
  [i \in 1 .. Max({1, (Len(orders) + FragmentRoom - 1) \div FragmentRoom}) |->
     SubSeq(orders, (i - 1) * FragmentRoom + 1, Min({i * FragmentRoom, Len(orders)}))]

\* A symbol's orders, bids then asks in queue order.
Cut(b) == CutEvery(orders_in_queue_order(b, "Bid") \o orders_in_queue_order(b, "Ask"))

\* The fragments of a cycle, whose contents are `all', with their headers.
Headed(all, last) ==
  [k \in 1 .. Len(all) |->
     [kind |-> "Snapshot", symbol |-> all[k].symbol, orders |-> all[k].orders,
      last_sequence |-> last, cycle_start |-> k = 1, cycle_end |-> k = Len(all)]]

OfSymbol(symbol, cut) == [j \in 1 .. Len(cut) |-> [symbol |-> symbol, orders |-> cut[j]]]

Fragments(books, last) ==
  LET symbols == SetToSortSeq(DOMAIN books, LAMBDA s, t : s < t)
  IN  Headed(FlattenSeq([i \in 1 .. Len(symbols) |->
                           OfSymbol(symbols[i], Cut(books[symbols[i]]))]), last)

publish_snapshot(f, books) ==
  [flush(f) EXCEPT !.out = @ \o Fragments(books, last_sequence(f))]

------------------------------------------------------------------------------
(* The consumer. *)

\* One message applied, with the answer r; at a checkpoint both took, the digests
\* are compared.
Applied(k, r, digests) ==
  [k EXCEPT !.books = r.books, !.expect = @ + 1,
            !.agree = /\ @
                      /\ r.err = ""
                      /\ k.expect \in DOMAIN digests
                           => digest_of(r.books, DigestDepth) = digests[k.expect]]

Consume(k, m, digests) == Applied(k, apply_message(k.books, m), digests)

HearDatagram(k, d, digests) ==
  LET k1 == [k EXCEPT !.heard = @ + Len(d.msgs)]
  IN  CASE k.recovering -> k1                             \* held, and then covered by the cycle
        [] ~k.recovering /\ d.first_seq # k.expect -> [k1 EXCEPT !.recovering = TRUE]
        [] OTHER -> FoldLeft(LAMBDA x, m : Consume(x, m, digests), k1, d.msgs)

\* handle_snapshot: only a consumer in recovery takes one, from its first fragment.
HearSnapshot(k, m) ==
  IF ~k.recovering \/ (~m.cycle_start /\ ~k.in_cycle) THEN k
  ELSE LET r == apply_message(IF m.cycle_start THEN clear_all(k.books) ELSE k.books, m)
       IN  [k EXCEPT !.books = r.books, !.in_cycle = ~m.cycle_end, !.recovering = ~m.cycle_end,
                     !.expect = IF m.cycle_end THEN m.last_sequence + 1 ELSE @,
                     !.agree = @ /\ r.err = ""]

\* What was sent reaches the consumer unless both arms withheld it (dropped[i]).
\* Snapshots are never withheld.
Hear(k, out, dropped, digests) ==
  FoldLeft(LAMBDA x, i : IF "kind" \in DOMAIN out[i] THEN HearSnapshot(x, out[i])
                         ELSE IF dropped[i] = Arms THEN x
                         ELSE HearDatagram(x, out[i], digests),
           k, [i \in 1 .. Len(out) |-> i])

------------------------------------------------------------------------------
\* The engine became x: everything it sent on the way goes to the arms.
Sent(x) ==
  LET out == x.feed.out
  IN  \E dropped \in [DOMAIN out -> drop_arms(setup.mode)] :
        LET gone == {i \in DOMAIN out : "msgs" \in DOMAIN out[i] /\ dropped[i] = Arms}
        IN  /\ \A i \in DOMAIN out : "kind" \in DOMAIN out[i] => dropped[i] = {}
            /\ e' = [x EXCEPT !.feed.out = <<>>,
                              !.digests = [n \in {n \in DOMAIN @ : n >= x.feed.first_seq} |-> @[n]]]
            /\ c' = Hear(c, out, dropped, x.digests)
            /\ lost_both' = lost_both + MapThenSumSet(LAMBDA i : Len(out[i].msgs), gone)
            /\ UNCHANGED setup

\* The engine has not failed and has sequences and ids left under the bounds.
Running == e.failed = "" /\ e.feed.next_seq <= setup.max_seq

(* Client orders, as the order path submits and cancels them.  A cancel names any
   exchange id: whose order it is, if it is one, is not asked. *)
ClientNew(o) ==
  /\ Running /\ e.next_order_id <= setup.max_orders
  /\ Sent(submit_reported(e, o.symbol, o.side, o.price, o.quantity, FALSE, FALSE).e)
  /\ clients' = clients \cup {e.next_order_id}

ClientCancel(s, id) ==
  /\ Running /\ setup.clients # {}
  /\ Sent(cancel_reported(e, s, id, FALSE).e)
  /\ UNCHANGED clients

(* The generator. *)
starving(s) == Cardinality(e.live[s]) < target_depth \div 2

drift_mid(s) == {m \in {e.mid[s] - 1, e.mid[s], e.mid[s] + 1} :
                   m \in ReferencePrice - setup.max_drift .. ReferencePrice + setup.max_drift}

passive_price(mid, side) ==
  {IF side = "Bid" THEN mid - t ELSE mid + t : t \in 1 .. price_spread_ticks}

price_near(mid) == mid - price_spread_ticks .. mid + price_spread_ticks

aggressive_price(mid, side) == {IF side = "Bid" THEN mid + t ELSE mid - t : t \in Reach}

Drifted(s, mid) == [e EXCEPT !.mid[s] = mid]

Submit(s) ==
  /\ Running /\ e.next_order_id <= setup.max_orders
  /\ \E mid \in drift_mid(s), side \in Sides, q \in setup.quantity :
       \E price \in passive_price(mid, side)
                      \cup (IF starving(s) THEN {} ELSE aggressive_price(mid, side)) :
         Sent(submit_reported(Drifted(s, mid), s, side, price, q, TRUE, TRUE).e)
  /\ UNCHANGED clients

Cancel(s) ==
  /\ Running /\ ~starving(s)
  /\ \E mid \in drift_mid(s), id \in e.live[s] :
       Sent(cancel_reported(Drifted(s, mid), s, id, TRUE).e)
  /\ UNCHANGED clients

Amend(s) ==
  /\ Running /\ ~starving(s)
  /\ \E mid \in drift_mid(s), id \in e.live[s], q \in setup.quantity :
       \E price \in {<<>>} \cup {<<p>> : p \in price_near(mid)} :
         Sent(amend(Drifted(s, mid), s, id, price, q, TRUE))
  /\ UNCHANGED clients

(* The timers. *)
FlushOnTimer == /\ Running
                /\ Sent([e EXCEPT !.feed = flush(@)])
                /\ UNCHANGED clients

Heartbeat == /\ Running
             /\ Sent([e EXCEPT !.feed = heartbeat(@)])
             /\ UNCHANGED clients

\* Also the cycles that linger after the last message, which need no sequence.
Snapshot == /\ e.failed = ""
            /\ Sent([e EXCEPT !.feed = publish_snapshot(@, e.books)])
            /\ UNCHANGED clients

Next ==
  \/ \E o \in setup.clients : ClientNew(o)
  \/ \E s \in setup.symbols, id \in 1 .. e.next_order_id : ClientCancel(s, id)
  \/ \E s \in setup.symbols : Submit(s)
  \/ \E s \in setup.symbols : Cancel(s)
  \/ \E s \in setup.symbols : Amend(s)
  \/ FlushOnTimer
  \/ Heartbeat
  \/ Snapshot

Spec == Init /\ [][Next]_vars

------------------------------------------------------------------------------

\* Engine::publish, "the engine's book equals the result of applying messages
\* 1..=seq": no change is refused by the engine's own book, none by the
\* consumer's, and at every checkpoint sequence the digest of the books the
\* consumer rebuilt is the one the engine took there, however the messages were
\* cut into datagrams and whichever recoveries came before.
CheckpointsAgree == e.failed = "" /\ c.agree

\* A consumer that is not recovering holds, queue positions included, exactly
\* what the engine holds once the messages still in the publisher's buffer are
\* applied, and no snapshot ever told it of a message that had not been sent:
\* the batching, the fragments of a cycle and its flush all lose nothing.
RebuildsExactly ==
  ~c.recovering =>
    /\ c.expect <= e.feed.first_seq
    /\ c.expect = e.feed.first_seq =>
         Holding(FoldLeft(LAMBDA bs, m : apply_message(bs, m).books, c.books, e.feed.buf))
           = Holding(e.books)

\* messages_lost_both is exactly what no arm carried, so it predicts what a
\* consumer must report missing, and under exclusive loss it stays zero
\* ("zero by construction"): redundancy alone then keeps every consumer live.
LossIsPredicted ==
  /\ c.heard + lost_both = e.feed.first_seq - 1
  /\ setup.mode = "exclusive" => lost_both = 0 /\ ~c.recovering

\* SymbolState::live holds exactly the generator's own resting orders: a fill or
\* cancel that takes the last of an order takes it off the list, and "a client's
\* order never goes in here", so the generator cannot cancel it.
LiveIsGeneratorsOwn ==
  \A s \in setup.symbols : e.live[s] = DOMAIN book_of(e.books, s).orders \ clients

Crossed(books, s) ==
  LET bid == front(book_of(books, s), "Bid")
      ask == front(book_of(books, s), "Ask")
  IN  bid # <<>> /\ ask # <<>> /\ bid[1] >= ask[1]

\* Matching never leaves a trade undone: a symbol's book becomes crossed (a bid
\* at or above an ask) only when the generator amends a price, which Engine::amend
\* does without matching; no submit, cancel or fill crosses it.
OnlyAmendCrosses ==
  [][\A s \in setup.symbols : Crossed(e'.books, s) => Crossed(e.books, s) \/ Amend(s)]_vars

=============================================================================
