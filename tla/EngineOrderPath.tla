--------------------------- MODULE EngineOrderPath ---------------------------
(***************************************************************************)
(* The engine's end of the order path                                      *)
(* (crates/matching-engine/src/orderpath.rs): orders taken off a ring,     *)
(* given to the engine, and answered with execution reports on another.    *)
(*                                                                         *)
(* x is the pair [e |-> the engine, p |-> the order path].  p.reports is   *)
(* the ring the reports go into.  p.placed is a history: the client behind *)
(* every exchange id that ever rested for one.                             *)
(***************************************************************************)
EXTENDS MatchingEngine

CONSTANTS
  RingCapacity,    \* slots of each ring of the path
  MaxOwned,        \* MAX_OWNED
  FillBuffer,      \* fills of one incoming order that can be reported
  PassiveBuffer    \* fills of resting orders that one pass can report

ASSUME BuffersAssumption == FillBuffer \in Nat /\ PassiveBuffer \in Nat

OpenOrderPath ==
  [owned |-> <<>>, to_watch |-> {}, finished |-> {}, reports_dropped |-> 0, reports |-> <<>>,
   placed |-> EmptyMap]

\* An execution report.  round and held are histories, of reconciliation only:
\* the request a line answers, and what the engine held when it answered.
Report(type, cid, exch, price, quantity, leaves) ==
  [type |-> type, cid |-> cid, exch |-> exch, price |-> price, quantity |-> quantity,
   leaves |-> leaves, round |-> 0, held |-> {}]

\* A report goes into the ring, or is counted.
push_report(p, r) ==
  IF Len(p.reports) < RingCapacity THEN [p EXCEPT !.reports = Append(@, r)]
  ELSE [p EXCEPT !.reports_dropped = @ + 1]

\* The reports ds[1] to ds[n], one after the other.
push_reports(p, ds, n) ==
  LET after[k \in 0 .. n] == IF k = 0 THEN p ELSE push_report(after[k - 1], ds[k]) IN after[n]

\* The rows of the owned table whose exchange id is in ids, in order.
Retained(owned, ids) ==
  LET kept[n \in 0 .. Len(owned)] ==
        CASE n = 0 -> <<>>
          [] n > 0 /\ owned[n].exch \in ids -> Append(kept[n - 1], owned[n])
          [] n > 0 /\ owned[n].exch \notin ids -> kept[n - 1]
  IN  kept[Len(owned)]

Exchs(owned) == {owned[i].exch : i \in DOMAIN owned}

Disown(p, exch) == [p EXCEPT !.owned = Retained(@, Exchs(@) \ {exch})]

------------------------------------------------------------------------------
report_passive_fill(p, f) ==
  LET exch == f.resting_order_id
      mine == {i \in DOMAIN p.owned : p.owned[i].exch = exch}
      told == push_report(p, Report(IF f.leaves = 0 THEN "Fill" ELSE "PartialFill",
                                    p.owned[Min(mine)].cid, exch, f.price, f.quantity, f.leaves))
  IN  CASE mine = {} -> [p EXCEPT !.reports_dropped = @ + 1]
        [] mine # {} /\ f.leaves = 0 -> [Disown(told, exch) EXCEPT !.finished = @ \cup {exch}]
        [] mine # {} /\ f.leaves # 0 -> told

\* The start of OrderPath::pump: the registrations the previous pass put off,
\* and the fills of resting orders since.
begin_pass(x) ==
  LET fills  == x.e.passive_fills
      lost   == Max({0, Len(fills) - PassiveBuffer})
      told[n \in 0 .. Len(fills) - lost] ==
        IF n = 0 THEN [x.p EXCEPT !.to_watch = {}, !.finished = {}]
        ELSE report_passive_fill(told[n - 1], fills[n])
  IN  [e |-> [unwatch_order(watch_order(x.e, x.p.to_watch), x.p.finished) EXCEPT !.passive_fills = <<>>],
       p |-> [told[Len(fills) - lost] EXCEPT !.reports_dropped = @ + lost]]

\* The fills of an incoming order d, submitted with the outcome o, as far as they
\* were buffered: the last of a complete account that leaves nothing is the Fill.
ReportFills(p, d, o) ==
  LET lost == Max({0, Len(o.fills) - FillBuffer})
      kept == Len(o.fills) - lost
      last(i) == i = kept /\ o.fills[i].leaves = 0 /\ lost = 0
      told == [i \in 1 .. kept |->
                 Report(IF last(i) THEN "Fill" ELSE "PartialFill", d.cid, o.order_id,
                        o.fills[i].price, o.fills[i].quantity, o.fills[i].leaves)]
  IN  [push_reports(p, told, kept) EXCEPT !.reports_dropped = @ + lost]

\* An order that came to rest is entered in the owned table, and its watch put off
\* to the next pass, or is counted when the table is full.
Own(p, cid, exch) ==
  LET q == [p EXCEPT !.placed = [i \in DOMAIN @ \cup {exch} |->
                                   IF i = exch THEN cid ELSE p.placed[i]]]
  IN  IF Len(p.owned) < MaxOwned
      THEN [q EXCEPT !.owned = Append(@, [exch |-> exch, cid |-> cid]),
                     !.to_watch = @ \cup {exch}]
      ELSE [q EXCEPT !.reports_dropped = @ + 1]

AnswerNew(p, d, o) ==
  [e |-> o.e,
   p |-> IF o.resting = 0 THEN ReportFills(p, d, o)
         ELSE push_report(Own(ReportFills(p, d, o), d.cid, o.order_id),
                          Report("Acknowledged", d.cid, o.order_id, d.price, d.quantity,
                                 o.resting))]

on_new_order(x, d) ==
  AnswerNew(x.p, d, submit_reported(x.e, d.symbol, d.side, d.price, d.quantity, FALSE, FALSE))

\* r is what became of the cancel.
AnswerCancel(p, d, r) ==
  [e |-> r.e,
   p |-> IF r.remaining = <<>>
         THEN push_report(p, Report("Rejected", d.cid, d.orig, 0, 0, 0))
         ELSE push_report([Disown(p, d.orig) EXCEPT !.finished = @ \cup {d.orig}],
                          Report("Canceled", d.cid, d.orig, 0, r.remaining[1], 0))]

\* The cancel's orig is looked up among the exchange's ids.
on_cancel(x, d) == AnswerCancel(x.p, d, cancel_reported(x.e, d.symbol, d.orig, FALSE))

\* What the book holds of an order, wherever it is: <<>> or <<order>>.
Find(e, exch) ==
  LET at == {s \in DOMAIN e.books : IsLive(e.books[s], exch)}
  IN  IF at = {} THEN <<>> ELSE <<e.books[CHOOSE s \in at : TRUE].orders[exch]>>

\* The client orders that rest, as <<exchange id, leaves>>.
Held(x) == {<<i, Find(x.e, i)[1].quantity>> : i \in {j \in DOMAIN x.p.placed : Find(x.e, j) # <<>>}}

on_reconcile(x, d) ==
  LET still == Retained(x.p.owned, {i \in Exchs(x.p.owned) : Find(x.e, i) # <<>>})
      line(o) == [Report("OrderStatus", o.cid, o.exch, Find(x.e, o.exch)[1].price,
                         Find(x.e, o.exch)[1].quantity, Find(x.e, o.exch)[1].quantity)
                    EXCEPT !.round = d.round]
      lines == [n \in 1 .. Len(still) |-> line(still[n])]
      answer == push_reports([x.p EXCEPT !.owned = still], lines, Len(still))
      sent == Len(answer.reports) - Len(x.p.reports)
  IN  [e |-> x.e,
       p |-> push_report(answer, [Report("StatusComplete", d.cid, 0, 0, sent, 0)
                                   EXCEPT !.round = d.round, !.held = Held(x)])]

dispatch(x, m) ==
  CASE m.type = "NewOrder" -> on_new_order(x, m)
    [] m.type = "CancelOrder" -> on_cancel(x, m)
    [] m.type = "ReconcileRequest" -> on_reconcile(x, m)

------------------------------------------------------------------------------
(* Histories: what clients truly traded, from the books. *)

\* f[1] + ... + f[n].
Total(f, n) ==
  LET sum[k \in 0 .. n] == IF k = 0 THEN 0 ELSE sum[k - 1] + f[k] IN sum[n]

Signed(side, n) == IF side = "Bid" THEN n ELSE -n

\* What resting client orders traded when an order was submitted.
PassivelyTraded(s, before, after) ==
  LET mine == {i \in DOMAIN before.p.placed : get(before.e, s, i) # <<>>}
      left(i) == IF get(after.e, s, i) = <<>> THEN 0 ELSE get(after.e, s, i)[1].quantity
      last == before.e.next_order_id - 1
  IN  Total([i \in 1 .. last |->
               IF i \in mine THEN Signed(get(before.e, s, i)[1].side,
                                         get(before.e, s, i)[1].quantity - left(i))
               ELSE 0], last)

\* What a client's order d traded on its way in.
ActivelyTraded(d, before, after) ==
  LET rest == get(after.e, d.symbol, before.e.next_order_id)
  IN  Signed(d.side, d.quantity - (IF rest = <<>> THEN 0 ELSE rest[1].quantity))

=============================================================================
