---------------------------- MODULE RiskService ----------------------------
(***************************************************************************)
(* The pre-trade limits (cpp/risk/src/limits.cpp), the RiskEngine as the   *)
(* value r.  open is the hash table of live orders, by client order id.    *)
(***************************************************************************)
EXTENDS Integers, FiniteSets

CONSTANTS
  max_order_quantity, max_notional, collar_bps, max_open_orders, max_position

\* A limit is a magnitude: under a negative one no position at all would do.
ASSUME LimitAssumption == max_position \in Nat

Magnitude(n) == IF n < 0 THEN -n ELSE n

NewRisk(symbols, reference_price) ==
  [open |-> [c \in {} |-> 0], position |-> [s \in symbols |-> 0],
   pending_buy |-> [s \in symbols |-> 0], pending_sell |-> [s \in symbols |-> 0],
   reference_price |-> [s \in symbols |-> reference_price]]

\* The position if this order and every live one on its side filled.
Worst(r, d) ==
  IF d.side = "Bid" THEN r.position[d.symbol] + r.pending_buy[d.symbol] + d.quantity
  ELSE r.position[d.symbol] - r.pending_sell[d.symbol] - d.quantity

\* Mutant of Breaches: the position limit looks at the position alone.
Breaches_PositionOnly(r, d) ==
  Magnitude(r.position[d.symbol] + (IF d.side = "Bid" THEN d.quantity ELSE -d.quantity))
    > max_position

\* The limits of RiskEngine::on_new_order, in the order they are tried.
Breaches(r, d) ==
  \/ d.symbol \notin DOMAIN r.position
  \/ d.cid \in DOMAIN r.open
  \/ d.quantity = 0
  \/ d.quantity > max_order_quantity
  \/ Magnitude(d.price) > max_notional \div d.quantity
  \/ LET ref == r.reference_price[d.symbol]
     IN  collar_bps > 0 /\ ref # 0
         /\ Magnitude(d.price - ref) * 10000 > Magnitude(ref) * collar_bps
  \/ Cardinality(DOMAIN r.open) >= max_open_orders
  \/ Magnitude(Worst(r, d)) > max_position

\* The side's pending quantity moved by n.
Pend(r, side, symbol, n) ==
  IF side = "Bid" THEN [r EXCEPT !.pending_buy[symbol] = @ + n]
  ELSE [r EXCEPT !.pending_sell[symbol] = @ + n]

\* RiskEngine::on_new_order, for an order within the limits.
Accept(r, d) ==
  Pend([r EXCEPT !.open = [c \in DOMAIN @ \cup {d.cid} |->
          IF c = d.cid THEN [symbol |-> d.symbol, side |-> d.side, leaves |-> d.quantity]
          ELSE r.open[c]]],
       d.side, d.symbol, d.quantity)

\* RiskEngine::on_cancel: the order it names must be live.
CancelBreaches(r, d) == d.orig \notin DOMAIN r.open

Release(r, cid) == [r EXCEPT !.open = [c \in DOMAIN @ \ {cid} |-> r.open[c]]]

ApplyFill(r, m) ==
  LET o == r.open[m.cid]
      moved == [r EXCEPT !.position[o.symbol] = IF o.side = "Bid" THEN @ + m.quantity
                                                ELSE @ - m.quantity,
                         !.reference_price[o.symbol] = IF m.price # 0 THEN m.price ELSE @,
                         !.open[m.cid].leaves = m.leaves]
  IN  Pend(moved, o.side, o.symbol, -m.quantity)

\* RiskEngine::on_exec_report; an order it does not know is only counted.
on_exec_report(r, m) ==
  LET fills == m.type \in {"Fill", "PartialFill"}
      moved == IF fills THEN ApplyFill(r, m) ELSE r
      o     == moved.open[m.cid]
  IN  IF m.cid \notin DOMAIN r.open THEN r
      ELSE CASE m.type \in {"Canceled", "Rejected"} ->
                  Release(Pend(moved, o.side, o.symbol, -o.leaves), m.cid)
             [] m.type = "Fill" /\ m.leaves = 0 -> Release(moved, m.cid)
             [] OTHER -> moved

=============================================================================
