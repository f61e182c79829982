---------------------------- MODULE MCOrderPath ----------------------------
EXTENDS OrderPath

MCSize == [k \in {"Add", "Reduce", "Replace", "Delete", "Trade", "Heartbeat"} |-> 1]

Order(cid, side, price, quantity) ==
  [type |-> "NewOrder", cid |-> cid, symbol |-> 1, side |-> side, price |-> price,
   quantity |-> quantity]
CancelOf(cid, orig) == [type |-> "CancelOrder", cid |-> cid, symbol |-> 1, orig |-> orig]
Gen(side, price, quantity) == [symbol |-> 1, side |-> side, price |-> price, quantity |-> quantity]

\* Two bids that the generator's asks take, before or after they arrive.
TwoBids ==
  [orders |-> {Order(1, "Bid", 2, 2), Order(2, "Bid", 2, 1)}, cancels |-> {}, uses |-> 1,
   generator |-> {Gen("Ask", 2, 1)}, max_orders |-> 3, max_rounds |-> 1, max_faults |-> 0]

\* One of them.
OneBid == [TwoBids EXCEPT !.orders = {Order(1, "Bid", 2, 2)}, !.max_orders = 2]

\* An order that comes again under its id.
Again == [OneBid EXCEPT !.uses = 2, !.max_orders = 3, !.max_rounds = 0]

MCSetups ==
  {TwoBids,
   \* The same, with a gateway that is killed or a write that fails.
   [TwoBids EXCEPT !.max_rounds = 0, !.max_faults = 1],
   [OneBid EXCEPT !.max_faults = 1],
   \* A gateway that asks on each of two connections.
   [OneBid EXCEPT !.max_rounds = 2],
   \* Clients that trade with each other and cancel.
   [orders |-> {Order(1, "Bid", 2, 1), Order(2, "Ask", 2, 2)}, cancels |-> {CancelOf(9, 1)},
    uses |-> 1,
    generator |-> {Gen("Bid", 2, 1)}, max_orders |-> 2, max_rounds |-> 0, max_faults |-> 0],
   Again,
   \* Two orders that share an id.
   [Again EXCEPT !.orders = {Order(1, "Bid", 2, 2), Order(1, "Ask", 2, 1)}, !.uses = 1],
   \* A quantity past the range, a cancel under the id of the order, and a generator
   \* whose amends change prices.
   [orders |-> {Order(1, "Bid", 2, QuantityRange + 1)}, cancels |-> {CancelOf(1, 1)}, uses |-> 1,
    generator |-> {Gen("Ask", 3, 2), Gen("Bid", 2, 1)}, max_orders |-> 2, max_rounds |-> 0,
    max_faults |-> 0]}

AgainOnly == {Again}

=============================================================================
