---------------------------- MODULE MCEngineFeed ----------------------------
EXTENDS EngineFeed

\* A trade takes twice the room of any other message, as it nearly does on the
\* wire, so both the batch and the size limit cut datagrams.
MCSize == [k \in {"Add", "Reduce", "Replace", "Delete", "Trade", "Heartbeat"} |->
             IF k = "Trade" THEN 2 ELSE 1]

ClientBid == [symbol |-> 1, side |-> "Bid", price |-> 2, quantity |-> 1]
ClientAsk == [symbol |-> 1, side |-> "Ask", price |-> 3, quantity |-> 2]

\* One symbol under independent loss, one under exclusive loss with client orders,
\* and two symbols, whose snapshot cycles span several fragments, in lots of one.
OneSymbol(mode, asked) ==
  [symbols |-> {1}, mode |-> mode, quantity |-> {1, 2}, clients |-> asked,
   max_drift |-> 0, max_orders |-> 3, max_seq |-> 4]

MCSetups ==
  {OneSymbol("independent", {}),
   OneSymbol("exclusive", {ClientBid, ClientAsk}),
   [symbols |-> {1, 2}, mode |-> "correlated", quantity |-> {1}, clients |-> {},
    max_drift |-> 1, max_orders |-> 3, max_seq |-> 3]}

=============================================================================
