----------------------------- MODULE OrderPath -----------------------------
(***************************************************************************)
(* The order path end to end: the gateway's router                         *)
(* (cpp/gateway/src/orderpath.cpp), the risk service                       *)
(* (cpp/risk/src/service_main.cpp) and the engine's order path, three      *)
(* processes joined by four rings.                                         *)
(*                                                                         *)
(*   gateway --orders--> risk --accepted--> engine                         *)
(*   gateway <--reports-- risk <--execs---- engine                         *)
(*                                                                         *)
(* The rings are bounded queues (module SpscRing); execs is x.p.reports.   *)
(* The gateway serves one connection at a time, and polls its reports only *)
(* while it has one.  It may be killed at any point and restarted on its   *)
(* log (module OrderStore); a failed write to the log is undone.           *)
(* Nothing keeps a client from using an id again: clients number from the  *)
(* same start in every run (gateway_main.cpp), and only the risk service   *)
(* looks, among the orders it has open.                                    *)
(***************************************************************************)
EXTENDS EngineOrderPath, RiskService

CONSTANTS
  Symbols, ReferencePrice,
  OrdersPerPass,       \* ORDERS_PER_PASS
  QuantityRange,       \* 2^32, the quantities a uint32_t holds
  Setups               \* what clients and the generator send, how often each request
                       \* is sent (uses), and how often things fail

\* The OrderQty of a message is any integer.
ASSUME SetupsAssumption ==
  /\ QuantityRange \in Nat \ {0}
  /\ \A s \in Setups :
       /\ \A o \in s.orders : /\ o.type = "NewOrder" /\ o.side \in Sides
                              /\ o.price \in Int /\ o.quantity \in Int
       /\ \A d \in s.cancels : d.type = "CancelOrder"
       /\ \A o \in s.generator : /\ o.symbol \in Symbols /\ o.side \in Sides
                                 /\ o.price \in Int /\ o.quantity \in Nat

VARIABLES
  setup,
  g,                        \* the gateway
  orders, accepted, reports,
  r, risk_dropped,          \* the risk service and its counters.reports_dropped
  x, handled,               \* the engine, and the messages this pass has taken
  sent,                     \* how often clients have sent each request
  faults,                   \* kills and failed writes so far
  traded, orphans, lost     \* histories: what clients traded, by symbol; the ids whose
                            \* record a fault left behind; those of which a report was
                            \* counted as dropped

vars == <<setup, g, orders, accepted, reports, r, risk_dropped, x, handled, sent, faults, traded,
          orphans, lost>>
riskVars == <<accepted, r, risk_dropped>>
engineVars == <<x, handled, traded>>

\* A freshly opened router.  round, verdict.own and verdict.agreed are histories:
\* the requests ever made, and whether the answer was to the last of them and
\* the log was what the engine held.
NoVerdict == [complete |-> FALSE, clean |-> FALSE, own |-> TRUE, agreed |-> FALSE]

OpenRouter(log, round) ==
  [at |-> "Listening", requested |-> FALSE, log |-> log, reconcile |-> "Idle", request_id |-> 0,
   view |-> <<>>, round |-> round, verdict |-> NoVerdict]

Init ==
  /\ setup \in Setups
  /\ g = OpenRouter(EmptyMap, 0)
  /\ orders = <<>> /\ accepted = <<>> /\ reports = <<>>
  /\ r = NewRisk(Symbols, ReferencePrice)
  /\ risk_dropped = 0
  /\ x = [e |-> NewEngine(Symbols, ReferencePrice), p |-> OpenOrderPath]
  /\ handled = 0
  /\ sent = [q \in setup.orders \cup setup.cancels |-> 0]
  /\ traded = [s \in Symbols |-> 0]
  /\ faults = 0
  /\ orphans = {}
  /\ lost = {}

HasRoom(ring) == Len(ring) < RingCapacity
MayFail == faults < setup.max_faults

------------------------------------------------------------------------------
(* The gateway. *)

\* OrderStore::record, once it has succeeded.
Recorded(log, cid, rec) ==
  LET kept == DOMAIN log \ {cid}
  IN  IF rec.state \in {"Pending", "Live"}
      THEN [c \in kept \cup {cid} |-> IF c = cid THEN rec ELSE log[c]]
      ELSE [c \in kept |-> log[c]]

Pending(o) == [exch |-> 0, leaves |-> o.quantity, state |-> "Pending"]

\* The order as it is recorded and sent: static_cast<std::uint32_t>.
Narrowed(o) == [o EXCEPT !.quantity = @ % QuantityRange]

\* A client sends a request once more.
Send(q) ==
  /\ g.at = "Connected" /\ sent[q] < setup.uses
  /\ sent' = [sent EXCEPT ![q] = @ + 1]

\* Mutant of NewOrder: the order is pushed before it is recorded.
NewOrder_PushFirst(q) ==
  LET o == Narrowed(q)
  IN
  /\ Send(q) /\ HasRoom(orders)
  /\ orders' = Append(orders, o)
  /\ \/ /\ g' = [g EXCEPT !.log = Recorded(@, o.cid, Pending(o))]
        /\ UNCHANGED faults
     \/ /\ MayFail
        /\ faults' = faults + 1
        /\ g' = [g EXCEPT !.at = "Down"]
  /\ UNCHANGED <<setup, riskVars, engineVars, reports, orphans, lost>>

\* OrderRouter::on_application, a NewOrderSingle: durable first, over whatever
\* record has its id, then pushed; an order the ring has no room for is marked
\* dead, if that write succeeds.
NewOrder(q) ==
  LET o == Narrowed(q)
      logged == Recorded(g.log, o.cid, Pending(o))
      dead == Recorded(logged, o.cid, [Pending(o) EXCEPT !.state = "Rejected"])
  IN
  /\ Send(q)
  /\ \/ /\ HasRoom(orders)
        /\ g' = [g EXCEPT !.log = logged]
        /\ orders' = Append(orders, o)
        /\ UNCHANGED <<faults, orphans>>
     \/ /\ ~HasRoom(orders)
        /\ g' = [g EXCEPT !.log = dead]
        /\ UNCHANGED <<orders, faults, orphans>>
     \/ /\ MayFail
        /\ faults' = faults + 1
        /\ orphans' = orphans \cup {o.cid}
        /\ \/ g' = g                                             \* not recorded: refused
           \/ g' = [g EXCEPT !.log = logged, !.at = "Down"]       \* killed before the push
           \/ ~HasRoom(orders) /\ g' = [g EXCEPT !.log = logged]
        /\ UNCHANGED orders
  /\ UNCHANGED <<setup, riskVars, engineVars, reports, lost>>

\* An OrderCancelRequest is only forwarded, whatever its own id is.
CancelOrder(d) ==
  /\ Send(d)
  /\ orders' = IF HasRoom(orders) THEN Append(orders, d) ELSE orders
  /\ UNCHANGED <<setup, g, riskVars, engineVars, reports, faults, orphans, lost>>

\* OrderRouter::request_reconciliation, tried until it succeeds once on each
\* connection.
RequestReconciliation ==
  /\ g.at = "Connected" /\ ~g.requested
  /\ g.round < setup.max_rounds
  /\ LET asked == [g EXCEPT !.request_id = @ + 1, !.round = @ + 1]
     IN  IF HasRoom(orders)
         THEN /\ orders' = Append(orders, [type |-> "ReconcileRequest", cid |-> asked.request_id,
                                           round |-> asked.round])
              /\ g' = [asked EXCEPT !.requested = TRUE, !.reconcile = "Awaiting", !.view = <<>>,
                                    !.verdict = NoVerdict]
         ELSE g' = asked /\ UNCHANGED orders
  /\ UNCHANGED <<setup, riskVars, engineVars, reports, sent, faults, orphans, lost>>

Matches(rec, line) == rec.exch # 0 /\ line.exch = rec.exch

Verdict(gw, d, clean) ==
  [gw EXCEPT !.reconcile = "Done",
     !.verdict = [complete |-> TRUE, clean |-> clean,
       own |-> d.round = gw.round /\ \A i \in DOMAIN gw.view : gw.view[i].round = gw.round,
       agreed |-> d.held = {<<gw.log[c].exch, gw.log[c].leaves>> : c \in DOMAIN gw.log}]]

\* Mutant of finish_reconciliation: an order never acknowledged is passed over.
finish_reconciliation_Unacked(gw, d) ==
  LET acked == {c \in DOMAIN gw.log : gw.log[c].exch # 0}
  IN  Verdict(gw, d,
        /\ \A c \in acked : \E i \in DOMAIN gw.view :
             Matches(gw.log[c], gw.view[i]) /\ gw.view[i].leaves = gw.log[c].leaves
        /\ Len(gw.view) = Cardinality(acked))

\* Clean when every order of the log meets a line with its id and equal leaves,
\* and no line is left over.
finish_reconciliation(gw, d) ==
  LET lines(c) == {i \in DOMAIN gw.view : Matches(gw.log[c], gw.view[i])}
      agree == {c \in DOMAIN gw.log :
                  lines(c) # {} /\ gw.view[Min(lines(c))].leaves = gw.log[c].leaves}
  IN  Verdict(gw, d, /\ agree = DOMAIN gw.log
                     /\ {Min(lines(c)) : c \in agree} = DOMAIN gw.view)

\* The record a report leaves behind.
After(rec, d) ==
  [exch |-> IF d.exch # 0 THEN d.exch ELSE rec.exch,
   leaves |-> IF d.type \in {"Canceled", "Rejected"} THEN 0 ELSE d.leaves,
   state |-> CASE d.type = "Fill" /\ d.leaves = 0 -> "Filled"
               [] d.type \in {"Canceled", "Rejected"} -> d.type
               [] OTHER -> "Live"]

\* OrderRouter::pump, one report off the ring, which only a gateway with an open
\* connection calls.  Killed after the record and
\* before the ring moves on, it meets the report again.
PumpReport ==
  /\ g.at = "Connected" /\ reports # <<>>
  /\ LET d == Head(reports)
         logged == [g EXCEPT !.log = Recorded(@, d.cid, After(@[d.cid], d))]
         event == d.type \notin {"OrderStatus", "StatusComplete"} /\ d.cid \in DOMAIN g.log
     IN
     \/ /\ reports' = Tail(reports)
        /\ \/ /\ g' = CASE d.type = "OrderStatus" ->
                               IF g.reconcile = "Awaiting" THEN [g EXCEPT !.view = Append(@, d)]
                               ELSE g
                        [] d.type = "StatusComplete" ->
                               IF g.reconcile = "Awaiting" /\ d.cid = g.request_id
                               THEN finish_reconciliation(g, d) ELSE g
                        [] OTHER -> IF event THEN logged ELSE g
              /\ UNCHANGED <<faults, orphans>>
           \/ /\ MayFail /\ event   \* the write fails, and is ignored
              /\ faults' = faults + 1
              /\ orphans' = orphans \cup {d.cid}
              /\ UNCHANGED g
     \/ /\ MayFail /\ event
        /\ faults' = faults + 1
        /\ g' = [logged EXCEPT !.at = "Down"]
        /\ UNCHANGED <<reports, orphans>>
  /\ UNCHANGED <<setup, orders, riskVars, engineVars, sent, lost>>

\* The connection is gone, and the loop goes back to accept_one; or a client
\* connects, and may be asked for a reconciliation again.
Disconnect ==
  /\ g.at = "Connected"
  /\ g' = [g EXCEPT !.at = "Listening"]
  /\ UNCHANGED <<setup, orders, riskVars, engineVars, reports, sent, faults, orphans, lost>>

Connect ==
  /\ g.at = "Listening"
  /\ g' = [g EXCEPT !.at = "Connected", !.requested = FALSE]
  /\ UNCHANGED <<setup, orders, riskVars, engineVars, reports, sent, faults, orphans, lost>>

Kill ==
  /\ g.at # "Down" /\ MayFail
  /\ faults' = faults + 1
  /\ g' = [g EXCEPT !.at = "Down"]
  /\ UNCHANGED <<setup, orders, riskVars, engineVars, reports, sent, orphans, lost>>

\* A new process: the log comes back, the reconciliation in progress does not.
Restart ==
  /\ g.at = "Down"
  /\ g' = OpenRouter(g.log, g.round)
  /\ UNCHANGED <<setup, orders, riskVars, engineVars, reports, sent, faults, orphans, lost>>

------------------------------------------------------------------------------
(* The risk service. *)

Answers == {"OrderStatus", "StatusComplete"}

\* A report to the gateway goes into the ring, or is counted.
Tell(rep) ==
  IF HasRoom(reports) THEN reports' = Append(reports, rep) /\ UNCHANGED <<risk_dropped, lost>>
  ELSE /\ risk_dropped' = risk_dropped + 1
       /\ lost' = IF rep.type \in Answers THEN lost ELSE lost \cup {rep.cid}
       /\ UNCHANGED reports

\* handle_order_side, a NewOrder: one the engine's ring has no room for is
\* taken back off the books.
RiskNewOrder(d) ==
  IF ~Breaches(r, d) /\ HasRoom(accepted)
  THEN /\ r' = Accept(r, d)
       /\ accepted' = Append(accepted, d)
       /\ UNCHANGED <<reports, risk_dropped, lost>>
  ELSE LET refused == Report("Rejected", d.cid, 0, d.price, d.quantity, 0)
       IN  /\ r' = IF Breaches(r, d) THEN r ELSE on_exec_report(Accept(r, d), refused)
           /\ Tell(refused)
           /\ UNCHANGED accepted

RiskCancel(d) ==
  /\ IF ~CancelBreaches(r, d) /\ HasRoom(accepted)
     THEN accepted' = Append(accepted, d) /\ UNCHANGED <<reports, risk_dropped, lost>>
     ELSE Tell(Report("Rejected", d.cid, d.orig, 0, 0, 0)) /\ UNCHANGED accepted
  /\ UNCHANGED r

RiskReconcile(d) ==
  /\ accepted' = IF HasRoom(accepted) THEN Append(accepted, d) ELSE accepted
  /\ UNCHANGED <<r, reports, risk_dropped, lost>>

RiskOrder ==
  /\ orders # <<>>
  /\ orders' = Tail(orders)
  /\ LET d == Head(orders)
     IN  \/ d.type = "NewOrder" /\ RiskNewOrder(d)
         \/ d.type = "CancelOrder" /\ RiskCancel(d)
         \/ d.type = "ReconcileRequest" /\ RiskReconcile(d)
  /\ UNCHANGED <<setup, g, engineVars, sent, faults, orphans>>

\* Mutant of RiskReport: a report the gateway's ring has no room for is waved
\* through without being counted.
RiskReport_Silent ==
  /\ x.p.reports # <<>>
  /\ x' = [x EXCEPT !.p.reports = Tail(@)]
  /\ LET d == Head(x.p.reports)
     IN  /\ r' = IF d.type \in Answers THEN r ELSE on_exec_report(r, d)
         /\ reports' = IF HasRoom(reports) THEN Append(reports, d) ELSE reports
  /\ UNCHANGED <<setup, g, orders, accepted, risk_dropped, handled, traded, sent, faults,
                 orphans, lost>>

\* handle_report_side: the limits see the event, then it goes on to the gateway.
RiskReport ==
  /\ x.p.reports # <<>>
  /\ x' = [x EXCEPT !.p.reports = Tail(@)]
  /\ LET d == Head(x.p.reports)
     IN  /\ r' = IF d.type \in Answers THEN r ELSE on_exec_report(r, d)
         /\ Tell(d)
  /\ UNCHANGED <<setup, g, orders, accepted, handled, traded, sent, faults, orphans>>

------------------------------------------------------------------------------
(* The engine. *)

\* The feed is followed elsewhere (EngineFeed): what was published is let go.
Quiet(y) == [y EXCEPT !.e.feed = NewFeed, !.e.digests = EmptyMap]

\* The engine became y by taking the message d.
Dispatched(d, y) ==
  /\ x' = Quiet(y)
  /\ traded' = IF d.type # "NewOrder" THEN traded
               ELSE [traded EXCEPT ![d.symbol] = @ + PassivelyTraded(d.symbol, x, y)
                                                   + ActivelyTraded(d, x, y)]
  /\ lost' = IF d.type # "ReconcileRequest" /\ y.p.reports_dropped > x.p.reports_dropped
             THEN lost \cup {d.cid} ELSE lost

\* The loop of OrderPath::pump, one message.
Dispatch ==
  /\ handled < OrdersPerPass /\ accepted # <<>>
  /\ Dispatched(Head(accepted), dispatch(x, Head(accepted)))
  /\ accepted' = Tail(accepted)
  /\ handled' = handled + 1
  /\ UNCHANGED <<setup, g, orders, r, risk_dropped, reports, sent, faults, orphans>>

\* The pass is over: the generator takes its turn (an order, a cancel or an amend
\* of its own, or none when its limits stop it), and the next pass begins.  The
\* generator touches no ring, so the two are one step.
NextPass ==
  /\ handled = OrdersPerPass \/ accepted = <<>>
  /\ handled' = 0
  /\ \/ /\ x.e.next_order_id <= setup.max_orders
        /\ \E o \in setup.generator :
             LET y == [x EXCEPT !.e = submit_reported(@, o.symbol, o.side, o.price, o.quantity,
                                                      TRUE, FALSE).e]
             IN  /\ x' = Quiet(begin_pass(y))
                 /\ traded' = [traded EXCEPT ![o.symbol] = @ + PassivelyTraded(o.symbol, x, y)]
     \/ \E s \in Symbols : \E i \in x.e.live[s] :
          /\ x' = Quiet(begin_pass([x EXCEPT !.e = cancel_reported(@, s, i, FALSE).e]))
          /\ UNCHANGED traded
     \/ \E o \in setup.generator : \E i \in x.e.live[o.symbol], p \in {<<>>, <<o.price>>} :
          /\ x' = Quiet(begin_pass([x EXCEPT !.e = amend(@, o.symbol, i, p, o.quantity, FALSE)]))
          /\ UNCHANGED traded
     \/ x' = begin_pass(x) /\ UNCHANGED traded
  /\ UNCHANGED <<setup, g, orders, accepted, r, risk_dropped, reports, sent, faults, orphans, lost>>

------------------------------------------------------------------------------
ClientNew == \E o \in setup.orders : NewOrder(o)
ClientCancel == \E d \in setup.cancels : CancelOrder(d)

Next ==
  \/ ClientNew \/ ClientCancel \/ RequestReconciliation \/ PumpReport
  \/ Connect \/ Disconnect \/ Kill \/ Restart
  \/ RiskOrder \/ RiskReport
  \/ Dispatch \/ NextPass

\* The engine has a pass to finish or something put off to the next one.
PassIsDue ==
  /\ handled = OrdersPerPass \/ accepted = <<>>
  /\ \/ handled > 0 \/ x.e.passive_fills # <<>>
     \/ x.p.to_watch # {} \/ x.p.finished # {}

\* Every process runs its loop: risk polls its rings, the engine alternates its
\* passes, and the gateway polls its reports while a connection is open.  Nobody
\* need connect, or start a killed gateway again.  Each conjunct is the weak
\* fairness of its action, with the guard of the action spelt out.
Fairness ==
  /\ []<>(g.at # "Connected" \/ reports = <<>>) \/ []<><<PumpReport>>_vars
  /\ []<>(orders = <<>>) \/ []<><<RiskOrder>>_vars
  /\ []<>(x.p.reports = <<>>) \/ []<><<RiskReport>>_vars
  /\ []<>(handled = OrdersPerPass \/ accepted = <<>>) \/ []<><<Dispatch>>_vars
  /\ []<>~PassIsDue \/ []<><<NextPass>>_vars

Spec == Init /\ [][Next]_vars /\ Fairness

------------------------------------------------------------------------------
\* No cancel's own id is also an order's.
CancelIdsAreTheirOwn == \A o \in setup.orders, d \in setup.cancels : o.cid # d.cid

\* The clients' true position, from what the book traded, stays within the
\* limit at every moment, though the risk service counts only the reports that
\* reach it, late or never, and though ids are used again, by the same order or
\* by another (limits.cpp, the worst case of on_new_order).  A cancel under the
\* id of a live order is excepted: RiskEngine::on_cancel does not look at it, and
\* the answer to the cancel takes the exposure of that order off the books.
PositionWithinLimit ==
  CancelIdsAreTheirOwn => \A s \in Symbols : traded[s] \in -max_position .. max_position

\* More than one request was sent under the id.
Reused(c) ==
  \E q \in DOMAIN sent :
    /\ q.cid = c
    /\ sent[q] > 1 \/ (sent[q] = 1 /\ \E p \in DOMAIN sent \ {q} : p.cid = c /\ sent[p] > 0)

\* An order that rests in the engine for a client is live in the gateway's log,
\* whatever crashed or failed to be written in between, as long as its id was
\* used once: it was recorded before it was sent, and nothing but its own end
\* takes it out.
RestingIsRemembered ==
  \A h \in Held(x) : x.p.placed[h[1]] \in DOMAIN g.log \/ Reused(x.p.placed[h[1]])

\* The same for every order.  It fails (MCOrderPathReusedId.cfg): the second use
\* of an id overwrites the record of the live order, the risk service refuses it
\* as a duplicate, and the refusal takes the record out.
RestingIsAlwaysRemembered ==
  \A h \in Held(x) : x.p.placed[h[1]] \in DOMAIN g.log

\* A reconciliation that found no divergence, in the answer to the request that
\* is outstanding, did find the log equal to what the engine held when it
\* answered: a line dropped on the way shows as an order only the gateway has
\* (finish_reconciliation).  Again as long as no id was used twice: where that
\* cost a record, a dropped line is missed.
CleanMeansAgreed ==
  g.verdict.complete /\ g.verdict.clean /\ g.verdict.own
    => g.verdict.agreed \/ \E q \in DOMAIN sent : Reused(q.cid)

\* A finished reconciliation is made of the answer to its own request only, as
\* orderpath.cpp:488-491 says of late answers.
LateAnswerIsNotMistaken == g.verdict.complete => g.verdict.own

Unanswered(c) == c \in DOMAIN g.log /\ g.log[c].state = "Pending"

\* Once a client stays connected, an order the gateway pushed is answered, through
\* earlier kills, full rings and a busy engine, unless a fault cut it off or a
\* report about this very order was counted as dropped: nothing stays pending
\* because somebody on the way forgot it.
EveryOrderIsAnswered ==
  <>[](g.at = "Connected") =>
    \A c \in UNION {{o.cid : o \in s.orders} : s \in Setups} :
      Unanswered(c) ~> ~Unanswered(c) \/ c \in lost \cup orphans

=============================================================================
