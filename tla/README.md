# Specifications of the low-latency market data stack

TLA+ models of the processes under `src/`, the TLC configurations that check
them on small instances, and TLAPS proofs of the results that matter most.

## The system

Five processes. Orders travel FIX gateway → risk service → matching engine and
reports travel back, over four single-producer single-consumer rings in shared
memory (`orders`, `accepted`, `execs`, `reports`). The matching engine publishes
its market data on two multicast arms, A and B, that carry the same datagrams;
it also publishes snapshot cycles on them, and feeds every datagram to the
replay service over TCP. A feed handler merges the arms, keeps the books, and
closes gaps from the replay service or from the next snapshot cycle.

| Part | Source | Modules | What makes it hard |
|---|---|---|---|
| Arbitrator | `feed-handler/src/arbitration.rs` | `ArbitratorOps` `Arbitrator` | two arms lose, delay and reorder; a full window; a timeout against a late datagram |
| Feed handler | `feed-handler/src/{main,recovery,stats}.rs` | `FeedHandler` | gaps inside recoveries, snapshot against replay, overflow, deadline |
| Matching engine | `matching-engine/src/engine.rs` | `MatchingEngine` | every change to a book must be announced, once and in order |
| Publisher, engine loop, generator | `matching-engine/src/{feed,main,generator}.rs` | `FeedPublisher` `EngineFeed` | batching, snapshots and checkpoints in the middle of the stream; predicted loss |
| Books | `book/src/{mbo,tick,reference,view,apply,digest}.rs` | `TickIndex` `MboBook` `ReferenceBook` `BookDifferential` `BookSet` | two implementations that must agree; hand-made slab, hash map, queues and price window |
| Order path | `gateway/src/orderpath.cpp`, `risk/src/{limits,service_main}.cpp`, `matching-engine/src/orderpath.rs` | `OrderPath` `RiskService` `EngineOrderPath` | full rings, kills, late and lost reports, reconciliation |
| Order store | `gateway/src/orderstore.cpp` | `OrderStore` | a crash between two steps of an append or a compaction |
| Sequence store | `gateway/src/seqstore.cpp` | `SeqStore` | torn writes, failing fsync, directory entries |
| FIX session | `gateway/src/session.cpp`, `gateway_main.cpp` | `FixSession` | retransmission, restarts, resets |
| Ring | `crates/ring`, `cpp/ring` | `SpscRing` `BoundedFifo` | word-level interleaving, kill at any point |
| Replay | `matching-engine/src/uplink.rs`, `replay-service/src/*.rs` | `ReplayStore` `ReplayPath` | holes, eviction, several connections, answers cut short |
| Histogram | `bench-support/src/histogram.rs` | `Histogram` | slot and bucket boundaries, overflow, merging |

`PROJECT.json` lists every part, with the ones that are not modelled and why, the
lines every definition stands for, and the hazards each property is aimed at.

## Modules

How the modules build on each other:

    ArbitratorOps <- Arbitrator <- ArbitratorProofs
    ArbitratorOps <- FeedHandler
    ReferenceBook <- BookSet <- FeedPublisher <- MatchingEngine <- EngineFeed
                                                 MatchingEngine <- EngineOrderPath
                                  EngineOrderPath, RiskService <- OrderPath
    TickIndex <- MboBook <- BookDifferential -> (INSTANCE) ReferenceBook
    ReplayStore <- ReplayPath <- ReplayPathProofs
    OrderStore <- OrderStoreProofs
    SpscRing <- SpscRingProofs,  SpscRing implements BoundedFifo
    SeqStore <- SeqStoreProofs
    FixSession, Histogram

A module whose name begins with `MC` gives one of these its constants for TLC.
A definition whose name ends in a suffix such as `_OneTooFar` is a variant of the
definition that follows it, with the kind of slip the properties must catch; no
specification uses one. Components made of one value and many methods (books, the
engine, the publisher, the arbitrator) are modules of operators from the value
before a call to the value after it; the modules that compose them have the state
and the actions.

### Arbitrator

A datagram is the range of sequences its header announces. The reorder window is
the set of datagrams in its occupied slots; there is one slot more than
`Capacity`, as in the source. `Offer(d)` is `accept` followed by the drain the
loop always does after it; `QuietDrain` and `DeclareGapIfStalled` are the quiet
pass; `ResyncTo` and `ClearGapped(range)` are the ends of a recovery. A replay fills
the range that was asked for and no other, while `clear_gapped` is for the whole
feed, so with another gap open the state goes to Live all the same. History variables
record what was released, skipped, filled and reported, and whether a hole timed
out on a quiet pass since the last resync (`timed_out`); only properties read them.
Two assumptions are the publisher's: it sends no empty datagram, and it
cuts its stream into datagrams once, so two datagrams that share a sequence are
the same. Under the second the delivering arm of `keep_after_gap` is never taken.

### Feed handler

The loop is one thread, so its state is one record `h`, and one datagram, one
fragment or one end of a pass is one step. Outside it, each arm delivers the
published items in order and may lose some, and the replay answer comes when it
comes, or is refused. `book` counts how often each message is reflected in the
books, by being applied or by a snapshot. Statistics are kept where `is_clean` or
the control flow reads them, and then only as "zero or not". A symbol is one
fragment of a cycle (the source may need several for one symbol).

The stop conditions of the loop are not actions: the safety properties are
invariants, so they hold wherever the loop stops. `apply_replay`'s defence against
an answer with a hole has no action either: `LocateIsExact` shows that the service
never gives one, and `AnswerIsWhole` that what arrives is all of it. Malformed
datagrams are not sent.

### Matching engine, publisher and consumer

`MatchingEngine` is the engine as a value: `submit_reported`, `cancel_reported`,
`amend`, the matching loop, the list of the generator's live orders, and
the watch list with its bounded buffer of passive fills. `publish` changes the book
and announces the change in one step, as in the source. `FeedPublisher` fills a
datagram, cuts it by count and by size, and cuts a snapshot into fragments; the
size of a message is a number of units. `EngineFeed` is the run loop: client orders,
cancels that may name any order, a client's or the generator's (the engine does not
ask whose it is), one intent of the generator, the flush, heartbeat and snapshot
timers (each may be due at any turn), and a consumer that applies what the arms deliver. The generator
is the set of intents its code may draw in that state, so that the random numbers
are a choice. A digest is the text it hashes: two digests are equal when the texts
are. The self-check shadow of the publisher is left out; it is the same comparison
that the consumer makes here.

### Books

`MboBook` keeps the layout of `mbo.rs`: the slab and the free list threaded through
it, the open-addressed map with backward-shift deletion, the arrays of levels over a
sliding window (`TickIndex`), the intrusive queues, the cached best prices and level
counts. `ReferenceBook` is the plain book of `reference.rs`. `BookDifferential` drives both
with the same operations, as `tests/differential.rs` does at random. The hash of an
id is a constant of the configuration, chosen so that ids collide and wrap.
`BooksAgree` compares the answers of the two, refusals with their reasons, except where
the fast book is out of room. `SameAnswer` has one exception: reducing an unknown order to
zero is refused for its quantity by one book and for its id by the other (`mbo.rs:666`,
`reference.rs:171-176`), where `docs/BOOKS.md:109` says refusals agree in "why".

### Order path

`OrderPath` joins three processes by rings that are bounded queues, which is what
`SpscRing` is shown to implement. The gateway records an order, then pushes it; a
report is recorded, then the ring moves on; a kill may fall between the two, and a
write may fail. The risk service is `RiskService` and both sides of its loop. The
engine is `EngineOrderPath`: messages taken in a pass, watches and removals put off to
the start of the next, bounded buffers of fills, reports counted when the ring is
full, and a generator that trades against clients, cancels and amends between passes.
Refused FIX messages change nothing and are left out.

The gateway serves one connection at a time and reads its report ring only while it has
one; it asks for a reconciliation once per connection, and tries again while the ring is
full. Nothing makes a client use an id once: an order may come again under its id (`uses`),
two orders may share one, a cancel may carry the id of an order, and only the risk service
looks, among the orders it has open. A quantity is narrowed to 32 bits on its way
(`QuantityRange` stands for 2^32). What each property promises follows from that:

- `PositionWithinLimit` holds with repeated ids of orders; it excepts cancels under
  an order's id;
- `RestingIsRemembered` excepts the ids that were used more than once, and `CleanMeansAgreed`
  behaviours in which one was;
- `EveryOrderIsAnswered` is for a client that stays connected from some point on. It excepts,
  id by id, an order one of whose reports was counted as dropped (`lost`), and one that a
  failed write or a kill before the push left behind (`orphans`).

### Order store

A file is a sequence of records; a record cut short or damaged is `Bad`. `cache` and
`disk` are as in `SeqStore`. `open` replays, drops a bad last record, writes the live
orders to a new file, syncs it, renames it, syncs the directory; `record` appends and
syncs, and a failure is rolled back by truncation, itself able to fail. `trust` is
`Exposed` once a log was opened under a name that no sync of the directory has made
durable (a kill between the rename and the sync, then a power cut).

### Ring

`push_with` and `pop_with` are split at every access to a word or slot the other
side uses. A slot is `Torn` from the moment `fill` may write to it until it is
whole. A release store publishes what was written before it, so the model
interleaves sequentially. `ReattachProducer` and `ReattachConsumer` kill an end
anywhere and let its successor open the ring. `index & (capacity - 1)` is
`index % Capacity` because the capacity is a power of two.

### Replay

`ReplayStore` is the history: `Push` is `push` for a datagram that is not a duplicate
(restart at a hole, evict, file), and `locate` the whole of `locate`. A datagram always
fits a slot: `serve_uplink` reads into a buffer of the same size. `ReplayPath` puts it
between the engine's queue and a consumer: `offer` drops when the queue is full, the writer thread connects, loses what was in flight when
a connection breaks, and connects again while the service may still be reading the old
one; a request is located and copied under the lock, sent, and counted by the client.
Either process may be restarted.

### FIX session

Both ends run the code of `session.cpp`: one initiates, one accepts. A handler is
an operator on a working record, the session's fields with what it has written to
the socket so far, and an action runs one whole handler. A fault may be aimed at
any one of the handler's store calls: it cannot be written, cannot be synced, or
the process is killed just before or just after it; what had left the process by
then is all that the other end can still read. `Receive(e, more, f)` takes one
message; `more` says that the next one came in the same read, since `drain` goes
through a whole read before the loop looks at `finished()`. The initiator is a new
process for every connection, the acceptor keeps its object. `epoch`, the count of
sequence resets, is the specification's own: it rides on the store's pair and on
the Logon that asks for a reset. Time is not modelled, a timer may be due whenever
`on_timer` looks. `CallLogout` is in the model although `gateway_main` never calls
`Session::logout`: it is part of the session's interface.

### Sequence store

`cache` is the file as a read sees it and survives a kill; `disk` is all that a
power cut leaves, each slot old, new or damaged. `open` is two steps when it
creates the file (create, then sync the directory and read the slots) and one when
the file is there; `store` is two, up to the `pwrite` and from the `fsync` on.
`entry` is the durability of the directory entry. The history `trust` is `Exposed`
from an open that adopts something not yet on disk until the next successful
`fsync`, and `Taken` once a power cut comes in between. `FixSession` uses the store
at a coarser grain: a call succeeds, fails or is cut by a kill, and an open finds
the last pair written, which is what `OpensToAckedOrTried` allows.

### Histogram

The arithmetic of `histogram.rs` at a width of `Width` bits instead of 64 and
a `SUB_BUCKET_BITS` of 2 instead of 11; `samples` remembers what each histogram stands for. A
quantile is asked for by rank: the product of an `f64` and a count is not modelled.

## Runs

| Run | Checks | Shows |
|---|---|---|
| `arbitrator` | `FrontierAccounted` `NothingSilentlyLost` `DeliveredExactlyOnce` `WindowAheadOfFrontier` `SpareSlotSuffices` | holds: what the frontier passes was handed over or is named by a gap; arbitration is exact until a hole times out, and again after a resync |
| `handler` | `CleanIsTrustworthy` `NoDuplicateApplies` `NoUnexplainedJump` `NeverGivesUpOnReceived` `RecoveryEnds` | holds in three deployments: one arm with snapshots, a late join and quiet gaps; two arms and replay; two arms, lost fragments and cycles of two symbols |
| `handler_cycle_copies` | `CleanIsTrustworthy` | violated, see below |
| `engine_feed` | `CheckpointsAgree` `RebuildsExactly` `LossIsPredicted` `LiveIsGeneratorsOwn` `OnlyAmendCrosses` | holds: a consumer rebuilds the engine's books exactly |
| `book` | `InvariantsHold` `BooksAgree` `RefusesOnlyWhatCannotFit` | holds: same orders, same queues, same answers, while the fast book has room |
| `order_path` | `PositionWithinLimit` `RestingIsRemembered` `CleanMeansAgreed` `EveryOrderIsAnswered` | holds, with the exceptions above |
| `order_store` | `OpensToAckedOrTried` `NeverRefused` | holds |
| `replay_path` | `HistoryHasNoHole` `LocateIsExact` `AnswerIsWhole` | holds |
| `fix_session` | `DeliveredInOrderOnce` `NothingVanishes` `NoReversal` `AgreeWhenQuiet` `OneGapCloses` | holds |
| `seq_store` | `OpensToAckedOrTried` `NumbersNeverReissued` `FallbackAlwaysThere` | holds |
| `ring` | `PublishedIntact` `ImplementsFifo` `PublishedIsConsumed` | holds |
| `histogram` | `QuantilesConservative` | holds |

Six more configurations show observations listed below and are not part of the set:
`MCArbitratorGapInverts`, `MCFeedHandlerLateAnswer`, `MCFeedHandlerReplayMidCycle`,
`MCFixSessionCrossedGaps`, `MCOrderPathReusedId`, `MCReplayPathEngineRestart`; TLC reports
a violation of the one property in each.

**Bounds.**
*Arbitrator*: five datagrams of one or two messages, a window of two, two copies of
each and one resync: enough to fill the window, force a gap, receive a datagram inside
it, time out with the window full and move the frontier back.
*Handler*: five datagrams, a window of one and a hold of two to four, so that a gap, a
second gap inside the recovery from it and an overflow all fit before the stream ends;
a behaviour begins with one of the `Deployments`.
*Engine and feed*: three orders and up to four messages, datagrams of three units where
a trade takes two, one order to a snapshot fragment, a digest every second message:
a match, a cut by size in the middle of it, a checkpoint inside a datagram, a cycle of
several fragments and a loss before and after it all occur. One symbol under
independent loss, one under exclusive loss with client orders, and two symbols under
correlated loss.
*Books*: three ids; either a slab of three with ids that collide and wrap in the map, or a slab of
two under a window of three levels that four prices make it slide. The state space is
finite without a bound on the number of operations, so any sequence of them is covered.
*Order path*: rings of two, one owned order, buffers of one, and eight setups: bids the
generator takes, also with a gateway that is killed or fails to write, and with one that
reconciles on each of two connections; clients that trade with each other and cancel; an
order that comes again, and two that share an id; a quantity past the range with a cancel
under the order's id. Small rings and buffers are what makes reports drop.
*Order store*: two orders, three records, three faults. *Replay*: four datagrams through
a queue of one and two connections into two slots, two faults, two lives of the engine.
*FIX*: two connections, two application messages one way and one the other, a resend ring
of three, so that a tail is lost, found missing at the next logon and resent or
gap-filled; timers, logouts, kills and failing store calls share a budget of two.
*Sequence store*: three generations, so that the slot of an acknowledged record is
overwritten; kills and power cuts are unlimited, and a run is not followed past the
first open after trust is `Taken`. *Ring*: two slots, two wraps, two kills.
*Histogram*: six bits, four sub-buckets, samples on both sides of every boundary up to
15, of two ranges and past the largest; three samples.

The handler, arbitrator and FIX runs end when the stream or the budget does, so they do
not check for deadlock; all others do.

**Fairness.** `FeedHandler!FairSpec`: the loop keeps reading both arms, and once they are
silent every pass is a quiet one and time passes until the deadline. `SpscRing!FairSpec`:
the consuming process keeps draining. The risk service and the engine do so on each pass
of their loops; the gateway does while a client is connected, and for the ring it reads
the property is about that time. A producer is never obliged to push. `OrderPath!Spec`:
risk and engine keep polling their rings, the engine finishes its passes, and the gateway
polls while a connection is open. Nobody is obliged to connect or to start a killed gateway
again; clients, the generator and faults are never obliged. It is written as guards and steps rather than with `WF`, because TLC then
does not have to work out when a long action is enabled.

**Why each handler deployment has the shape it has.** They are drawn along the boundary
of the observations below: each leaves out the feature whose interaction is known to break
its properties. For the same reason `NoDuplicateApplies` and `NoUnexplainedJump` except
deployments with snapshots on both arms, and `NoDuplicateApplies` an answer that outlives
an abandoned recovery.

## A disagreement between the code and what it says of itself

`handler_cycle_copies`: a cycle of three symbols is carried by both arms. The second
copy of its first fragment clears what the first copy had filled, and the last fragment
ends the cycle with a symbol missing and a clean verdict.

## Observations

Met while modelling, and kept out of the passing runs by their bounds or by an exception
the property states.

Feed handler and arbitrator:

- `MCArbitratorGapInverts`: a gap declared on a quiet pass leaves the frontier standing on
  a datagram that stays in the window, because a recovery has begun and the quiet pass
  drains only when there is none. The next datagram that finds the window full calls
  `declare_gap` again, against its `debug_assert` (`arbitration.rs:520`, "this cannot
  invert", `:527`). If the other arm's copy is delivered first, the one in the window is
  stranded and the frontier later moves back to it.
- `MCFeedHandlerReplayMidCycle`: a replay answer is applied to books that a snapshot cycle
  has cleared and half filled (`main.rs:932`).
- With snapshots on both arms, a snapshot older than the held traffic moves the frontier
  back (`resync_to`, `main.rs:1237`) and the other arm's copy of a held datagram is applied
  twice; and when the held traffic has a hole, `handle_snapshot` returns without moving
  `applied_high`, so that the held traffic is reported as lost messages.
- A second gap declared on a quiet pass is in the window, not in the held traffic, so a
  replay of the first completes over it (`main.rs:1014`), and `clear_gapped` makes the feed
  Live with that gap open. The replay deployment has no
  quiet gaps. For the same reason `NeverGivesUpOnReceived` excepts them, and no property
  says that a Live feed has no gap.
- The comment of `keep_after_gap` (`arbitration.rs:396-400`) says that the caller does not
  drain while it recovers. It does (`main.rs:578-592`), and without that drain the spare
  slot would not suffice.
- `MCFeedHandlerLateAnswer`: a recovery that is abandoned, or that a snapshot ends, does not
  withdraw its replay request. The answer may come while a later recovery is outstanding and
  is applied in its place, messages the books already have included, where `main.rs:666-668`
  says `apply_replay` checks. `NoDuplicateApplies` excepts abandoned recoveries
  (`AnswersOutliveRecoveries`).
- A datagram given up on in a gap and received late is answered `Duplicate`, documented as
  "Every sequence in it has already been delivered" (`arbitration.rs:152`); it never was.
- With one arm, replay, a hold of two and an initial join: an overflow re-arms the join but
  leaves the outstanding request; its answer ends the new recovery although what the
  overflow dropped lies past it.

Engine, publisher, replay:

- `amend` changes a price without matching, so a book may rest crossed; `OnlyAmendCrosses`
  says nothing else does it.
- The uplink takes a datagram from its queue before it connects; when the hello or the
  write fails it is lost and not counted (`uplink.rs:11-12` says drops are).
- `MCReplayPathEngineRestart`: a restarted engine numbers from 1 again. A service that
  outlives it refuses the new stream as duplicates until it has caught up, and then
  serves the datagrams of two lives as one history.

Order path:

- A late reconciliation answer can be mistaken for the current one. `reconcile_request_id_`
  restarts at 0 with the process and the lines of an answer carry no request id, so lines
  asked for before a kill are taken as the new answer's, and its `StatusComplete` has the
  same number (`orderpath.cpp:488-491` says the id tells them apart). `LateAnswerIsNotMistaken`
  states it and does not hold; `CleanMeansAgreed` is about answers that are their request's own.
- An order that came to rest is watched from the next pass on. What fills it in between
  is reported to nobody and counted by nobody (`orderpath.rs:140`, `:311`, against
  `engine.rs:168-171`).
- A cancel names a client id at the risk service and an exchange id at the engine, and its
  `Canceled` report carries the cancel's own id: the model keeps both readings, so a cancel
  ends an order only where the two numbers agree.
- A passive fill and a cancel of the same order in one pass: the fill is a counted drop.
- `MCOrderPathReusedId`: an order with the ClOrdID of a live one overwrites its record
  (`orderpath.cpp:246-254`) before the risk service refuses it as a duplicate; the refusal
  then erases the record, and the live order rests with nothing in the log. A client numbers
  from 1000 in every run (`gateway_main.cpp:360`), so a client that is started again does
  this. A reconciliation may then be clean by mistake, if the line of that order is dropped.
- A cancel whose own id is that of a live order is not refused (`on_cancel` looks up the
  order it names, not its id). The `Canceled` or `Rejected` that answers it carries that id,
  and the risk service releases the exposure of the live order, which can then
  trade past the limit.
- A quantity outside 32 bits wraps (`orderpath.cpp:249`): the limits see what is left of it.
- Reports wait unread while no client is connected, and what does not fit is dropped and
  counted.
- A power cut after a kill between compaction's rename and the sync of the directory may
  bring back the old log after new records were acknowledged (`trust = "Exposed"`). A failing
  sync of the directory, which the code ignores, would do the same and is left out.

FIX session and sequence store:

- `MCFixSessionCrossedGaps`: both ends lost the other's tail and find the gap at logon. Each
  asks for a resend; each request is itself beyond the gap, is put in `queued_`, and is never
  looked at again (`session.cpp:539`). Both stay in `AwaitingResend`; heartbeats keep the
  connection alive and every application message is held back. `docs/PROTOCOL.md:103-106`
  says such a request is queued, and `session.hpp:236` that what is queued is applied once
  the gap closes. `OneGapCloses` shows that, while no store call fails, only such a crossing
  leaves an end waiting.
- A store call that fails for one message does not stop the rest of the same read
  from being processed. The session is `LoggedOut`, yet a gap fill later in that read,
  whose own number is not checked, moves the expected number past the message that
  was refused, which then vanishes: hence `~store_failed` in `NothingVanishes`.
- After a failed `emit`, `connect`, `logout` and `handle_logon` overwrite `LoggedOut`,
  and the session goes on although `describe(StoreFailure)` says nothing further may
  be sent.
- A reset whose Logon is lost with the connection leaves the initiator at 1 and the
  acceptor where it was; the next Logon without the flag is a reversal. Hence
  `SameEpoch` in `NoReversal`.
- A store call is killed between `pwrite` and `fsync`; the next open adopts the record
  from the page cache and never syncs it; the following store overwrites the other
  slot, which holds the last acknowledged record; a power cut during it can damage
  both slots, where `seqstore.hpp` says that a torn write damages exactly one. This
  is `trust = "Taken"`.
- A kill between creating `gateway.seq` and syncing its directory: the next open finds
  the file, does not sync the directory, and a power cut takes the file with every
  number acknowledged since. This too is `trust = "Taken"`.
- `torn_slots_recovered` is 1 after a clean restart of a file with one record, since
  generation 1 goes to slot 1 and slot 0 is a hole of zeros; and a torn first write
  makes the file `Corrupt`, although nothing was ever acknowledged.

Histogram:

- `new` with a `highest` of 2^63 or more stops doubling one bucket short, and recording a
  value up there indexes past the array ("Sized to track values up to `highest`",
  `histogram.rs:86`). `HighestAssumption` excludes it; the callers use 1,000,000.
- `merge` compares the lengths of the arrays, where its comment (`histogram.rs:234-235`)
  says the two must have the same `highest`: two ranges of equal length merge, and what
  overflowed one is inside the range of the other.
- `min` is `u64::MAX` when every sample overflowed.

## Proofs

**Arbitrator**, for every stream, window size, number of copies and resyncs.
`WeakInv` is inductive for the whole specification: the type invariant; the
occupied slots within `Capacity`, which with the spare slot is why nothing is
dropped; everything from the last restart to the frontier released, named by a
gap or filled; and what was skipped or filled named by a gap. From it: `TypeCorrect`,
`SpareSlotCorrect`, `LossIsAlwaysDeclared`. `BusyInv` adds what holds until a hole
times out on a quiet pass: released, skipped and filled partition what lies below the
frontier, the counter agrees with the released set, and the window lies wholly ahead of
the frontier. The last is what makes the other two inductive: a datagram behind the
frontier would be released twice, and it is the conjunct that a timeout breaks. A resync
empties the window, so `BusyInv` holds again after it: the inductive invariant is
`WeakInv /\ (~timed_out => BusyInv)`, and `ArbitrationCorrect` needs no assumption about
timeouts. The lemmas about `drain_ready` rest on the least element of a
set of naturals (where the drain stops) and on intervals and their cardinality.

**Ring**, for every capacity, message set and number of kills. `RingInv` joins
the three invariants with what a producer in the middle of a push knows (there is
room by its own cache; in `publish` the slot at the write index is whole).
`RingSafe` follows. `RingImplementsFifo`: a fill never touches a slot between the
indices because two indices less than `Capacity` apart have different slots, so
`Queue` changes only when an index does, by an append or a tail.

**Sequence store**, for any number of store calls, failures, kills and power cuts.
The invariant `IInv` says that, unless trust is `Taken`, the record the object
stands on (`generation`, `seq`) is whole in its slot of the page cache, and the other
slot holds something older, something damaged, or the next record with a pair that
was tried (`Anchored`); that the same is true of the disk while trust is `Kept`; and
that every pair tried is beyond every number issued. A store call writes only to the
other slot, an open adopts the record stood on or the next one, and a write-back or a
power cut cannot touch what is the same in both places. `NeverReissues`,
`OpensHonestly` and `KeepsAFallback` follow.

**Replay**, for every stream, ring size, queue depth and number of connections, breaks
and restarts. `StoreInv` says how the counters and the slots describe one history: the
datagrams held follow each other without a hole from `first_sequence` to `next_sequence`,
are in order however far apart, and cover every message in between. The last two follow
from the first by induction over the slots, which is why they are carried along. `push`
keeps it whether it files, evicts or restarts at a hole. `locate` is then taken branch by
branch: a range is answered when all of it is held, with the datagrams from the one that
holds its first message to the one that holds its last. `PathInv` adds that what has
arrived of a response and what is still on its way are a beginning of a whole answer, and
all of it when as long as promised. `HistoryNeverHasAHole`, `RangesAreLocatedExactly` and
`AnswersAreWhole` follow.

**Order store**, for every finite set of orders and any number of records, failures,
kills and power cuts. `IInv` has two parts. `TypeInv` holds always: a damaged record is
only ever the last one, in the file as read, on the platter and in the file a rename
replaced; that alone gives `StoreNeverRefused`. `KeptInv` holds while no log was opened
under a name that is not durable: file and platter share a beginning, and replaying any
longer beginning of the file, or the platter, gives orders acknowledged or tried since. It gives
`StoreKeepsItsWord`. What `replay` computes is shown one record at a time, for ever longer
beginnings of the log.

Assumptions, all evaluated by TLC in the runs: `SizesAssumption`, `DatagramsAssumption`,
`DriverAssumption` (arbitrator), `RingAssumption`, `StoreAssumption` (of `SeqStore` and of
`ReplayStore`), `StreamAssumption`, `RangesAssumption` (replay), `OrdersAssumption` (order
store).

Only model-checked: the handler, the engine, the publisher and its consumer, the layout of
`MboBook` against the reference, the order path with its position limit, the FIX sessions
and the histogram; and liveness (`RecoveryEnds`,
`PublishedIsConsumed`, `EveryOrderIsAnswered`), which is out of the prover's reach.

## Not modelled

- Generated codecs and their generator, FIX syntax, sockets, configuration parsing: bytes
  and system calls. The models take from them that a datagram arrives whole or not at all
  and that a TCP stream may end anywhere.
- Clocks, allocation counting, host inspection, benchmarks, the random number generator.
- A restart of the risk service, which unlinks and recreates the rings
  (`service_main.cpp:368`): the other two go on with the unlinked ones until they are
  restarted too. `RUNNING.md:153-156` says so, and Compose does not restart it alone.
- `fast.rs`: the same set of books over `MboBook`, which `book` compares with the reference; and the file of digest lines.
- Malformed datagrams and messages that no process of this code sends.
- Proofs still worth having: that a consumer rebuilds the engine's books, the two books
  against each other, the position limit, and the gateway's log against the engine.
