---------------------------- MODULE FeedHandler ----------------------------
(***************************************************************************)
(* The feed handler (crates/feed-handler/src/main.rs and recovery.rs): the *)
(* arbitrator, the recovery buffer, the books and the snapshot and replay  *)
(* paths that close a gap, driven by the loop that reads the two arms.     *)
(*                                                                         *)
(* The loop is one thread, so the state of the handler is one record and a *)
(* datagram is handled in one step.  What interleaves with it is outside:  *)
(* each arm delivers the published items in order but loses some, the arms *)
(* run apart, and the replay answer comes from a thread of its own.        *)
(***************************************************************************)
EXTENDS ArbitratorOps, Sequences, SequencesExt

CONSTANTS
    MaxJoinRetries,  \* MAX_INITIAL_JOIN_RETRIES
    Deployments      \* the ways the handler is run, and what its network does

ASSUME HandlerAssumption ==
    /\ MaxJoinRetries \in Nat
    /\ \A d \in Deployments :
         /\ d.arms \subseteq {"A", "B"}          \* the channels it joined
         /\ d.hold_capacity \in Nat \ {0}        \* recovery_buffer_datagrams
         /\ d.replay \in BOOLEAN                 \* is a replay service configured?
         /\ d.gap_timeouts \in BOOLEAN           \* may the feed be quiet for gap_timeout?
         /\ d.max_lost \in Nat                   \* bound on the items the arms lose
         /\ d.fragments \in Nat \ {0}            \* fragments of a snapshot cycle, one per symbol
         /\ d.fragments_lost \in BOOLEAN         \* may a snapshot fragment be lost?
         \* the sets of last sequences a cycle may be published at
         /\ d.cycle_points \subseteq SUBSET {End(x) - 1 : x \in Datagrams}
         \* how many items go past before the handler joins
         /\ d.join_points \subseteq Nat

VARIABLES
    deploy, \* which of the deployments this is
    log,   \* what the publisher sends on each arm, in order
    pos,   \* how much of it each arm has delivered or lost
    lost,  \* how many items the arms have lost
    seen,  \* history: the datagrams that have reached the handler
    h      \* the handler

vars == <<deploy, log, pos, lost, seen, h>>

Messages == 1 .. MaxSeq

\* The symbol a message is about, numbered like the fragment that carries it.
symbol(s) == (s % deploy.fragments) + 1

InOrder(ds) == SetToSortSeq(ds, LAMBDA d, e : d.first < e.first)

NoRequest == [from |-> 0, through |-> 0]

(***************************************************************************)
(* The publisher: the datagrams in order and, at each cycle point, the     *)
(* fragments of a snapshot of everything up to there (publish_snapshot     *)
(* flushes first, so a cycle never falls inside a datagram).               *)
(***************************************************************************)
cycle(last) == [i \in 1 .. deploy.fragments |-> [last_sequence |-> last, fragment |-> i]]

published(cycles) ==
    FlattenSeq([i \in 1 .. Cardinality(Datagrams) |->
        LET d == InOrder(Datagrams)[i]
        IN  <<d>> \o IF End(d) - 1 \in cycles THEN cycle(End(d) - 1) ELSE <<>>])

is_snapshot_datagram(item) == "fragment" \in DOMAIN item

-----------------------------------------------------------------------------
(***************************************************************************)
(* The recovery buffer (recovery.rs).  Reconciling lasts only inside one   *)
(* call of the handler, so a state between two steps is Idle or waiting.   *)
(***************************************************************************)
Idle == [recovering |-> FALSE, gap_from |-> 0, held |-> <<>>]

begin(rec, gap_from) ==
    IF rec.recovering
    THEN rec
    ELSE [recovering |-> TRUE, gap_from |-> gap_from, held |-> <<>>]

snapshot_is_usable(rec, last_sequence) ==
    rec.recovering /\ last_sequence + 1 >= rec.gap_from

hold_fails(rec) == Len(rec.held) = deploy.hold_capacity

hold(rec, d) == [rec EXCEPT !.held = Append(@, d)]

reopen(rec, gap_from) == [rec EXCEPT !.gap_from = gap_from]

(***************************************************************************)
(* What the scans of the held traffic expect when they come to slot i: one *)
(* past everything from the starting point and the slots before it.        *)
(***************************************************************************)
expected_at(held, from, i) ==
    Max({from} \cup {End(held[j]) : j \in 1 .. (i - 1)})

\* The first slot that starts past what is expected there; one past the end if none.
hole_at(held, from) ==
    Min({i \in 1 .. Len(held) : held[i].first > expected_at(held, from, i)}
            \cup {Len(held) + 1})

\* Mutant of held_discontinuity: only the front of the held traffic is compared.
held_discontinuity_FrontOnly(rec, from) ==
    rec.held # <<>> /\ rec.held[1].first > from

held_discontinuity(rec, from) == hole_at(rec.held, from) <= Len(rec.held)

unverified_messages(rec, covered_from, covered_through) ==
    \E i \in 1 .. (hole_at(rec.held, covered_through + 1) - 1) :
        /\ End(rec.held[i]) <= expected_at(rec.held, covered_through + 1, i)
        /\ rec.held[i].first < covered_from

-----------------------------------------------------------------------------
(***************************************************************************)
(* The handler.  book counts, up to two, how often each message is         *)
(* reflected in the books, whether it was applied or came with a snapshot. *)
(* Of the statistics it keeps what is_clean and the control flow read, and *)
(* of a counter only whether it is zero.                                   *)
(***************************************************************************)
NewStats ==
    [ applied_high |-> 0,
      joined_mid_stream |-> FALSE,
      completed |-> FALSE,
      sequence_jumps |-> FALSE,
      duplicate_applies |-> FALSE,
      apply_errors |-> FALSE,
      unverified_drops |-> FALSE,
      recoveries_abandoned |-> FALSE ]

NewHandler ==
    NewStats @@
    [ arb |-> NewArbitrator,
      rec |-> Idle,
      book |-> [s \in Messages |-> 0],
      in_cycle |-> FALSE,
      started_stream |-> FALSE,
      initial_join_retries |-> 0,
      pending_replay |-> NoRequest,
      last_replay_from |-> 0,
      stopped |-> FALSE ]

\* The arbitrator's running totals are its own module's matter.
uncounted(a) == [a EXCEPT !.messages_delivered = 0, !.messages_missed = 0]

gapped(k) == k.arb.state = "Gapped"

(***************************************************************************)
(* consume: apply the messages of a datagram from skip_below to skip_above *)
(* and compare them with the highest sequence applied so far.  Whether the *)
(* books notice a message applied twice or out of turn depends on its      *)
(* kind; the model takes the kinds that go unnoticed.                      *)
(***************************************************************************)
consume(k, d, is_gapped, skip_below, skip_above) ==
    LET taken == {s \in Seqs(d) : skip_below <= s /\ s <= skip_above}
    IN  IF taken = {}
        THEN k
        ELSE [k EXCEPT
                !.sequence_jumps = @ \/ (/\ ~is_gapped
                                         /\ k.applied_high # 0
                                         /\ Min(taken) > k.applied_high + 1),
                !.duplicate_applies = @ \/ Min(taken) <= k.applied_high,
                !.applied_high = Max(taken \cup {@}),
                !.book = [s \in Messages |->
                            IF s \in taken THEN Min({2, @[s] + 1}) ELSE @[s]]]

\* consume over a sequence of datagrams, with one starting point for all of them.
consume_all(k, ds, is_gapped, skip_below, skip_above) ==
    FoldLeft(LAMBDA acc, d : consume(acc, d, is_gapped, skip_below, skip_above), k, ds)

(***************************************************************************)
(* A recovery that failed because its buffer is full: an initial join is   *)
(* tried again a bounded number of times, any other recovery is abandoned. *)
(***************************************************************************)
recovery_overflowed(k) ==
    CASE k.joined_mid_stream /\ ~k.completed
           /\ k.initial_join_retries < MaxJoinRetries ->
            [k EXCEPT !.rec = begin(Idle, 1), !.initial_join_retries = @ + 1]
      [] k.joined_mid_stream /\ ~k.completed
           /\ k.initial_join_retries >= MaxJoinRetries ->
            [k EXCEPT !.rec = Idle, !.stopped = TRUE]
      [] ~(k.joined_mid_stream /\ ~k.completed) ->
            [k EXCEPT !.rec = Idle, !.recoveries_abandoned = TRUE]

\* Mutant of drain_into_books: what is ready stays in the window.
drain_into_books_Forgotten(k) == k

drain_into_books(k) ==
    LET ready == InOrder(drained(k.arb))
    IN  consume_all([k EXCEPT !.arb = uncounted(drain_ready(@))], ready,
                    gapped(k), 0, MaxSeq)

(***************************************************************************)
(* The drain during a recovery: held while there is room; what no longer   *)
(* fits has left the window and is lost without a gap.                     *)
(***************************************************************************)
drain_into_hold(k) ==
    LET ready == InOrder(drained(k.arb))
        room == Max({0, deploy.hold_capacity - Len(k.rec.held)})
        after == [k EXCEPT !.arb = uncounted(drain_ready(@)),
                           !.rec.held = @ \o SubSeq(ready, 1, Min({room, Len(ready)}))]
    IN  IF Len(ready) <= room
        THEN after
        ELSE recovery_overflowed([after EXCEPT !.unverified_drops = TRUE])

-----------------------------------------------------------------------------
(***************************************************************************)
(* One incremental datagram: the arm of the main loop from accept to the   *)
(* drain after it.                                                         *)
(***************************************************************************)
on_ready(k, d) ==
    LET joins == ~k.started_stream /\ d.first # 1
        k1 == [k EXCEPT !.started_stream = TRUE,
                        !.joined_mid_stream = @ \/ joins,
                        !.rec = IF joins THEN begin(@, 1) ELSE @]
    IN  IF k1.rec.recovering
        THEN IF hold_fails(k1.rec)
             THEN recovery_overflowed(k1)
             ELSE [k1 EXCEPT !.rec = hold(@, d)]
        ELSE consume(k1, d, gapped(k1), 0, MaxSeq)

on_incremental(k, d) ==
    LET as == accepted_as(k.arb, d)
        k1 == [k EXCEPT !.arb = uncounted(accept(@, d))]
        k2 == CASE as = "Ready" -> on_ready(k1, d)
                [] as = "ForcedGap" ->
                      [k1 EXCEPT !.rec = begin(@, gap_of(k.arb).from)]
                [] as \in {"Buffered", "Duplicate"} -> k1
    IN  IF k2.stopped THEN k2
        ELSE IF k2.rec.recovering THEN drain_into_hold(k2)
        ELSE drain_into_books(k2)

(***************************************************************************)
(* The end of both recovery paths: the held traffic is applied on top of   *)
(* what the answer covers and the recovery is over; or, when a second gap  *)
(* opened in it, it is applied up to there and the recovery stays open.    *)
(***************************************************************************)
\* Mutant of reconcile: held traffic is applied whole.
reconcile_Whole(k, through) ==
    [consume_all(k, k.rec.held, FALSE, 0, MaxSeq)
        EXCEPT !.rec = Idle, !.completed = TRUE]

reconcile(k, through) ==
    [consume_all(k, k.rec.held, FALSE, through + 1, MaxSeq)
        EXCEPT !.rec = Idle, !.completed = TRUE]

stay_in_recovery(k, covered_from, covered_through) ==
    LET held == k.rec.held
        n == hole_at(held, covered_through + 1)
        from == expected_at(held, covered_through + 1, n)
        skipping(acc, i) ==
            consume(acc, held[i], FALSE, expected_at(held, covered_through + 1, i), MaxSeq)
    IN  [FoldLeft(skipping, k, [i \in 1 .. (n - 1) |-> i])
            EXCEPT !.unverified_drops =
                        @ \/ unverified_messages(k.rec, covered_from, covered_through),
                   !.rec = [reopen(@, from) EXCEPT !.held = SubSeq(held, n, Len(held))]]

(***************************************************************************)
(* handle_snapshot.  A fragment whose symbol already holds an order of it  *)
(* does not apply (SnapshotOverlap).                                       *)
(***************************************************************************)
covers(fragment) == {s \in 1 .. fragment.last_sequence : symbol(s) = fragment.fragment}

clear_all == [s \in Messages |-> 0]

end_cycle(k, last_sequence) ==
    IF held_discontinuity(k.rec, last_sequence + 1)
    THEN stay_in_recovery([k EXCEPT !.in_cycle = FALSE], 0, last_sequence)
    ELSE reconcile([k EXCEPT !.in_cycle = FALSE,
                             !.arb = resync_to(@, last_sequence + 1),
                             !.applied_high = Max({@, last_sequence})],
                   last_sequence)

apply_fragment(k, f) ==
    IF \E s \in covers(f) : k.book[s] > 0
    THEN [k EXCEPT !.apply_errors = TRUE, !.in_cycle = FALSE]
    ELSE LET k1 == [k EXCEPT !.book = [s \in Messages |->
                                         IF s \in covers(f) THEN 1 ELSE @[s]]]
         IN  IF f.fragment = deploy.fragments THEN end_cycle(k1, f.last_sequence) ELSE k1

\* Mutant of handle_snapshot: a cycle may be joined in the middle.
handle_snapshot_JoinsMidCycle(k, f) ==
    IF ~snapshot_is_usable(k.rec, f.last_sequence)
    THEN k
    ELSE apply_fragment(IF f.fragment = 1
                        THEN [k EXCEPT !.book = clear_all, !.in_cycle = TRUE]
                        ELSE k, f)

handle_snapshot(k, f) ==
    LET cycle_start == f.fragment = 1
    IN  IF ~snapshot_is_usable(k.rec, f.last_sequence) \/ (~cycle_start /\ ~k.in_cycle)
        THEN k
        ELSE apply_fragment(IF cycle_start
                            THEN [k EXCEPT !.book = clear_all, !.in_cycle = TRUE]
                            ELSE k, f)

(***************************************************************************)
(* The replay path.  The service answers with whole datagrams in order, or *)
(* refuses; an answer is applied only while a recovery is outstanding.     *)
(***************************************************************************)
answer(request) ==
    InOrder({d \in Datagrams : Seqs(d) \cap (request.from .. request.through) # {}})

apply_replay(k, request) ==
    IF ~k.rec.recovering
    THEN k
    ELSE LET k1 == consume_all(k, answer(request), FALSE,
                               request.from, request.through)
         IN  IF held_discontinuity(k1.rec, request.through + 1)
             THEN stay_in_recovery(k1, request.from, request.through)
             ELSE reconcile([k1 EXCEPT !.arb = clear_gapped(@)], request.through)

poll_replay(k, outcome) ==
    CASE outcome = "Empty" -> k
      [] outcome = "Ok" -> apply_replay([k EXCEPT !.pending_replay = NoRequest],
                                        k.pending_replay)
      [] outcome = "Refused" -> [k EXCEPT !.pending_replay = NoRequest]

request_replay(k) ==
    LET through == k.arb.next_expected - 1
    IN  IF /\ deploy.replay
           /\ k.pending_replay = NoRequest
           /\ k.rec.recovering
           /\ through >= k.rec.gap_from
           /\ k.last_replay_from # k.rec.gap_from
        THEN [k EXCEPT !.pending_replay = [from |-> k.rec.gap_from, through |-> through],
                       !.last_replay_from = k.rec.gap_from]
        ELSE k

(***************************************************************************)
(* The rest of a pass that read nothing: drain, give up on a hole that     *)
(* stayed open for gap_timeout, give up on a recovery past its deadline    *)
(* (never one that this pass began).                                       *)
(***************************************************************************)
\* Mutant of quiet: a recovery without a deadline.
quiet_NoDeadline(k, gap_timeout, deadline) ==
    LET k1 == IF k.rec.recovering THEN k ELSE drain_into_books(k)
    IN  IF gap_timeout /\ stalled(k1.arb)
        THEN [k1 EXCEPT !.rec = begin(@, gap_of(k1.arb).from),
                        !.arb = uncounted(declare_gap(@))]
        ELSE k1

quiet(k, gap_timeout, deadline) ==
    LET k1 == IF k.rec.recovering THEN k ELSE drain_into_books(k)
        k2 == IF gap_timeout /\ stalled(k1.arb)
              THEN [k1 EXCEPT !.rec = begin(@, gap_of(k1.arb).from),
                              !.arb = uncounted(declare_gap(@))]
              ELSE k1
    IN  IF deadline /\ k.rec.recovering
        THEN [k2 EXCEPT !.rec = Idle, !.recoveries_abandoned = TRUE]
        ELSE k2

-----------------------------------------------------------------------------
Init ==
    /\ deploy \in Deployments
    /\ \E cycles \in deploy.cycle_points : log = published(cycles)
    /\ \E n \in deploy.join_points : pos = [arm \in deploy.arms |-> Min({n, Len(log)})]
    /\ lost = 0
    /\ seen = {}
    /\ h = NewHandler

Receive(arm) ==
    /\ ~h.stopped
    /\ pos[arm] < Len(log)
    /\ pos' = [pos EXCEPT ![arm] = @ + 1]
    /\ LET item == log[pos'[arm]]
       IN  IF is_snapshot_datagram(item)
           THEN h' = handle_snapshot(h, item) /\ seen' = seen
           ELSE h' = on_incremental(h, item) /\ seen' = seen \cup {item}
    /\ UNCHANGED <<deploy, log, lost>>

Lose(arm) ==
    /\ lost < deploy.max_lost
    /\ pos[arm] < Len(log)
    /\ is_snapshot_datagram(log[pos[arm] + 1]) => deploy.fragments_lost
    /\ pos' = [pos EXCEPT ![arm] = @ + 1]
    /\ lost' = lost + 1
    /\ UNCHANGED <<deploy, log, seen, h>>

(***************************************************************************)
(* The end of a pass: poll the outstanding request, send one if there is   *)
(* a hole to ask for, and the quiet part when the pass read nothing.       *)
(***************************************************************************)
outcomes == IF h.pending_replay = NoRequest THEN {"Empty"} ELSE {"Empty", "Ok", "Refused"}

EndPass ==
    /\ ~h.stopped
    /\ \E outcome \in outcomes : h' = request_replay(poll_replay(h, outcome))
    /\ UNCHANGED <<deploy, log, pos, lost, seen>>

QuietPass(deadline) ==
    /\ ~h.stopped
    /\ \E outcome \in outcomes, gap_timeout \in {FALSE, deploy.gap_timeouts} :
         h' = quiet(request_replay(poll_replay(h, outcome)), gap_timeout, deadline)
    /\ UNCHANGED <<deploy, log, pos, lost, seen>>

Next ==
    \/ \E arm \in deploy.arms : Receive(arm) \/ Lose(arm)
    \/ EndPass
    \/ QuietPass(FALSE)
    \/ QuietPass(TRUE)

Spec == Init /\ [][Next]_vars

(***************************************************************************)
(* The loop reads both arms on every pass; once they are silent every pass *)
(* is a quiet one, and time passes until the deadline of a recovery.       *)
(***************************************************************************)
Silent == \A arm \in deploy.arms : pos[arm] = Len(log)

Pending(arm) == arm \in deploy.arms /\ ~h.stopped /\ pos[arm] < Len(log)

DeadlineIsDue ==
    /\ ~h.stopped
    /\ Silent
    /\ quiet(request_replay(poll_replay(h, "Empty")), FALSE, TRUE) # h

\* Weak fairness of Receive(arm) and of the pass that finds the deadline due.
FairSpec ==
    /\ Spec
    /\ \A arm \in {"A", "B"} :
         []<>(~Pending(arm)) \/ []<><<Pending(arm) /\ Receive(arm)>>_vars
    /\ []<>(~DeadlineIsDue) \/ []<><<DeadlineIsDue /\ QuietPass(TRUE)>>_vars

-----------------------------------------------------------------------------
\* The final report's verdict on the run (stats.rs).
is_clean(k) ==
    /\ k.arb.state # "Gapped"
    /\ ~k.rec.recovering
    /\ ~k.recoveries_abandoned
    /\ ~k.apply_errors
    /\ k.arb.dropped_window_full = 0
    /\ ~k.unverified_drops
    /\ ~k.sequence_jumps
    /\ ~k.duplicate_applies

(***************************************************************************)
(* "A run is clean when it ends holding a book that can be trusted"        *)
(* (stats.rs, is_clean): whenever the loop can stop, which is with nothing *)
(* left to drain, and the handler would report a clean run, its books      *)
(* reflect every message up to the highest one applied exactly once,       *)
(* nothing above it, and no message it was given and passed over.          *)
(***************************************************************************)
CleanIsTrustworthy ==
    is_clean(h) /\ ~h.stopped /\ covering(h.arb, h.arb.next_expected) = {} =>
        /\ h.arb.next_expected <= h.applied_high + 1
        /\ \A s \in Messages : h.book[s] = IF s <= h.applied_high THEN 1 ELSE 0

(***************************************************************************)
(* Snapshots on both arms: the other arm can then still bring traffic that *)
(* a snapshot's recovery has already applied from the held traffic         *)
(* (resync_to moves the frontier behind it), and a recovery can reopen on  *)
(* a snapshot without moving applied_high (handle_snapshot, reopen).       *)
(***************************************************************************)
SnapshotsOnBothArms ==
    Cardinality(deploy.arms) = 2 /\ \E i \in DOMAIN log : is_snapshot_datagram(log[i])

(***************************************************************************)
(* A recovery was abandoned and the request it had made was not withdrawn  *)
(* (poll_replay): its answer may come while a later recovery is            *)
(* outstanding, and is then applied in its place.                          *)
(***************************************************************************)
AnswersOutliveRecoveries == deploy.replay /\ h.recoveries_abandoned

(***************************************************************************)
(* A sequence the books already have is never applied again: "There is no  *)
(* legitimate path to this" (main.rs, consume).  The arbitrator's frontier *)
(* and the books' high-water mark are moved by different code on every     *)
(* path, and agree only if resync_to, the held traffic and the skip bounds *)
(* all do.                                                                 *)
(***************************************************************************)
NoDuplicateApplies ==
    h.duplicate_applies => SnapshotsOnBothArms \/ AnswersOutliveRecoveries

(***************************************************************************)
(* The same without its exceptions, which the code takes for granted when  *)
(* it polls a replay: "applying it would re-apply messages the book        *)
(* already has. `apply_replay` checks" (main.rs:666-668).                  *)
(***************************************************************************)
NeverAppliedAgain == ~h.duplicate_applies

(***************************************************************************)
(* What the books are given never skips a message unless a declared gap or *)
(* a reported loss accounts for it: until a recovery is abandoned or held  *)
(* traffic is dropped with a count, the applied stream does not jump.      *)
(***************************************************************************)
NoUnexplainedJump ==
    h.sequence_jumps => h.recoveries_abandoned \/ h.unverified_drops \/ SnapshotsOnBothArms

(***************************************************************************)
(* A recovery begins only for a message that has not arrived: a full       *)
(* window never gives up on a datagram that one of the arms has already    *)
(* delivered.  (A gap declared on a quiet pass leaves the window undrained,*)
(* and the next recovery may then begin at a message it holds.)            *)
(***************************************************************************)
NeverGivesUpOnReceived ==
    [][ ~deploy.gap_timeouts /\ ~h.rec.recovering /\ h'.rec.recovering =>
            \A d \in seen : h'.rec.gap_from \notin Seqs(d) ]_vars

(***************************************************************************)
(* "If the buffer fills or the deadline passes, recovery has failed": a    *)
(* recovery always ends, one way or the other; none is left open by a      *)
(* reopen, a refused replay or an unusable snapshot.                       *)
(***************************************************************************)
RecoveryEnds == h.rec.recovering ~> ~h.rec.recovering

=============================================================================
