----------------------------- MODULE Arbitrator -----------------------------
(***************************************************************************)
(* The A/B arbitrator driven the way the handler's main loop drives it:    *)
(* every datagram that arrives is accepted and the window is drained       *)
(* afterwards; a quiet pass may drain, and may declare the open hole lost; *)
(* a recovery ends by resync_to or clear_gapped.  A datagram may arrive at *)
(* any time, up to Copies times or never: the two arms (Copies = 2) lose,  *)
(* delay and reorder independently of each other.                          *)
(***************************************************************************)
EXTENDS ArbitratorOps

CONSTANTS
    Copies,      \* how often one datagram can arrive, over both arms
    MaxResyncs   \* bound on the number of resynchronisations

ASSUME DriverAssumption ==
    /\ Copies \in Nat
    /\ MaxResyncs \in Nat

VARIABLES
    arb,       \* the arbitrator
    arrivals,  \* how often each datagram has arrived
    resyncs,   \* Arbitrator::resyncs
    start,     \* history: the frontier when the stream last (re)started
    released,  \* history: sequences handed to the caller since then
    skipped,   \* history: sequences the frontier jumped over since then
    filled,    \* history: skipped sequences a replay has since filled
    recorded,  \* history: sequences named by a reported gap since then
    before,    \* history: messages_delivered at the last (re)start
    timed_out  \* history: a hole timed out on a quiet feed since then

vars == <<arb, arrivals, resyncs, start, released, skipped, filled, recorded, before, timed_out>>

\* Type correctness of the arbitrator (struct Arbitrator) and of the histories.
TypeOK ==
    /\ arb \in ArbitratorState
    /\ arrivals \in [Datagrams -> 0 .. Copies]
    /\ resyncs \in 0 .. MaxResyncs
    /\ start \in 0 .. (MaxSeq + 1)
    /\ released \in SUBSET (1 .. MaxSeq)
    /\ skipped \in SUBSET (1 .. MaxSeq)
    /\ filled \in SUBSET (1 .. MaxSeq)
    /\ recorded \in SUBSET (1 .. (MaxSeq + 1))
    /\ before \in Nat
    /\ timed_out \in BOOLEAN

Init ==
    /\ arb = NewArbitrator
    /\ arrivals = [d \in Datagrams |-> 0]
    /\ resyncs = 0
    /\ start = 0
    /\ released = {} /\ skipped = {} /\ filled = {} /\ recorded = {}
    /\ before = 0
    /\ timed_out = FALSE

GapSeqs(g) == g.from .. g.through

(***************************************************************************)
(* One datagram: accept, then drain_ready.  A Ready datagram is decoded by *)
(* the caller from its own buffer, the drained ones through the callback.  *)
(***************************************************************************)
Offer(d) ==
    LET b == begun(arb, d)
        as == accepted_as(arb, d)
        a == accept(arb, d)
    IN  /\ arrivals[d] < Copies
        /\ arrivals' = [arrivals EXCEPT ![d] = @ + 1]
        /\ arb' = drain_ready(a)
        /\ start' = IF arb.started THEN start ELSE b.next_expected
        /\ released' = released
                         \cup (IF as = "Ready" THEN Seqs(d) ELSE {})
                         \cup UNION {Seqs(s) : s \in drained(a)}
        /\ skipped' = skipped \cup (IF as = "ForcedGap"
                                    THEN arb.next_expected .. (lowest_buffered(arb) - 1)
                                    ELSE {})
        /\ recorded' = recorded \cup (IF as = "ForcedGap"
                                      THEN GapSeqs(gap_of(arb))
                                      ELSE {})
        /\ UNCHANGED <<resyncs, filled, before, timed_out>>

(***************************************************************************)
(* The quiet pass of the main loop: the drain it does when no recovery is  *)
(* outstanding, and the decision that a hole is no longer late.  The       *)
(* window is not drained after that decision: a recovery has begun, and    *)
(* the quiet pass drains only when there is none.                          *)
(***************************************************************************)
QuietDrain ==
    /\ covering(arb, arb.next_expected) # {}
    /\ arb' = drain_ready(arb)
    /\ released' = released \cup UNION {Seqs(s) : s \in drained(arb)}
    /\ UNCHANGED <<arrivals, resyncs, start, skipped, filled, recorded, before, timed_out>>

DeclareGapIfStalled ==
    /\ stalled(arb)
    /\ arb' = declare_gap(arb)
    /\ skipped' = skipped \cup (arb.next_expected .. (lowest_buffered(arb) - 1))
    /\ recorded' = recorded \cup GapSeqs(gap_of(arb))
    /\ timed_out' = TRUE
    /\ UNCHANGED <<arrivals, resyncs, start, released, filled, before>>

(***************************************************************************)
(* A snapshot closed the gap.  It is consistent as of the end of a         *)
(* datagram, because the publisher flushes before it starts a cycle.       *)
(***************************************************************************)
ResyncTo(sequence) ==
    /\ resyncs < MaxResyncs
    /\ arb.started
    /\ arb' = resync_to(arb, sequence)
    /\ resyncs' = resyncs + 1
    /\ start' = sequence
    /\ released' = {} /\ skipped' = {} /\ filled' = {} /\ recorded' = {}
    /\ before' = arb.messages_delivered
    /\ timed_out' = FALSE
    /\ UNCHANGED arrivals

(***************************************************************************)
(* A replay filled the range the handler had asked for: from a missing     *)
(* sequence, or from the first when the handler joined a running stream.   *)
(* The arbitrator is not told which: clear_gapped makes it Live even when  *)
(* another gap, or part of one, lies outside the range.                    *)
(***************************************************************************)
ClearGapped(range) ==
    /\ arb' = clear_gapped(arb)
    /\ filled' = filled \cup (skipped \cap range)
    /\ skipped' = skipped \ range
    /\ UNCHANGED <<arrivals, resyncs, start, released, recorded, before, timed_out>>

Next ==
    \/ \E d \in Datagrams : Offer(d)
    \/ QuietDrain
    \/ DeclareGapIfStalled
    \/ \E d \in Datagrams : ResyncTo(End(d))
    \/ \E from \in recorded \cup {1} :
          \E through \in from .. MaxSeq : ClearGapped(from .. through)

Spec == Init /\ [][Next]_vars

-----------------------------------------------------------------------------
(***************************************************************************)
(* Once the stream has started, every sequence from where it (re)started   *)
(* up to the frontier has been handed to the caller, or was given up on in *)
(* a declared gap, or was given up on and filled by a replay since: never  *)
(* two of these, never none.  deliver, declare_gap and drain_ready move    *)
(* the same frontier and this is what they must agree on.  It holds until  *)
(* a hole times out on a quiet feed: declare_gap_if_stalled leaves the     *)
(* window undrained, and a second copy then strands a datagram in it.      *)
(***************************************************************************)
FrontierAccounted ==
    arb.started /\ ~timed_out =>
        /\ released \cup skipped \cup filled = start .. (arb.next_expected - 1)
        /\ released \cap skipped = {}
        /\ released \cap filled = {}
        /\ skipped \cap filled = {}

(***************************************************************************)
(* The weaker half, which survives a quiet feed: nothing below the         *)
(* frontier is lost without a declared gap having named it.                *)
(***************************************************************************)
NothingSilentlyLost ==
    arb.started =>
        start .. (arb.next_expected - 1) \subseteq released \cup recorded

(***************************************************************************)
(* messages_delivered counts each sequence handed to the caller exactly    *)
(* once, whichever arm, the window or a forced gap it came through         *)
(* (deliver's end.saturating_sub(self.next_expected)), as long as no hole  *)
(* has timed out on a quiet feed.                                          *)
(***************************************************************************)
DeliveredExactlyOnce ==
    ~timed_out => arb.messages_delivered = before + Cardinality(released)

(***************************************************************************)
(* What waits in the window lies at or past the frontier and has not been  *)
(* handed over: a datagram is never released twice through the window, and *)
(* none is stranded behind the frontier, where drain_ready would never     *)
(* find it and declare_gap would move the frontier back to it.  Again as   *)
(* long as no hole has timed out on a quiet feed.                          *)
(***************************************************************************)
WindowAheadOfFrontier ==
    ~timed_out => \A s \in arb.window : arb.next_expected <= s.first

(***************************************************************************)
(* The one spare slot is enough: between two calls the window is within    *)
(* its advertised capacity, so the datagram that forces a gap always finds *)
(* a slot and dropped_window_full stays zero (keep_after_gap, None arm).   *)
(* keep_after_gap's own comment expects otherwise, of a caller that        *)
(* declares two gaps without draining between, "as the handler does while  *)
(* recovering"; the handler drains after every datagram, recovering or     *)
(* not, which is what Offer says and this property rests on.               *)
(***************************************************************************)
SpareSlotSuffices ==
    /\ occupied(arb) <= Capacity
    /\ arb.dropped_window_full = 0

(***************************************************************************)
(* declare_gap asserts that the lowest buffered datagram lies strictly     *)
(* past the frontier, "guaranteed by the caller checks above, so this      *)
(* cannot invert": whenever a full window or a stalled one would lead to   *)
(* it, there is a hole to give up on.                                      *)
(***************************************************************************)
GapLiesAhead ==
    stalled(arb) \/ (\E d \in Datagrams : accepted_as(arb, d) = "ForcedGap") =>
        arb.next_expected < lowest_buffered(arb)

=============================================================================
