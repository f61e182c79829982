--------------------------- MODULE ArbitratorOps ---------------------------
(***************************************************************************)
(* The A/B arbitrator of the feed handler                                  *)
(* (crates/feed-handler/src/arbitration.rs) as operators on its state, one *)
(* per function of the source.  A datagram is the range of sequence        *)
(* numbers its header announces; its bytes play no part in arbitration.    *)
(* The state machine that drives these operators is Arbitrator; the whole  *)
(* handler around them is FeedHandler.                                     *)
(***************************************************************************)
EXTENDS Integers, FiniteSets

CONSTANTS
    MaxSeq,     \* the highest sequence number the publisher uses
    Datagrams,  \* every incremental datagram the publisher sends
    Capacity    \* window_datagrams, the advertised bound of the window

End(d) == d.first + d.count

Seqs(d) == d.first .. (End(d) - 1)

(***************************************************************************)
(* The publisher never sends an empty datagram, cuts its stream into       *)
(* datagrams once and sends the same bytes on both arms, so two datagrams  *)
(* that share a sequence number are the same datagram.                     *)
(***************************************************************************)
ASSUME SizesAssumption ==
    /\ MaxSeq \in Nat \ {0}
    /\ Capacity \in Nat \ {0}

ASSUME DatagramsAssumption ==
    /\ IsFiniteSet(Datagrams)
    /\ Datagrams \subseteq [first : 1 .. MaxSeq, count : 1 .. MaxSeq]
    /\ \A d \in Datagrams : End(d) <= MaxSeq + 1
    /\ \A d, e \in Datagrams : Seqs(d) \cap Seqs(e) # {} => d = e

FeedState == {"Syncing", "Live", "Gapped"}

(***************************************************************************)
(* The window is the set of the datagrams its occupied slots hold, which   *)
(* loses only the slots' numbers.  There is one slot more than Capacity.   *)
(***************************************************************************)
ArbitratorState ==
    [ state : FeedState,
      started : BOOLEAN,
      next_expected : 0 .. (MaxSeq + 1),
      window : SUBSET Datagrams,
      messages_delivered : Nat,
      messages_missed : Nat,
      dropped_window_full : Nat ]

NewArbitrator ==
    [ state |-> "Syncing", started |-> FALSE, next_expected |-> 0,
      window |-> {}, messages_delivered |-> 0, messages_missed |-> 0,
      dropped_window_full |-> 0 ]

occupied(a) == Cardinality(a.window)

free_slot(a) == occupied(a) < Capacity + 1

find_slot(a, first) == \E s \in a.window : s.first = first

covering(a, n) == {s \in a.window : n \in Seqs(s)}

store(a, d) == [a EXCEPT !.window = @ \cup {d}]

deliver(a, d) ==
    [a EXCEPT !.messages_delivered = @ + (End(d) - a.next_expected),
              !.next_expected = End(d),
              !.state = IF @ = "Gapped" THEN @ ELSE "Live"]

(***************************************************************************)
(* Giving up on the hole at the frontier: the frontier moves to the lowest *)
(* datagram in the window.  The gap that is reported always names at least *)
(* one sequence (the source's .max(self.next_expected)), also when there   *)
(* was no hole; a release build compiles the debug_assert away.            *)
(***************************************************************************)
lowest_buffered(a) ==
    (CHOOSE s \in a.window : \A t \in a.window : s.first <= t.first).first

\* Mutant of gap_of: the gap stops one short of the lowest buffered datagram.
gap_of_OneShort(a) ==
    LET last == lowest_buffered(a) - 2
    IN  [from |-> a.next_expected,
         through |-> IF last >= a.next_expected THEN last ELSE a.next_expected]

gap_of(a) ==
    LET last == lowest_buffered(a) - 1
    IN  [from |-> a.next_expected,
         through |-> IF last >= a.next_expected THEN last ELSE a.next_expected]

\* Mutant of declare_gap: the frontier stops one short of the lowest buffered sequence.
declare_gap_OneShort(a) ==
    [a EXCEPT !.messages_missed = @ + (gap_of(a).through + 1 - a.next_expected),
              !.state = "Gapped",
              !.next_expected = lowest_buffered(a) - 1]

declare_gap(a) ==
    [a EXCEPT !.messages_missed = @ + (gap_of(a).through + 1 - a.next_expected),
              !.state = "Gapped",
              !.next_expected = lowest_buffered(a)]

keep_after_gap(a, d) ==
    CASE End(d) <= a.next_expected -> a
      [] End(d) > a.next_expected /\ d.first <= a.next_expected -> deliver(a, d)
      [] d.first > a.next_expected /\ free_slot(a) -> store(a, d)
      [] d.first > a.next_expected /\ ~free_slot(a) ->
            [a EXCEPT !.dropped_window_full = @ + 1]

(***************************************************************************)
(* accept.  The first datagram with a message in it starts the stream; the *)
(* answer then depends only on where the datagram lies.                    *)
(***************************************************************************)
begun(a, d) ==
    IF a.started \/ d.count = 0
    THEN a
    ELSE [a EXCEPT !.started = TRUE, !.next_expected = d.first, !.state = "Live"]

\* Mutant of accepted_as: the window may fill its spare slot.
accepted_as_SpareUsed(a, d) ==
    LET n == begun(a, d).next_expected
    IN  CASE d.count = 0 \/ End(d) <= n -> "Duplicate"
          [] d.count > 0 /\ d.first <= n /\ n < End(d) -> "Ready"
          [] d.count > 0 /\ n < d.first /\ find_slot(a, d.first) -> "Duplicate"
          [] d.count > 0 /\ n < d.first /\ ~find_slot(a, d.first) ->
                IF occupied(a) <= Capacity THEN "Buffered" ELSE "ForcedGap"

accepted_as(a, d) ==
    LET n == begun(a, d).next_expected
    IN  CASE d.count = 0 \/ End(d) <= n -> "Duplicate"
          [] d.count > 0 /\ d.first <= n /\ n < End(d) -> "Ready"
          [] d.count > 0 /\ n < d.first /\ find_slot(a, d.first) -> "Duplicate"
          [] d.count > 0 /\ n < d.first /\ ~find_slot(a, d.first) ->
                IF occupied(a) < Capacity THEN "Buffered" ELSE "ForcedGap"

accept(a, d) ==
    LET b == begun(a, d)
        as == accepted_as(a, d)
    IN  CASE as = "Duplicate" -> b
          [] as = "Ready" -> deliver(b, d)
          [] as = "Buffered" -> store(b, d)
          [] as = "ForcedGap" -> keep_after_gap(declare_gap(b), d)

(***************************************************************************)
(* drain_ready.  The loop releases the datagram that covers the frontier   *)
(* and moves the frontier to its end until no datagram covers it, so it    *)
(* stops at the first sequence that no datagram in the window holds.       *)
(***************************************************************************)
drained_to(a) ==
    CHOOSE n \in a.next_expected .. (MaxSeq + 1) :
        /\ covering(a, n) = {}
        /\ \A m \in a.next_expected .. (n - 1) : covering(a, m) # {}

drained(a) ==
    {s \in a.window : a.next_expected < End(s) /\ s.first < drained_to(a)}

\* Mutants of drain_ready: a released slot stays occupied, and a datagram
\* counted as one message.
drain_ready_KeepsSlots(a) ==
    [a EXCEPT !.messages_delivered = @ + (drained_to(a) - a.next_expected),
              !.next_expected = drained_to(a),
              !.state = IF @ = "Gapped" \/ drained(a) = {} THEN @ ELSE "Live"]

drain_ready_CountsDatagrams(a) ==
    [a EXCEPT !.window = @ \ drained(a),
              !.messages_delivered = @ + Cardinality(drained(a)),
              !.next_expected = drained_to(a),
              !.state = IF @ = "Gapped" \/ drained(a) = {} THEN @ ELSE "Live"]

drain_ready(a) ==
    [a EXCEPT !.window = @ \ drained(a),
              !.messages_delivered = @ + (drained_to(a) - a.next_expected),
              !.next_expected = drained_to(a),
              !.state = IF @ = "Gapped" \/ drained(a) = {} THEN @ ELSE "Live"]

resync_to(a, sequence) ==
    [a EXCEPT !.window = {}, !.next_expected = sequence,
              !.state = "Live", !.started = TRUE]

clear_gapped(a) == [a EXCEPT !.state = IF @ = "Gapped" THEN "Live" ELSE @]

stalled(a) == a.window # {} /\ covering(a, a.next_expected) = {}

=============================================================================
