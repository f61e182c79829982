-------------------------- MODULE ArbitratorProofs --------------------------
(***************************************************************************)
(* Proofs about Arbitrator, for every stream of datagrams, every window    *)
(* capacity and every number of copies and resynchronisations.             *)
(***************************************************************************)
EXTENDS Arbitrator, FiniteSetTheorems, WellFoundedInduction, TLAPS

(***************************************************************************)
(* A non-empty set of natural numbers has a least element.                 *)
(***************************************************************************)
LEMMA LeastNatural ==
    ASSUME NEW T \in SUBSET Nat, T # {}
    PROVE  \E x \in T : \A y \in T : x <= y
<1>1. PICK x \in T : \A y \in T : ~(<<y, x>> \in OpToRel(<, Nat))
  BY NatLessThanWellFounded, WFMin, Zenon
<1>2. \A y \in T : ~(y < x)
  BY <1>1, Zenon DEF OpToRel
<1> QED
  BY <1>2

(***************************************************************************)
(* Elementary facts about the datagrams of the stream: their ranges lie    *)
(* within 1 .. MaxSeq, and two that share a sequence are the same.         *)
(***************************************************************************)
LEMMA DatagramFacts ==
    /\ \A d \in Datagrams :
          /\ d.first \in 1 .. MaxSeq /\ d.count \in 1 .. MaxSeq
          /\ End(d) \in 2 .. (MaxSeq + 1) /\ d.first < End(d)
          /\ d.first \in Seqs(d) /\ End(d) - 1 \in Seqs(d)
          /\ Seqs(d) \subseteq 1 .. MaxSeq
    /\ \A d, e \in Datagrams : \A n :
          n \in Seqs(d) /\ n \in Seqs(e) => d = e
BY SizesAssumption, DatagramsAssumption DEF End, Seqs

(***************************************************************************)
(* A window is finite, and the windows that accept and drain_ready make    *)
(* from it have the sizes one expects.                                     *)
(***************************************************************************)
LEMMA WindowFinite ==
    ASSUME NEW a \in ArbitratorState
    PROVE  /\ IsFiniteSet(a.window)
           /\ occupied(a) \in Nat
           /\ a.window = {} <=> occupied(a) = 0
<1>1. a.window \in SUBSET Datagrams
  BY DEF ArbitratorState
<1> QED
  BY <1>1, DatagramsAssumption, FS_Subset, FS_CardinalityType, FS_EmptySet DEF occupied

\* Storing one datagram adds at most one to the size of the window (store).
LEMMA AddOne ==
    ASSUME NEW S, NEW x, IsFiniteSet(S)
    PROVE  /\ IsFiniteSet(S \cup {x})
           /\ Cardinality(S) \in Nat
           /\ Cardinality(S \cup {x}) \in Nat
           /\ Cardinality(S \cup {x}) <= Cardinality(S) + 1
<1>1. Cardinality(S) \in Nat
  BY FS_CardinalityType
<1>2. /\ IsFiniteSet(S \cup {x})
      /\ Cardinality(S \cup {x}) = IF x \in S THEN Cardinality(S) ELSE Cardinality(S) + 1
  BY FS_AddElement
<1> QED
  BY <1>1, <1>2

(***************************************************************************)
(* drain_ready's loop stops: at the first sequence that nothing in the     *)
(* window covers, which exists because nothing covers MaxSeq + 1.          *)
(***************************************************************************)
LEMMA DrainedTo ==
    ASSUME NEW a \in ArbitratorState
    PROVE  /\ drained_to(a) \in a.next_expected .. (MaxSeq + 1)
           /\ covering(a, drained_to(a)) = {}
           /\ \A m \in a.next_expected .. (drained_to(a) - 1) : covering(a, m) # {}
<1> DEFINE T == {n \in a.next_expected .. (MaxSeq + 1) : covering(a, n) = {}}
<1>0. a.next_expected \in 0 .. (MaxSeq + 1) /\ a.window \in SUBSET Datagrams /\ MaxSeq \in Nat
  BY SizesAssumption DEF ArbitratorState
<1>1. covering(a, MaxSeq + 1) = {}
  <2> SUFFICES ASSUME NEW s \in a.window, MaxSeq + 1 \in Seqs(s)
               PROVE  FALSE
    BY DEF covering
  <2> QED
    BY <1>0, DatagramFacts
<1>2. T \in SUBSET Nat /\ T # {}
  <2>1. MaxSeq + 1 \in T
    BY <1>0, <1>1
  <2> QED
    BY <2>1, <1>0
<1>3. PICK x \in T : \A y \in T : x <= y
  BY <1>2, LeastNatural, Zenon
<1>4. \A m \in a.next_expected .. (x - 1) : covering(a, m) # {}
  BY <1>0, <1>3
<1>5. \E n \in a.next_expected .. (MaxSeq + 1) :
         /\ covering(a, n) = {}
         /\ \A m \in a.next_expected .. (n - 1) : covering(a, m) # {}
  BY <1>3, <1>4
<1> HIDE DEF T
<1> QED
  BY <1>5, Zenon DEF drained_to

(***************************************************************************)
(* declare_gap moves the frontier to the start of a datagram that is in    *)
(* the window and has none below it.                                       *)
(***************************************************************************)
LEMMA LowestBuffered ==
    ASSUME NEW a \in ArbitratorState, a.window # {}
    PROVE  \E s \in a.window : /\ lowest_buffered(a) = s.first
                               /\ \A t \in a.window : s.first <= t.first
<1> DEFINE T == {s.first : s \in a.window}
<1>1. a.window \in SUBSET Datagrams
  BY DEF ArbitratorState
<1>2. T \in SUBSET Nat /\ T # {}
  BY <1>1, DatagramFacts
<1>3. PICK x \in T : \A y \in T : x <= y
  BY <1>2, LeastNatural, Zenon
<1>4. \E s \in a.window : \A t \in a.window : s.first <= t.first
  BY <1>3
<1> QED
  BY <1>4, Zenon DEF lowest_buffered

-----------------------------------------------------------------------------
(***************************************************************************)
(* What accept does, case by case.  A datagram that finds the stream not   *)
(* started is Ready, so the other three cases see a started arbitrator.    *)
(***************************************************************************)
LEMMA BegunFacts ==
    ASSUME NEW a \in ArbitratorState, NEW d \in Datagrams
    PROVE  /\ begun(a, d) \in ArbitratorState
           /\ begun(a, d).window = a.window
           /\ begun(a, d).messages_delivered = a.messages_delivered
           /\ begun(a, d).dropped_window_full = a.dropped_window_full
           /\ begun(a, d).started
           /\ a.started => begun(a, d) = a
           /\ ~a.started => begun(a, d).next_expected = d.first
<1>1. d.count # 0 /\ d.first \in 0 .. (MaxSeq + 1)
  BY DatagramFacts, SizesAssumption
<1>2. CASE a.started
  <2>1. begun(a, d) = a
    BY <1>2 DEF begun
  <2> QED
    BY <2>1, <1>2
<1>3. CASE ~a.started
  <2>1. begun(a, d) = [a EXCEPT !.started = TRUE, !.next_expected = d.first, !.state = "Live"]
    BY <1>1, <1>3 DEF begun
  <2>2. begun(a, d).started = TRUE
    BY <2>1 DEF ArbitratorState
  <2>3. /\ begun(a, d).window = a.window
        /\ begun(a, d).messages_delivered = a.messages_delivered
        /\ begun(a, d).dropped_window_full = a.dropped_window_full
        /\ begun(a, d).next_expected = d.first
    BY <2>1 DEF ArbitratorState
  <2>4. begun(a, d) \in ArbitratorState
    BY <1>1, <2>1, Zenon DEF ArbitratorState, FeedState
  <2> QED
    BY <1>3, <2>2, <2>3, <2>4
<1> QED
  BY <1>2, <1>3

\* The answers accept gives a datagram, with the position of the datagram that
\* leads to each of them and the state it leaves (accept, arbitration.rs).
LEMMA AcceptCases ==
    ASSUME NEW a \in ArbitratorState, NEW d \in Datagrams
    PROVE  \/ /\ accepted_as(a, d) = "Duplicate"
              /\ a.started
              /\ accept(a, d) = a
           \/ /\ accepted_as(a, d) = "Ready"
              /\ d.first <= begun(a, d).next_expected
              /\ begun(a, d).next_expected < End(d)
              /\ accept(a, d) = deliver(begun(a, d), d)
           \/ /\ accepted_as(a, d) = "Buffered"
              /\ a.started
              /\ a.next_expected < d.first
              /\ ~find_slot(a, d.first)
              /\ occupied(a) < Capacity
              /\ accept(a, d) = store(a, d)
           \/ /\ accepted_as(a, d) = "ForcedGap"
              /\ a.started
              /\ a.next_expected < d.first
              /\ ~find_slot(a, d.first)
              /\ occupied(a) >= Capacity
              /\ accept(a, d) = keep_after_gap(declare_gap(a), d)
<1> DEFINE n == begun(a, d).next_expected
<1>1. n \in Nat /\ d.first \in Nat /\ d.count \in Nat /\ End(d) \in Nat
      /\ d.count # 0 /\ d.count > 0 /\ d.first < End(d)
  BY BegunFacts, DatagramFacts, SizesAssumption DEF ArbitratorState
<1>2. occupied(a) \in Nat /\ Capacity \in Nat
  BY WindowFinite, SizesAssumption
<1>3. ~a.started => n = d.first
  BY BegunFacts
<1>a. CASE End(d) <= n
  <2>1. accepted_as(a, d) = "Duplicate"
    BY <1>a, <1>1 DEF accepted_as
  <2>2. a.started
    BY <1>a, <1>1, <1>3
  <2> QED
    BY <2>1, <2>2, BegunFacts DEF accept
<1>b. CASE d.first <= n /\ n < End(d)
  <2>1. accepted_as(a, d) = "Ready"
    BY <1>b, <1>1 DEF accepted_as
  <2> QED
    BY <2>1, <1>b DEF accept
<1>c. CASE n < d.first /\ find_slot(a, d.first)
  <2>1. accepted_as(a, d) = "Duplicate"
    BY <1>c, <1>1 DEF accepted_as
  <2>2. a.started
    BY <1>c, <1>1, <1>3
  <2> QED
    BY <2>1, <2>2, BegunFacts DEF accept
<1>d. CASE n < d.first /\ ~find_slot(a, d.first)
  <2>1. accepted_as(a, d) = IF occupied(a) < Capacity THEN "Buffered" ELSE "ForcedGap"
    BY <1>d, <1>1 DEF accepted_as
  <2>2. a.started /\ begun(a, d) = a
    BY <1>d, <1>1, <1>3, BegunFacts
  <2> QED
    BY <2>1, <2>2, <1>d, <1>2 DEF accept
<1> QED
  BY <1>1, <1>a, <1>b, <1>c, <1>d

(***************************************************************************)
(* The elementary state changes keep the arbitrator well typed.            *)
(***************************************************************************)
LEMMA DeliverFacts ==
    ASSUME NEW a \in ArbitratorState, NEW d \in Datagrams,
           a.next_expected < End(d)
    PROVE  /\ deliver(a, d) \in ArbitratorState
           /\ deliver(a, d).next_expected = End(d)
           /\ deliver(a, d).window = a.window
           /\ deliver(a, d).messages_delivered
                = a.messages_delivered + (End(d) - a.next_expected)
           /\ deliver(a, d).dropped_window_full = a.dropped_window_full
           /\ a.started => deliver(a, d).started
<1>1. End(d) \in 0 .. (MaxSeq + 1)
  BY DatagramFacts, SizesAssumption
<1>2. End(d) - a.next_expected \in Nat
  BY <1>1, SizesAssumption DEF ArbitratorState
<1>3. a.messages_delivered + (End(d) - a.next_expected) \in Nat
  BY <1>2 DEF ArbitratorState
<1> QED
  BY <1>1, <1>3, Zenon DEF deliver, ArbitratorState, FeedState

\* store keeps the type and changes only the window.
LEMMA StoreFacts ==
    ASSUME NEW a \in ArbitratorState, NEW d \in Datagrams
    PROVE  /\ store(a, d) \in ArbitratorState
           /\ store(a, d) = [a EXCEPT !.window = a.window \cup {d}]
           /\ store(a, d).window = a.window \cup {d}
           /\ store(a, d).next_expected = a.next_expected
           /\ store(a, d).messages_delivered = a.messages_delivered
           /\ store(a, d).dropped_window_full = a.dropped_window_full
           /\ a.started => store(a, d).started
           /\ store(a, d).state = a.state
BY DEF store, ArbitratorState

\* declare_gap keeps the type, leaves the state Gapped with the frontier at a
\* buffered datagram, and reports a gap that names everything it skipped.
LEMMA DeclareGapFacts ==
    ASSUME NEW a \in ArbitratorState, a.window # {}
    PROVE  /\ declare_gap(a) \in ArbitratorState
           /\ declare_gap(a).next_expected = lowest_buffered(a)
           /\ declare_gap(a).window = a.window
           /\ declare_gap(a).messages_delivered = a.messages_delivered
           /\ declare_gap(a).dropped_window_full = a.dropped_window_full
           /\ a.started => declare_gap(a).started
           /\ declare_gap(a).state = "Gapped"
           /\ lowest_buffered(a) \in 1 .. MaxSeq
           /\ gap_of(a).from = a.next_expected
           /\ gap_of(a).through \in Nat
           /\ lowest_buffered(a) - 1 <= gap_of(a).through
           /\ gap_of(a).through <= MaxSeq + 1
<1>1. PICK s \in a.window : lowest_buffered(a) = s.first
  BY LowestBuffered, Zenon
<1>2. lowest_buffered(a) \in 1 .. MaxSeq /\ MaxSeq \in Nat
  BY <1>1, DatagramFacts, SizesAssumption DEF ArbitratorState
<1>3. a.next_expected \in 0 .. (MaxSeq + 1)
  BY DEF ArbitratorState
<1>4. /\ gap_of(a).from = a.next_expected
      /\ gap_of(a).through \in Nat
      /\ gap_of(a).through >= a.next_expected
      /\ lowest_buffered(a) - 1 <= gap_of(a).through
      /\ gap_of(a).through <= MaxSeq + 1
  BY <1>2, <1>3 DEF gap_of
<1>5. gap_of(a).through + 1 - a.next_expected \in Nat
  BY <1>3, <1>4
<1>6. a.messages_missed + (gap_of(a).through + 1 - a.next_expected) \in Nat
  BY <1>5 DEF ArbitratorState
<1>7. lowest_buffered(a) \in 0 .. (MaxSeq + 1)
  BY <1>2
<1> HIDE DEF gap_of
<1> QED
  BY <1>2, <1>4, <1>6, <1>7, Zenon DEF declare_gap, ArbitratorState, FeedState

(***************************************************************************)
(* The datagram that forces a gap either lies inside it, or starts past    *)
(* the new frontier and is stored: it never covers the new frontier, which *)
(* is the start of another datagram, and a slot is free.                   *)
(***************************************************************************)
LEMMA ForcedGapFacts ==
    ASSUME NEW a \in ArbitratorState, NEW d \in Datagrams,
           ~find_slot(a, d.first), a.window # {}, occupied(a) <= Capacity
    PROVE  \/ /\ End(d) <= lowest_buffered(a)
              /\ keep_after_gap(declare_gap(a), d) = declare_gap(a)
           \/ /\ lowest_buffered(a) < d.first
              /\ keep_after_gap(declare_gap(a), d) = store(declare_gap(a), d)
<1> DEFINE g == declare_gap(a)
<1>0. g.next_expected = lowest_buffered(a) /\ g.window = a.window
      /\ g.next_expected \in Nat
  BY DeclareGapFacts
<1>1. PICK s \in a.window : lowest_buffered(a) = s.first
  BY LowestBuffered
<1>2. s \in Datagrams
  BY <1>1 DEF ArbitratorState
<1>3. d.first # s.first
  BY <1>1 DEF find_slot
<1>4. s.first \in Seqs(s)
  BY <1>2, DatagramFacts
<1>5. ~(d.first <= s.first /\ s.first < End(d))
  <2> SUFFICES ASSUME d.first <= s.first, s.first < End(d)
               PROVE  FALSE
    OBVIOUS
  <2>1. s.first \in Seqs(d)
    BY <1>2, DatagramFacts DEF Seqs
  <2> QED
    BY <2>1, <1>2, <1>3, <1>4, DatagramFacts
<1>6. free_slot(g)
  BY <1>0, WindowFinite, SizesAssumption DEF free_slot, occupied
<1>7. d.first \in Nat /\ End(d) \in Nat /\ d.first < End(d)
  BY DatagramFacts, SizesAssumption
<1> HIDE DEF g
<1>8. CASE End(d) <= g.next_expected
  BY <1>8, <1>0, <1>7 DEF keep_after_gap, g
<1>9. CASE g.next_expected < d.first
  BY <1>9, <1>0, <1>6, <1>7, SMTT(30) DEF keep_after_gap, g
<1> QED
  BY <1>0, <1>1, <1>5, <1>7, <1>8, <1>9

(***************************************************************************)
(* What drain_ready does: it hands over at least everything from the old   *)
(* frontier to the new one, and frees a slot when one covers the frontier. *)
(***************************************************************************)
DrainedSeqs(a) == UNION {Seqs(s) : s \in drained(a)}

\* drain_ready keeps the type, never moves the frontier back, and accounts for
\* everything it moves it over with the datagrams it releases.
LEMMA DrainFacts ==
    ASSUME NEW a \in ArbitratorState
    PROVE  /\ drain_ready(a) \in ArbitratorState
           /\ drain_ready(a).next_expected = drained_to(a)
           /\ drained_to(a) \in Nat /\ a.next_expected <= drained_to(a)
           /\ drain_ready(a).window = a.window \ drained(a)
           /\ drain_ready(a).messages_delivered
                = a.messages_delivered + (drained_to(a) - a.next_expected)
           /\ drain_ready(a).dropped_window_full = a.dropped_window_full
           /\ a.started => drain_ready(a).started
           /\ DrainedSeqs(a) \subseteq 1 .. MaxSeq
           /\ a.next_expected .. (drained_to(a) - 1) \subseteq DrainedSeqs(a)
           /\ covering(drain_ready(a), drained_to(a)) = {}
<1>1. /\ drained_to(a) \in a.next_expected .. (MaxSeq + 1)
      /\ covering(a, drained_to(a)) = {}
      /\ \A m \in a.next_expected .. (drained_to(a) - 1) : covering(a, m) # {}
  BY DrainedTo
<1>2. a.next_expected \in 0 .. (MaxSeq + 1) /\ MaxSeq \in Nat /\ a.window \in SUBSET Datagrams
  BY SizesAssumption DEF ArbitratorState
<1>3. /\ drained_to(a) \in 0 .. (MaxSeq + 1)
      /\ drained_to(a) \in Nat
      /\ a.next_expected <= drained_to(a)
      /\ drained_to(a) - a.next_expected \in Nat
  BY <1>1, <1>2
<1>4. a.messages_delivered + (drained_to(a) - a.next_expected) \in Nat
  BY <1>3, SMTT(30) DEF ArbitratorState
<1>5. /\ drain_ready(a) \in ArbitratorState
      /\ drain_ready(a).next_expected = drained_to(a)
      /\ drain_ready(a).window = a.window \ drained(a)
      /\ drain_ready(a).messages_delivered
           = a.messages_delivered + (drained_to(a) - a.next_expected)
      /\ drain_ready(a).dropped_window_full = a.dropped_window_full
      /\ a.started => drain_ready(a).started
  BY <1>3, <1>4, Zenon DEF drain_ready, ArbitratorState, FeedState
<1>6. DrainedSeqs(a) \subseteq 1 .. MaxSeq
  BY <1>2, DatagramFacts DEF DrainedSeqs, drained
<1>7. ASSUME NEW m \in a.next_expected .. (drained_to(a) - 1)
      PROVE  m \in DrainedSeqs(a)
  <2>1. PICK s \in a.window : m \in Seqs(s)
    BY <1>1, <1>7 DEF covering
  <2>2. s.first <= m /\ m < End(s) /\ s.first \in Nat /\ End(s) \in Nat
    BY <2>1, <1>2, <1>3, DatagramFacts DEF Seqs
  <2>3. s \in drained(a)
    BY <2>1, <2>2, <1>2, <1>3 DEF drained
  <2> QED
    BY <2>1, <2>3 DEF DrainedSeqs
<1>8. covering(drain_ready(a), drained_to(a)) = {}
  BY <1>1, <1>5 DEF covering
<1> QED
  BY <1>3, <1>5, <1>6, <1>7, <1>8

\* drain_ready never adds to the window, and when something in it covers the
\* frontier, as after a forced gap, it frees at least one slot.
LEMMA DrainFreesSlot ==
    ASSUME NEW a \in ArbitratorState
    PROVE  /\ occupied(drain_ready(a)) <= occupied(a)
           /\ covering(a, a.next_expected) # {} => occupied(drain_ready(a)) < occupied(a)
<1>1. /\ drain_ready(a) \in ArbitratorState
      /\ drain_ready(a).window = a.window \ drained(a)
      /\ drain_ready(a).window \in SUBSET a.window
  BY DrainFacts
<1>2. IsFiniteSet(a.window) /\ IsFiniteSet(drain_ready(a).window)
      /\ Cardinality(a.window) \in Nat /\ Cardinality(drain_ready(a).window) \in Nat
  BY <1>1, WindowFinite, DrainFacts, Zenon DEF occupied
<1>3. /\ Cardinality(drain_ready(a).window) <= Cardinality(a.window)
      /\ Cardinality(a.window) = Cardinality(drain_ready(a).window)
            => a.window = drain_ready(a).window
  BY <1>1, <1>2, FS_Subset
<1>4. ASSUME covering(a, a.next_expected) # {}
      PROVE  a.window # drain_ready(a).window
  <2>1. PICK s \in a.window : a.next_expected \in Seqs(s)
    BY <1>4 DEF covering
  <2>2. a.next_expected \in Nat /\ s \in Datagrams
    BY SizesAssumption DEF ArbitratorState
  <2>3. s.first <= a.next_expected /\ a.next_expected < End(s)
    BY <2>1, <2>2, DatagramFacts DEF Seqs
  <2>4. drained_to(a) # a.next_expected
    BY <1>4, DrainedTo
  <2>5. s.first < drained_to(a)
    BY <2>2, <2>3, <2>4, DrainFacts, DatagramFacts
  <2>6. s \in drained(a)
    BY <2>1, <2>3, <2>5 DEF drained
  <2> QED
    BY <2>6, <1>1
<1> QED
  BY <1>2, <1>3, <1>4 DEF occupied

-----------------------------------------------------------------------------
(***************************************************************************)
(* The inductive invariant of every run, quiet feeds included: the spare   *)
(* slot suffices, and whatever the frontier passed was handed over, given  *)
(* up on in a gap that names it, or filled.                                *)
(***************************************************************************)
WeakInv ==
    /\ TypeOK
    /\ SpareSlotSuffices
    /\ arb.started => arb.next_expected >= 1
    /\ ~arb.started => arb.window = {} /\ arb.next_expected = 0 /\ start = 0 /\ skipped = {}
    /\ start .. (arb.next_expected - 1) \subseteq released \cup skipped \cup filled
    /\ skipped \subseteq recorded
    /\ filled \subseteq recorded

\* The inductive invariant holds of a new arbitrator (Arbitrator::new).
LEMMA WeakInit == Init => WeakInv
<1> SUFFICES ASSUME Init PROVE WeakInv
  OBVIOUS
<1>1. arb \in ArbitratorState /\ arb.window = {}
  BY SizesAssumption DEF Init, NewArbitrator, ArbitratorState, FeedState
<1>2. TypeOK
  <2>1. timed_out \in BOOLEAN
    BY Zenon DEF Init
  <2> QED
    BY <1>1, <2>1, SizesAssumption, DriverAssumption DEF Init, TypeOK
<1>3. SpareSlotSuffices
  BY <1>1, FS_EmptySet, SizesAssumption, SMTT(30) DEF Init, NewArbitrator, SpareSlotSuffices, occupied
<1> QED
  BY <1>2, <1>3 DEF Init, NewArbitrator, WeakInv

(***************************************************************************)
(* After accept and before drain_ready.                                    *)
(***************************************************************************)
ReadySeqs(d) == IF accepted_as(arb, d) = "Ready" THEN Seqs(d) ELSE {}

SkippedSeqs(d) ==
    IF accepted_as(arb, d) = "ForcedGap"
    THEN arb.next_expected .. (lowest_buffered(arb) - 1)
    ELSE {}

RecordedSeqs(d) ==
    IF accepted_as(arb, d) = "ForcedGap" THEN GapSeqs(gap_of(arb)) ELSE {}

StartAfter(d) == IF arb.started THEN start ELSE begun(arb, d).next_expected

\* accept, the first half of Offer, preserves what WeakInv says of the
\* arbitrator, but for a spare slot that the drain after it is bound to free.
LEMMA WeakAccept ==
    ASSUME WeakInv, NEW d \in Datagrams
    PROVE  LET a == accept(arb, d) IN
           /\ a \in ArbitratorState
           /\ a.started
           /\ a.next_expected >= 1
           /\ a.dropped_window_full = 0
           /\ \/ occupied(a) <= Capacity
              \/ occupied(a) <= Capacity + 1 /\ covering(a, a.next_expected) # {}
           /\ ReadySeqs(d) \subseteq 1 .. MaxSeq
           /\ SkippedSeqs(d) \subseteq 1 .. MaxSeq
           /\ RecordedSeqs(d) \subseteq 1 .. (MaxSeq + 1)
           /\ SkippedSeqs(d) \subseteq RecordedSeqs(d)
           /\ StartAfter(d) \in 0 .. (MaxSeq + 1)
           /\ StartAfter(d) .. (a.next_expected - 1)
                \subseteq (released \cup ReadySeqs(d)) \cup (skipped \cup SkippedSeqs(d)) \cup filled
<1> DEFINE a == accept(arb, d)
           b == begun(arb, d)
<1>1. /\ arb \in ArbitratorState
      /\ occupied(arb) \in Nat /\ occupied(arb) <= Capacity
      /\ arb.dropped_window_full = 0
      /\ arb.next_expected \in 0 .. (MaxSeq + 1)
      /\ arb.started \in BOOLEAN
      /\ start \in 0 .. (MaxSeq + 1)
      /\ MaxSeq \in Nat /\ Capacity \in Nat /\ Capacity >= 1
  BY WindowFinite, SizesAssumption DEF WeakInv, TypeOK, SpareSlotSuffices, ArbitratorState
<1>2. /\ b \in ArbitratorState /\ b.window = arb.window
      /\ b.dropped_window_full = 0 /\ b.started
      /\ b.next_expected \in 0 .. (MaxSeq + 1)
      /\ arb.started => b = arb
      /\ ~arb.started => b.next_expected = d.first
  BY <1>1, BegunFacts DEF ArbitratorState
<1>3. /\ d.first \in Nat /\ End(d) \in Nat /\ d.first < End(d)
      /\ Seqs(d) \subseteq 1 .. MaxSeq /\ d.first \in 0 .. (MaxSeq + 1)
  BY <1>1, DatagramFacts
<1>4. StartAfter(d) \in 0 .. (MaxSeq + 1)
  BY <1>1, <1>2 DEF StartAfter
<1>5. CASE accepted_as(arb, d) = "Duplicate"
  <2>1. a = arb /\ arb.started
    BY <1>1, <1>5, AcceptCases
  <2>2. ReadySeqs(d) = {} /\ SkippedSeqs(d) = {} /\ RecordedSeqs(d) = {}
    BY <1>5 DEF ReadySeqs, SkippedSeqs, RecordedSeqs
  <2>3. StartAfter(d) = start
    BY <2>1 DEF StartAfter
  <2> HIDE DEF a
  <2> QED
    BY <1>1, <1>4, <2>1, <2>2, <2>3 DEF WeakInv, a
<1>6. CASE accepted_as(arb, d) = "Ready"
  <2>1. a = deliver(b, d) /\ d.first <= b.next_expected /\ b.next_expected < End(d)
    BY <1>1, <1>6, AcceptCases, SMTT(30)
  <2>2. /\ a \in ArbitratorState /\ a.next_expected = End(d) /\ a.window = arb.window
        /\ a.dropped_window_full = 0 /\ a.started
    BY <1>2, <2>1, DeliverFacts
  <2>3. occupied(a) <= Capacity
    BY <1>1, <2>2 DEF occupied
  <2>4. ReadySeqs(d) = Seqs(d) /\ SkippedSeqs(d) = {} /\ RecordedSeqs(d) = {}
    BY <1>6 DEF ReadySeqs, SkippedSeqs, RecordedSeqs
  <2>5. StartAfter(d) .. (b.next_expected - 1) \subseteq released \cup skipped \cup filled
    BY <1>1, <1>2, <1>3 DEF StartAfter, WeakInv
  <2>6. StartAfter(d) .. (End(d) - 1) \subseteq (released \cup Seqs(d)) \cup skipped \cup filled
    BY <1>2, <1>3, <1>4, <2>1, <2>5, SMTT(30) DEF Seqs
  <2> HIDE DEF a
  <2> QED
    BY <1>3, <1>4, <2>2, <2>3, <2>4, <2>6, SMTT(30) DEF a
<1>7. CASE accepted_as(arb, d) = "Buffered"
  <2>1. a = store(arb, d) /\ arb.started /\ occupied(arb) < Capacity
    BY <1>1, <1>7, AcceptCases
  <2>2. /\ a \in ArbitratorState /\ a.next_expected = arb.next_expected
        /\ a.window = arb.window \cup {d}
        /\ a.dropped_window_full = 0 /\ a.started /\ a.state = arb.state
    BY <1>1, <2>1, StoreFacts, SMTT(30)
  <2>3. occupied(a) <= Capacity
    <3>1. IsFiniteSet(arb.window)
      BY <1>1, WindowFinite
    <3>2. /\ Cardinality(arb.window \cup {d}) \in Nat
          /\ Cardinality(arb.window \cup {d}) <= Cardinality(arb.window) + 1
      BY <3>1, AddOne
    <3> QED
      BY <1>1, <2>1, <2>2, <3>2 DEF occupied
  <2>4. ReadySeqs(d) = {} /\ SkippedSeqs(d) = {} /\ RecordedSeqs(d) = {}
    BY <1>7 DEF ReadySeqs, SkippedSeqs, RecordedSeqs
  <2>5. StartAfter(d) = start
    BY <2>1, Zenon DEF StartAfter
  <2> HIDE DEF a
  <2> QED
    BY <1>1, <1>4, <2>1, <2>2, <2>3, <2>4, <2>5, SMTT(30) DEF WeakInv, a
<1>8. CASE accepted_as(arb, d) = "ForcedGap"
  <2> DEFINE g == declare_gap(arb)
             low == lowest_buffered(arb)
  <2>1. /\ a = keep_after_gap(g, d) /\ arb.started
        /\ ~find_slot(arb, d.first) /\ occupied(arb) >= Capacity
    BY <1>1, <1>8, AcceptCases
  <2>2. arb.window # {}
    BY <1>1, <2>1, WindowFinite, SMTT(30)
  <2>3. /\ g \in ArbitratorState /\ g.next_expected = low /\ g.window = arb.window
        /\ g.dropped_window_full = 0 /\ g.started /\ g.state = "Gapped"
        /\ low \in 1 .. MaxSeq
        /\ gap_of(arb).from = arb.next_expected /\ gap_of(arb).through \in Nat
        /\ low - 1 <= gap_of(arb).through /\ gap_of(arb).through <= MaxSeq + 1
    BY <1>1, <2>1, <2>2, DeclareGapFacts, SMTT(30)
  <2>4. PICK s \in arb.window : low = s.first
    BY <1>1, <2>2, LowestBuffered, SMTT(30)
  <2>5. low \in Seqs(s)
    BY <1>1, <2>4, DatagramFacts, SMTT(30) DEF ArbitratorState
  <2>6. a = g \/ a = store(g, d)
    BY <1>1, <2>1, <2>2, ForcedGapFacts
  <2>7. /\ a \in ArbitratorState /\ a.next_expected = low
        /\ a.dropped_window_full = 0 /\ a.started /\ a.state = "Gapped"
        /\ a.window = arb.window \/ a.window = arb.window \cup {d}
    <3> HIDE DEF a, g
    <3>1. CASE a = g
      BY <3>1, <2>1, <2>3, Zenon
    <3>2. CASE a = store(g, d)
      <4>1. /\ a \in ArbitratorState /\ a.window = g.window \cup {d}
            /\ a.next_expected = g.next_expected
            /\ a.dropped_window_full = g.dropped_window_full
            /\ a.started = g.started /\ a.state = g.state
        BY <3>2, <2>3, StoreFacts, Zenon DEF store, ArbitratorState
      <4> QED
        BY <4>1, <2>3
    <3> QED
      BY <2>6, <3>1, <3>2, Zenon
  <2>8. occupied(a) <= Capacity + 1
    <3>1. IsFiniteSet(arb.window)
      BY <1>1, WindowFinite
    <3>2. /\ Cardinality(arb.window \cup {d}) \in Nat
          /\ Cardinality(arb.window \cup {d}) <= Cardinality(arb.window) + 1
      BY <3>1, AddOne, Zenon
    <3> QED
      BY <1>1, <2>7, <3>2, SMTT(30) DEF occupied
  <2>9. covering(a, a.next_expected) # {}
    BY <2>4, <2>5, <2>7, SMTT(30) DEF covering
  <2>10. /\ ReadySeqs(d) = {} /\ SkippedSeqs(d) = arb.next_expected .. (low - 1)
         /\ RecordedSeqs(d) = arb.next_expected .. gap_of(arb).through
    BY <1>8, <2>3 DEF ReadySeqs, SkippedSeqs, RecordedSeqs, GapSeqs
  <2>11. StartAfter(d) = start
    BY <2>1 DEF StartAfter
  <2>12. /\ arb.next_expected >= 1
         /\ start .. (arb.next_expected - 1) \subseteq released \cup skipped \cup filled
    BY <2>1 DEF WeakInv
  <2>13. start .. (low - 1)
           \subseteq released \cup (skipped \cup (arb.next_expected .. (low - 1))) \cup filled
    BY <1>1, <2>3, <2>12, SMTT(30)
  <2>14. /\ arb.next_expected .. (low - 1) \subseteq 1 .. MaxSeq
         /\ arb.next_expected .. gap_of(arb).through \subseteq 1 .. (MaxSeq + 1)
         /\ arb.next_expected .. (low - 1) \subseteq arb.next_expected .. gap_of(arb).through
    BY <1>1, <2>3, <2>12
  <2> HIDE DEF a, g, low
  <2> QED
    BY <1>4, <2>3, <2>7, <2>8, <2>9, <2>10, <2>11, <2>13, <2>14, SMTT(30) DEF a
<1> HIDE DEF a, b
<1> QED
  BY <1>1, <1>5, <1>6, <1>7, <1>8, AcceptCases DEF a

\* Every step of the driver preserves WeakInv, one case per action.
LEMMA WeakStep == WeakInv /\ [Next]_vars => WeakInv'
<1> SUFFICES ASSUME WeakInv, [Next]_vars
             PROVE  WeakInv'
  OBVIOUS
<1>1. /\ arb \in ArbitratorState
      /\ occupied(arb) \in Nat /\ occupied(arb) <= Capacity
      /\ arb.dropped_window_full = 0
      /\ arb.next_expected \in 0 .. (MaxSeq + 1)
      /\ arrivals \in [Datagrams -> 0 .. Copies]
      /\ resyncs \in 0 .. MaxResyncs
      /\ start \in 0 .. (MaxSeq + 1)
      /\ MaxSeq \in Nat /\ Capacity \in Nat /\ Copies \in Nat /\ MaxResyncs \in Nat
  BY WindowFinite, SizesAssumption, DriverAssumption
     DEF WeakInv, TypeOK, SpareSlotSuffices, ArbitratorState
<1>2. ASSUME NEW d \in Datagrams, Offer(d)
      PROVE  WeakInv'
  <2> DEFINE a == accept(arb, d)
  <2>1. /\ a \in ArbitratorState /\ a.started
        /\ a.next_expected >= 1
        /\ a.dropped_window_full = 0
        /\ \/ occupied(a) <= Capacity
           \/ occupied(a) <= Capacity + 1 /\ covering(a, a.next_expected) # {}
        /\ ReadySeqs(d) \subseteq 1 .. MaxSeq
        /\ SkippedSeqs(d) \subseteq 1 .. MaxSeq
        /\ RecordedSeqs(d) \subseteq 1 .. (MaxSeq + 1)
        /\ SkippedSeqs(d) \subseteq RecordedSeqs(d)
        /\ StartAfter(d) \in 0 .. (MaxSeq + 1)
        /\ StartAfter(d) .. (a.next_expected - 1)
             \subseteq (released \cup ReadySeqs(d)) \cup (skipped \cup SkippedSeqs(d)) \cup filled
    BY WeakAccept
  <2>2. /\ arb' = drain_ready(a)
        /\ start' = StartAfter(d)
        /\ released' = released \cup ReadySeqs(d) \cup DrainedSeqs(a)
        /\ skipped' = skipped \cup SkippedSeqs(d)
        /\ recorded' = recorded \cup RecordedSeqs(d)
        /\ arrivals' \in [Datagrams -> 0 .. Copies]
        /\ resyncs' = resyncs /\ filled' = filled /\ before' = before
        /\ timed_out' = timed_out
    BY <1>1, <1>2, SMTT(30) DEF Offer, StartAfter, ReadySeqs, DrainedSeqs, SkippedSeqs, RecordedSeqs
  <2> HIDE DEF a
  <2>3. /\ drain_ready(a) \in ArbitratorState
        /\ drain_ready(a).next_expected = drained_to(a)
        /\ drained_to(a) \in Nat /\ a.next_expected <= drained_to(a)
        /\ drain_ready(a).dropped_window_full = 0
        /\ drain_ready(a).started
        /\ DrainedSeqs(a) \subseteq 1 .. MaxSeq
        /\ a.next_expected .. (drained_to(a) - 1) \subseteq DrainedSeqs(a)
    BY <2>1, DrainFacts, SMTT(30)
  <2>4. occupied(drain_ready(a)) <= Capacity
    BY <1>1, <2>1, <2>3, DrainFreesSlot, WindowFinite
  <2>5. a.next_expected \in Nat
    BY <2>1, SizesAssumption, SMTT(30) DEF ArbitratorState
  <2>6. TypeOK'
    BY <1>1, <2>1, <2>2, <2>3, Zenon DEF WeakInv, TypeOK
  <2>7. start' .. (arb'.next_expected - 1) \subseteq released' \cup skipped' \cup filled'
    BY <2>1, <2>2, <2>3, <2>5
  <2>8. SpareSlotSuffices'
    BY <2>2, <2>3, <2>4 DEF SpareSlotSuffices, occupied
  <2>9. arb'.started /\ arb'.next_expected >= 1
    BY <2>1, <2>2, <2>3, <2>5, SMTT(30)
  <2>10. skipped' \subseteq recorded' /\ filled' \subseteq recorded'
    BY <2>1, <2>2, SMTT(30) DEF WeakInv
  <2> QED
    BY <2>6, <2>7, <2>8, <2>9, <2>10, SMTT(30) DEF WeakInv
<1>3. CASE QuietDrain
  <2>1. /\ arb' = drain_ready(arb)
        /\ released' = released \cup DrainedSeqs(arb)
        /\ UNCHANGED <<arrivals, resyncs, start, skipped, filled, recorded, before, timed_out>>
        /\ covering(arb, arb.next_expected) # {}
    BY <1>3, SMTT(30) DEF QuietDrain, DrainedSeqs
  <2>2. /\ drain_ready(arb) \in ArbitratorState
        /\ drain_ready(arb).next_expected = drained_to(arb)
        /\ drained_to(arb) \in Nat /\ arb.next_expected <= drained_to(arb)
        /\ drain_ready(arb).dropped_window_full = 0
        /\ arb.started => drain_ready(arb).started
        /\ DrainedSeqs(arb) \subseteq 1 .. MaxSeq
        /\ arb.next_expected .. (drained_to(arb) - 1) \subseteq DrainedSeqs(arb)
    BY <1>1, DrainFacts
  <2>3. arb.started
    BY <2>1 DEF WeakInv, covering
  <2>4. occupied(drain_ready(arb)) <= Capacity
    BY <1>1, <2>2, DrainFreesSlot, WindowFinite
  <2>5. TypeOK'
    BY <1>1, <2>1, <2>2, Zenon DEF WeakInv, TypeOK
  <2>6. SpareSlotSuffices'
    BY <2>1, <2>2, <2>4, SMTT(30) DEF SpareSlotSuffices, occupied
  <2>7. start' .. (arb'.next_expected - 1) \subseteq released' \cup skipped' \cup filled'
    BY <1>1, <2>1, <2>2, SMTT(30) DEF WeakInv
  <2>8. arb'.started /\ arb'.next_expected >= 1
    BY <1>1, <2>1, <2>2, <2>3, SMTT(30) DEF WeakInv
  <2> QED
    BY <2>1, <2>2, <2>5, <2>6, <2>7, <2>8, SMTT(30) DEF WeakInv
<1>4. CASE DeclareGapIfStalled
  <2> DEFINE low == lowest_buffered(arb)
  <2>1. /\ arb' = declare_gap(arb) /\ arb.window # {}
        /\ skipped' = skipped \cup (arb.next_expected .. (low - 1))
        /\ recorded' = recorded \cup (gap_of(arb).from .. gap_of(arb).through)
        /\ UNCHANGED <<arrivals, resyncs, start, released, filled, before>>
        /\ timed_out' = TRUE
    BY <1>4 DEF DeclareGapIfStalled, stalled, GapSeqs
  <2>2. arb.started /\ arb.next_expected >= 1
    BY <2>1, Zenon DEF WeakInv
  <2>3. /\ arb' \in ArbitratorState /\ arb'.next_expected = low /\ arb'.window = arb.window
        /\ arb'.dropped_window_full = 0 /\ arb'.started /\ arb'.state = "Gapped"
        /\ low \in 1 .. MaxSeq
        /\ gap_of(arb).from = arb.next_expected /\ gap_of(arb).through \in Nat
        /\ low - 1 <= gap_of(arb).through /\ gap_of(arb).through <= MaxSeq + 1
    BY <1>1, <2>1, <2>2, DeclareGapFacts, SMTT(30)
  <2> HIDE DEF low
  <2>4. /\ arb.next_expected .. (low - 1) \subseteq 1 .. MaxSeq
        /\ arb.next_expected .. gap_of(arb).through \subseteq 1 .. (MaxSeq + 1)
        /\ arb.next_expected .. (low - 1) \subseteq arb.next_expected .. gap_of(arb).through
    BY <1>1, <2>2, <2>3, SMTT(30)
  <2>5. TypeOK'
    BY <1>1, <2>1, <2>3, <2>4, Zenon DEF WeakInv, TypeOK
  <2>6. SpareSlotSuffices'
    BY <1>1, <2>3 DEF SpareSlotSuffices, occupied
  <2>7. start' .. (arb'.next_expected - 1) \subseteq released' \cup skipped' \cup filled'
    BY <1>1, <2>1, <2>3 DEF WeakInv
  <2> QED
    BY <2>1, <2>3, <2>4, <2>5, <2>6, <2>7, SMTT(30) DEF WeakInv
<1>5. ASSUME NEW d \in Datagrams, ResyncTo(End(d))
      PROVE  WeakInv'
  <2>1. End(d) \in 0 .. (MaxSeq + 1) /\ End(d) >= 1
    BY DatagramFacts, SizesAssumption
  <2>2. /\ arb' = resync_to(arb, End(d)) /\ resyncs' = resyncs + 1 /\ resyncs < MaxResyncs
        /\ start' = End(d) /\ released' = {} /\ skipped' = {} /\ filled' = {}
        /\ recorded' = {} /\ before' = arb.messages_delivered /\ arrivals' = arrivals
        /\ timed_out' = FALSE
    BY <1>5 DEF ResyncTo
  <2>3. /\ arb' \in ArbitratorState /\ arb'.window = {} /\ arb'.next_expected = End(d)
        /\ arb'.dropped_window_full = 0 /\ arb'.started
    BY <1>1, <2>1, <2>2, Zenon DEF resync_to, ArbitratorState, FeedState
  <2>4. TypeOK'
    <3>1. timed_out' \in BOOLEAN
      BY <2>2, Zenon
    <3> QED
      BY <1>1, <2>1, <2>2, <2>3, <3>1 DEF TypeOK, ArbitratorState
  <2>5. SpareSlotSuffices'
    BY <1>1, <2>3, FS_EmptySet DEF SpareSlotSuffices, occupied
  <2> QED
    BY <2>1, <2>2, <2>3, <2>4, <2>5 DEF WeakInv
<1>6. ASSUME NEW range, ClearGapped(range)
      PROVE  WeakInv'
  <2>1. /\ arb' = clear_gapped(arb)
        /\ filled' = filled \cup (skipped \cap range) /\ skipped' = skipped \ range
        /\ UNCHANGED <<arrivals, resyncs, start, released, recorded, before, timed_out>>
    BY <1>6 DEF ClearGapped
  <2>2. /\ arb' \in ArbitratorState /\ arb'.window = arb.window
        /\ arb'.next_expected = arb.next_expected
        /\ arb'.dropped_window_full = 0 /\ arb'.started = arb.started
    BY <1>1, <2>1 DEF clear_gapped, ArbitratorState, FeedState
  <2>3. TypeOK'
    BY <1>1, <2>1, <2>2, Zenon DEF WeakInv, TypeOK
  <2>4. SpareSlotSuffices'
    BY <1>1, <2>2 DEF SpareSlotSuffices, occupied
  <2>5. released \cup skipped' \cup filled' = released \cup skipped \cup filled
    BY <2>1, Zenon
  <2> QED
    BY <2>1, <2>2, <2>3, <2>4, <2>5 DEF WeakInv
<1>7. CASE UNCHANGED vars
  BY <1>7 DEF vars, WeakInv, TypeOK, SpareSlotSuffices, occupied
<1> QED
  BY <1>2, <1>3, <1>4, <1>5, <1>6, <1>7 DEF Next

(***************************************************************************)
(* Type correctness, for every stream, capacity and feed.                  *)
(***************************************************************************)
THEOREM TypeCorrect == Spec => []TypeOK
<1>1. WeakInv => TypeOK
  BY DEF WeakInv
<1> QED
  BY WeakInit, WeakStep, <1>1, PTL DEF Spec

(***************************************************************************)
(* The datagram that forces a gap always finds the spare slot, whatever    *)
(* the capacity: keep_after_gap never drops a datagram.                    *)
(***************************************************************************)
THEOREM SpareSlotCorrect == Spec => []SpareSlotSuffices
<1>1. WeakInv => SpareSlotSuffices
  BY DEF WeakInv
<1> QED
  BY WeakInit, WeakStep, <1>1, PTL DEF Spec

(***************************************************************************)
(* Nothing the frontier has passed is lost without a gap that names it,    *)
(* also on a quiet feed.                                                   *)
(***************************************************************************)
THEOREM LossIsAlwaysDeclared == Spec => []NothingSilentlyLost
<1>1. WeakInv => NothingSilentlyLost
  BY DEF WeakInv, NothingSilentlyLost
<1> QED
  BY WeakInit, WeakStep, <1>1, PTL DEF Spec

-----------------------------------------------------------------------------
(***************************************************************************)
(* The stronger invariant of a stream on which no hole has timed out since *)
(* it (re)started.  The window is then drained whenever accept is called,  *)
(* so the frontier lies between two datagrams and the window past it.      *)
(***************************************************************************)
Boundary(n) == \A e \in Datagrams : ~(e.first < n /\ n < End(e))

Ahead(a) == \A s \in a.window : a.next_expected <= s.first

Split(from, to, rel, skp, fil) ==
    /\ rel \cup skp \cup fil = from .. (to - 1)
    /\ rel \cap skp = {}
    /\ rel \cap fil = {}
    /\ skp \cap fil = {}

BusyInv ==
    /\ WeakInv
    /\ Boundary(arb.next_expected)
    /\ start <= arb.next_expected
    /\ Split(start, arb.next_expected, released, skipped, filled)
    /\ arb.messages_delivered = before + Cardinality(released)
    /\ Ahead(arb)
    /\ covering(arb, arb.next_expected) = {}

\* Where a datagram begins and where it ends, no datagram straddles.
LEMMA BoundaryFacts ==
    ASSUME NEW d \in Datagrams
    PROVE  Boundary(d.first) /\ Boundary(End(d))
<1>1. ASSUME NEW e \in Datagrams, e.first < d.first, d.first < End(e)
      PROVE  FALSE
  <2>1. d.first \in Seqs(e)
    BY <1>1, DatagramFacts DEF Seqs
  <2>2. e = d
    BY <2>1, DatagramFacts
  <2> QED
    BY <1>1, <2>2, DatagramFacts
<1>2. ASSUME NEW e \in Datagrams, e.first < End(d), End(d) < End(e)
      PROVE  FALSE
  <2>1. End(d) - 1 \in Seqs(e)
    BY <1>2, DatagramFacts DEF Seqs
  <2>2. e = d
    BY <2>1, DatagramFacts
  <2> QED
    BY <1>2, <2>2, DatagramFacts
<1> QED
  BY <1>1, <1>2 DEF Boundary

\* Releasing an interval of sequences that are new adds its length to the count.
LEMMA CountInterval ==
    ASSUME NEW rel \in SUBSET (1 .. MaxSeq), NEW n \in Nat, NEW e \in Nat, n <= e,
           rel \cap (n .. (e - 1)) = {}
    PROVE  /\ Cardinality(rel) \in Nat
           /\ Cardinality(rel \cup (n .. (e - 1))) = Cardinality(rel) + (e - n)
<1>1. IsFiniteSet(1 .. MaxSeq)
  BY FS_Interval, SizesAssumption
<1>2. IsFiniteSet(rel) /\ Cardinality(rel) \in Nat
  BY <1>1, FS_Subset, FS_CardinalityType, Zenon
<1>3. IsFiniteSet(n .. (e - 1)) /\ Cardinality(n .. (e - 1)) = e - n
  <2>1. n \in Int /\ e - 1 \in Int
    OBVIOUS
  <2>2. /\ IsFiniteSet(n .. (e - 1))
        /\ Cardinality(n .. (e - 1)) = IF n > e - 1 THEN 0 ELSE (e - 1) - n + 1
    BY <2>1, FS_Interval
  <2> QED
    BY <2>2
<1>4. Cardinality(rel \cap (n .. (e - 1))) = 0
  BY FS_EmptySet
<1>5. Cardinality(rel \cup (n .. (e - 1)))
        = Cardinality(rel) + Cardinality(n .. (e - 1)) - Cardinality(rel \cap (n .. (e - 1)))
  BY <1>2, <1>3, FS_Union
<1> QED
  BY <1>2, <1>3, <1>4, <1>5

\* drain_ready releases exactly the sequences it moves the frontier over, and
\* leaves the window past a frontier that is again on a datagram boundary.
LEMMA DrainAhead ==
    ASSUME NEW a \in ArbitratorState, Ahead(a), Boundary(a.next_expected)
    PROVE  /\ DrainedSeqs(a) = a.next_expected .. (drained_to(a) - 1)
           /\ Ahead(drain_ready(a))
           /\ Boundary(drained_to(a))
<1>1. /\ drain_ready(a).next_expected = drained_to(a)
      /\ drained_to(a) \in Nat /\ a.next_expected \in Nat /\ a.next_expected <= drained_to(a)
      /\ drain_ready(a).window = a.window \ drained(a)
      /\ a.next_expected .. (drained_to(a) - 1) \subseteq DrainedSeqs(a)
      /\ a.window \in SUBSET Datagrams
  BY DrainFacts, SizesAssumption DEF ArbitratorState
<1>2. covering(a, drained_to(a)) = {}
  BY DrainedTo
<1>3. ASSUME NEW s \in a.window
      PROVE  /\ s.first \in Nat /\ End(s) \in Nat /\ s.first < End(s)
             /\ a.next_expected <= s.first
             /\ s.first < drained_to(a) => End(s) <= drained_to(a)
  <2>1. /\ s.first \in Nat /\ End(s) \in Nat /\ s.first < End(s)
        /\ a.next_expected <= s.first
    BY <1>1, DatagramFacts, SizesAssumption DEF Ahead
  <2>2. drained_to(a) \notin Seqs(s)
    BY <1>2, SMTT(30) DEF covering
  <2> QED
    BY <1>1, <2>1, <2>2, SMTT(30) DEF Seqs
<1>4. ASSUME NEW m \in DrainedSeqs(a)
      PROVE  m \in a.next_expected .. (drained_to(a) - 1)
  <2>1. PICK s \in a.window : s.first < drained_to(a) /\ m \in Seqs(s)
    BY <1>4 DEF DrainedSeqs, drained
  <2>2. m \in Nat /\ s.first <= m /\ m < End(s)
    BY <1>3, <2>1 DEF Seqs
  <2> QED
    BY <1>1, <1>3, <2>1, <2>2
<1>5. Ahead(drain_ready(a))
  BY <1>1, <1>3 DEF Ahead, drained
<1>6. CASE drained_to(a) = a.next_expected
  BY <1>1, <1>4, <1>5, <1>6, Zenon
<1>7. CASE drained_to(a) # a.next_expected
  <2>1. drained_to(a) - 1 \in a.next_expected .. (drained_to(a) - 1)
    BY <1>1, <1>7
  <2>2. PICK s \in a.window : drained_to(a) - 1 \in Seqs(s)
    BY <2>1, DrainedTo, SMTT(30) DEF covering
  <2>3. End(s) = drained_to(a)
    BY <1>1, <1>3, <2>2, SMTT(30) DEF Seqs
  <2>4. Boundary(drained_to(a))
    BY <1>1, <2>2, <2>3, BoundaryFacts, Zenon
  <2> QED
    BY <1>1, <1>4, <1>5, <2>4, Zenon
<1> QED
  BY <1>6, <1>7

\* accept preserves the accounting of a busy feed: every sequence below the
\* frontier was released, skipped or filled, and only one of them.
LEMMA BusyAccept ==
    ASSUME BusyInv, NEW d \in Datagrams
    PROVE  LET a == accept(arb, d) IN
           /\ Ahead(a)
           /\ Boundary(a.next_expected)
           /\ StartAfter(d) <= a.next_expected
           /\ Split(StartAfter(d), a.next_expected, released \cup ReadySeqs(d),
                    skipped \cup SkippedSeqs(d), filled)
           /\ a.messages_delivered = before + Cardinality(released \cup ReadySeqs(d))
<1> DEFINE a == accept(arb, d)
           b == begun(arb, d)
<1>1. /\ arb \in ArbitratorState
      /\ occupied(arb) \in Nat /\ occupied(arb) <= Capacity
      /\ arb.next_expected \in 0 .. (MaxSeq + 1)
      /\ arb.messages_delivered \in Nat /\ before \in Nat
      /\ start \in 0 .. (MaxSeq + 1)
      /\ released \in SUBSET (1 .. MaxSeq)
      /\ MaxSeq \in Nat /\ Capacity \in Nat /\ Capacity >= 1
      /\ arb.window \in SUBSET Datagrams
      /\ arb.messages_delivered = before + Cardinality(released)
  BY WindowFinite, SizesAssumption, SMTT(30)
     DEF BusyInv, WeakInv, TypeOK, SpareSlotSuffices, ArbitratorState
<1>2. /\ b \in ArbitratorState /\ b.window = arb.window
      /\ b.messages_delivered = arb.messages_delivered
      /\ b.next_expected \in 0 .. (MaxSeq + 1)
      /\ arb.started => b = arb
      /\ ~arb.started => b.next_expected = d.first
  BY <1>1, BegunFacts DEF ArbitratorState
<1>3. /\ d.first \in Nat /\ End(d) \in Nat /\ d.first < End(d)
      /\ Seqs(d) \subseteq 1 .. MaxSeq
  <2>1. /\ d.first \in 1 .. MaxSeq /\ End(d) \in 2 .. (MaxSeq + 1)
        /\ d.first < End(d) /\ Seqs(d) \subseteq 1 .. MaxSeq
    BY DatagramFacts, Zenon
  <2>2. MaxSeq \in Nat
    BY <1>1
  <2>3. d.first \in Nat /\ End(d) \in Nat
    BY <2>1, <2>2, SMTT(30)
  <2> QED
    BY <2>1, <2>3
<1>5. CASE accepted_as(arb, d) = "Duplicate"
  <2>1. a = arb /\ arb.started
    BY <1>1, <1>5, AcceptCases
  <2>2. ReadySeqs(d) = {} /\ SkippedSeqs(d) = {}
    BY <1>5 DEF ReadySeqs, SkippedSeqs
  <2>3. StartAfter(d) = start
    BY <2>1 DEF StartAfter
  <2>4. released \cup {} = released /\ skipped \cup {} = skipped
    BY Zenon
  <2> HIDE DEF a
  <2> QED
    BY <1>1, <2>1, <2>2, <2>3, <2>4, SMTT(30) DEF BusyInv, a
<1>6. CASE accepted_as(arb, d) = "Ready"
  <2>1. a = deliver(b, d) /\ d.first <= b.next_expected /\ b.next_expected < End(d)
    BY <1>1, <1>6, AcceptCases, SMTT(30)
  <2>2. /\ a.next_expected = End(d) /\ a.window = arb.window
        /\ a.messages_delivered = arb.messages_delivered + (End(d) - b.next_expected)
    BY <1>2, <2>1, DeliverFacts
  <2>3. ReadySeqs(d) = Seqs(d) /\ SkippedSeqs(d) = {}
    BY <1>6, SMTT(30) DEF ReadySeqs, SkippedSeqs
  <2>4. d.first = b.next_expected
    <3>1. CASE arb.started
      BY <3>1, <1>2, <1>3, <2>1 DEF BusyInv, Boundary
    <3>2. CASE ~arb.started
      BY <3>2, <1>2
    <3> QED
      BY <3>1, <3>2
  <2>5. Split(StartAfter(d), d.first, released, skipped, filled) /\ StartAfter(d) \in Nat
        /\ StartAfter(d) <= d.first
    <3>1. CASE arb.started
      <4>1. StartAfter(d) = start /\ arb.next_expected = d.first
        BY <3>1, <2>4, <1>2 DEF StartAfter
      <4> QED
        BY <4>1, <1>1, <2>4 DEF BusyInv
    <3>2. CASE ~arb.started
      <4>1. StartAfter(d) = d.first
        BY <3>2, <1>2 DEF StartAfter
      <4>2. arb.next_expected = 0 /\ start = 0
        BY <3>2 DEF BusyInv, WeakInv
      <4>3. released \cup skipped \cup filled = {}
        BY <4>2 DEF BusyInv, Split
      <4>4. d.first .. (d.first - 1) = {}
        BY <1>3
      <4> QED
        BY <4>1, <4>3, <4>4, <1>3 DEF Split
    <3> QED
      BY <3>1, <3>2, Zenon
  <2>6. Seqs(d) = d.first .. (End(d) - 1)
    BY DEF Seqs
  <2>7. released \cap (d.first .. (End(d) - 1)) = {}
    BY <1>3, <2>5 DEF Split
  <2>8. Cardinality(released \cup (d.first .. (End(d) - 1)))
          = Cardinality(released) + (End(d) - d.first)
        /\ Cardinality(released) \in Nat
    <3>1. released \in SUBSET (1 .. MaxSeq) /\ d.first <= End(d)
      BY <1>1, <1>3, SMTT(30)
    <3> QED
      BY <1>3, <2>7, <3>1, CountInterval
  <2>9. a.messages_delivered = before + Cardinality(released \cup ReadySeqs(d))
    BY <1>1, <1>3, <2>2, <2>3, <2>4, <2>6, <2>8, SMTT(30)
  <2>10. Split(StartAfter(d), End(d), released \cup ReadySeqs(d), skipped \cup SkippedSeqs(d), filled)
    BY <1>3, <2>3, <2>5, <2>6 DEF Split
  <2>11. Boundary(End(d))
    BY BoundaryFacts
  <2>12. Ahead(a)
    <3> SUFFICES ASSUME NEW s \in arb.window
                 PROVE  End(d) <= s.first
      BY <2>2, Zenon DEF Ahead
    <3>1. s \in Datagrams /\ s.first \in Nat /\ s.first \in Seqs(s) /\ arb.started
      BY <1>1, DatagramFacts, SMTT(30) DEF BusyInv, WeakInv
    <3>2. d.first <= s.first
      BY <3>1, <1>2, <2>4, SMTT(30) DEF BusyInv, Ahead
    <3>3. s # d
      <4> SUFFICES ASSUME s = d PROVE FALSE
        OBVIOUS
      <4>1. arb.next_expected \in Seqs(s)
        BY <3>1, <1>2, <2>4
      <4> QED
        BY <4>1 DEF BusyInv, covering
    <3>4. s.first \notin Seqs(d)
      BY <3>1, <3>3, DatagramFacts, Zenon
    <3> QED
      BY <1>3, <3>1, <3>2, <3>4 DEF Seqs
  <2> HIDE DEF a, b
  <2> QED
    BY <1>3, <2>2, <2>5, <2>9, <2>10, <2>11, <2>12, SMTT(30) DEF a
<1>7. CASE accepted_as(arb, d) = "Buffered"
  <2>1. a = store(arb, d) /\ arb.started /\ arb.next_expected < d.first
    BY <1>1, <1>7, AcceptCases
  <2>2. /\ a.next_expected = arb.next_expected
        /\ a.window = arb.window \cup {d}
        /\ a.messages_delivered = arb.messages_delivered
    BY <1>1, <2>1, StoreFacts
  <2>3. ReadySeqs(d) = {} /\ SkippedSeqs(d) = {}
    BY <1>7 DEF ReadySeqs, SkippedSeqs
  <2>4. StartAfter(d) = start
    BY <2>1, SMTT(30) DEF StartAfter
  <2>6. released \cup {} = released /\ skipped \cup {} = skipped
    BY Zenon
  <2> HIDE DEF a
  <2>5. Ahead(a)
    <3> SUFFICES ASSUME NEW s \in a.window PROVE arb.next_expected <= s.first
      BY <2>2, Zenon DEF Ahead
    <3>1. CASE s \in arb.window
      BY <3>1, Zenon DEF BusyInv, Ahead
    <3>2. CASE s = d
      BY <1>1, <1>3, <2>1, <3>2, SMTT(30)
    <3> QED
      BY <2>2, <3>1, <3>2, Zenon
  <2> QED
    BY <1>1, <2>2, <2>3, <2>4, <2>5, <2>6, SMTT(30) DEF BusyInv, a
<1>8. CASE accepted_as(arb, d) = "ForcedGap"
  <2> DEFINE g == declare_gap(arb)
             low == lowest_buffered(arb)
  <2>1. /\ a = keep_after_gap(g, d) /\ arb.started
        /\ ~find_slot(arb, d.first) /\ occupied(arb) >= Capacity
    BY <1>1, <1>8, AcceptCases, Zenon
  <2>2. arb.window # {}
    BY <1>1, <2>1, WindowFinite
  <2>3. /\ g \in ArbitratorState /\ g.next_expected = low /\ g.window = arb.window
        /\ g.messages_delivered = arb.messages_delivered
        /\ low \in 1 .. MaxSeq
    BY <1>1, <2>1, <2>2, DeclareGapFacts, Zenon
  <2>4. PICK s \in arb.window : low = s.first /\ \A t \in arb.window : s.first <= t.first
    BY <1>1, <2>2, LowestBuffered, Zenon
  <2>5. arb.next_expected <= low /\ Boundary(low)
    BY <1>1, <2>4, BoundaryFacts, Zenon DEF BusyInv, Ahead
  <2>6. \/ a = g
        \/ a = store(g, d) /\ low < d.first
    BY <1>1, <2>1, <2>2, ForcedGapFacts, SMTT(30)
  <2>7. /\ a.next_expected = low /\ a.messages_delivered = arb.messages_delivered
        /\ \/ a.window = arb.window
           \/ a.window = arb.window \cup {d} /\ low < d.first
    <3> HIDE DEF a, g, low
    <3>1. CASE a = g
      BY <3>1, <2>3
    <3>2. CASE a = store(g, d) /\ low < d.first
      BY <3>2, <2>3, StoreFacts, SMTT(30)
    <3> QED
      BY <2>6, <3>1, <3>2
  <2>8. Ahead(a)
    BY <1>3, <2>3, <2>4, <2>7 DEF Ahead
  <2>9. ReadySeqs(d) = {} /\ SkippedSeqs(d) = arb.next_expected .. (low - 1)
    BY <1>8 DEF ReadySeqs, SkippedSeqs
  <2>10. StartAfter(d) = start
    BY <2>1, Zenon DEF StartAfter
  <2>11. Split(start, low, released, skipped \cup (arb.next_expected .. (low - 1)), filled)
    BY <1>1, <2>3, <2>5 DEF BusyInv, Split
  <2>12. released \cup {} = released
    OBVIOUS
  <2> HIDE DEF a, g, low
  <2> QED
    BY <1>1, <2>3, <2>5, <2>7, <2>8, <2>9, <2>10, <2>11, <2>12, SMTT(30) DEF BusyInv, a
<1> HIDE DEF a, b
<1> QED
  BY <1>1, <1>5, <1>6, <1>7, <1>8, AcceptCases, ZenonT(30) DEF a

\* The strengthened invariant holds of a new arbitrator.
LEMMA BusyInit == Init => BusyInv
<1> SUFFICES ASSUME Init PROVE BusyInv
  OBVIOUS
<1>1. WeakInv
  BY WeakInit
<1>2. /\ arb.next_expected = 0 /\ arb.window = {} /\ start = 0 /\ before = 0
      /\ released = {} /\ skipped = {} /\ filled = {} /\ arb.messages_delivered = 0
  BY DEF Init, NewArbitrator
<1>3. Boundary(0)
  BY DatagramFacts DEF Boundary
<1>4. Split(0, 0, {}, {}, {})
  BY DEF Split
<1>5. arb.messages_delivered = before + Cardinality(released)
  BY <1>2, FS_EmptySet
<1> QED
  BY <1>1, <1>2, <1>3, <1>4, <1>5 DEF BusyInv, Ahead, covering

(***************************************************************************)
(* Draining keeps the account balanced.                                    *)
(***************************************************************************)
LEMMA DrainAccount ==
    ASSUME NEW a \in ArbitratorState, Ahead(a), Boundary(a.next_expected),
           NEW from \in Nat, NEW rel \in SUBSET (1 .. MaxSeq), NEW skp, NEW fil,
           NEW bef \in Nat,
           from <= a.next_expected,
           Split(from, a.next_expected, rel, skp, fil),
           a.messages_delivered = bef + Cardinality(rel)
    PROVE  /\ Split(from, drained_to(a), rel \cup DrainedSeqs(a), skp, fil)
           /\ drain_ready(a).messages_delivered = bef + Cardinality(rel \cup DrainedSeqs(a))
<1>1. /\ drained_to(a) \in Nat /\ a.next_expected \in Nat /\ a.next_expected <= drained_to(a)
      /\ DrainedSeqs(a) = a.next_expected .. (drained_to(a) - 1)
      /\ drain_ready(a).messages_delivered
           = a.messages_delivered + (drained_to(a) - a.next_expected)
  BY DrainFacts, DrainAhead, SizesAssumption, SMTT(30) DEF ArbitratorState
<1>2. rel \cap (a.next_expected .. (drained_to(a) - 1)) = {}
  BY <1>1 DEF Split
<1>3. /\ Cardinality(rel) \in Nat
      /\ Cardinality(rel \cup (a.next_expected .. (drained_to(a) - 1)))
           = Cardinality(rel) + (drained_to(a) - a.next_expected)
  BY <1>1, <1>2, CountInterval, Zenon
<1>4. Split(from, drained_to(a), rel \cup (a.next_expected .. (drained_to(a) - 1)), skp, fil)
  BY <1>1, SMTT(30) DEF Split
<1> QED
  BY <1>1, <1>3, <1>4, SMTT(30)

(***************************************************************************)
(* Every step preserves BusyInv, except the one in which a hole times out; *)
(* a resync restores it whatever went before.                              *)
(***************************************************************************)
IInv == WeakInv /\ (~timed_out => BusyInv)

\* Every step of the driver preserves the inductive invariant.
LEMMA BusyStep == IInv /\ [Next]_vars => IInv'
<1> SUFFICES ASSUME WeakInv, ~timed_out => BusyInv, [Next]_vars, ~timed_out'
             PROVE  BusyInv'
  BY WeakStep DEF IInv
<1>0. WeakInv'
  BY WeakStep
<1>1. /\ arb \in ArbitratorState
      /\ arb.next_expected \in 0 .. (MaxSeq + 1)
      /\ released \in SUBSET (1 .. MaxSeq)
      /\ arb.messages_delivered \in Nat /\ before \in Nat
      /\ MaxSeq \in Nat
      /\ WeakInv
  BY SizesAssumption, SMTT(30) DEF WeakInv, TypeOK, ArbitratorState
<1>2. ASSUME NEW d \in Datagrams, Offer(d)
      PROVE  BusyInv'
  <2> DEFINE a == accept(arb, d)
             rel == released \cup ReadySeqs(d)
             skp == skipped \cup SkippedSeqs(d)
  <2>1. /\ a \in ArbitratorState /\ a.next_expected \in Nat
        /\ StartAfter(d) \in Nat
        /\ rel \in SUBSET (1 .. MaxSeq)
    <3>1. /\ a \in ArbitratorState /\ StartAfter(d) \in 0 .. (MaxSeq + 1)
          /\ ReadySeqs(d) \subseteq 1 .. MaxSeq
      BY <1>1, WeakAccept
    <3> HIDE DEF a
    <3>2. a.next_expected \in Nat
      BY <1>1, <3>1 DEF ArbitratorState
    <3>3. StartAfter(d) \in Nat
      BY <1>1, <3>1
    <3>4. released \subseteq 1 .. MaxSeq
      BY <1>1
    <3>5. rel \in SUBSET (1 .. MaxSeq)
      BY <3>1, <3>4, Zenon
    <3> QED
      BY <3>1, <3>2, <3>3, <3>5, SMTT(30)
  <2>0. BusyInv
    BY <1>2 DEF Offer
  <2>2. /\ Ahead(a) /\ Boundary(a.next_expected) /\ StartAfter(d) <= a.next_expected
        /\ Split(StartAfter(d), a.next_expected, rel, skp, filled)
        /\ a.messages_delivered = before + Cardinality(rel)
    BY <2>0, BusyAccept, SMTT(30)
  <2>3. /\ arb' = drain_ready(a)
        /\ start' = StartAfter(d)
        /\ released' = rel \cup DrainedSeqs(a)
        /\ skipped' = skp
        /\ filled' = filled /\ before' = before
    BY <1>2 DEF Offer, StartAfter, ReadySeqs, DrainedSeqs, SkippedSeqs
  <2> HIDE DEF a, rel, skp
  <2>4. /\ Split(StartAfter(d), drained_to(a), rel \cup DrainedSeqs(a), skp, filled)
        /\ drain_ready(a).messages_delivered = before + Cardinality(rel \cup DrainedSeqs(a))
    BY <1>1, <2>1, <2>2, DrainAccount, SMTT(30)
  <2>5. /\ drain_ready(a).next_expected = drained_to(a) /\ drained_to(a) \in Nat
        /\ a.next_expected <= drained_to(a)
        /\ covering(drain_ready(a), drained_to(a)) = {}
        /\ Ahead(drain_ready(a)) /\ Boundary(drained_to(a))
    BY <2>1, <2>2, DrainFacts, DrainAhead, SMTT(30)
  <2>6. start' <= arb'.next_expected
    BY <2>1, <2>2, <2>3, <2>5
  <2>7. arb'.messages_delivered = before' + Cardinality(released')
    BY <2>3, <2>4
  <2> QED
    BY <1>0, <2>3, <2>4, <2>5, <2>6, <2>7, SMTT(30) DEF BusyInv, Ahead, covering
<1>3. ~QuietDrain
  BY DEF QuietDrain, BusyInv
<1>4. ~DeclareGapIfStalled
  BY Zenon DEF DeclareGapIfStalled
<1>5. ASSUME NEW d \in Datagrams, ResyncTo(End(d))
      PROVE  BusyInv'
  <2>1. End(d) \in 0 .. (MaxSeq + 1) /\ Boundary(End(d))
    BY DatagramFacts, SizesAssumption, BoundaryFacts
  <2>2. /\ arb' = resync_to(arb, End(d))
        /\ start' = End(d) /\ released' = {} /\ skipped' = {} /\ filled' = {}
        /\ before' = arb.messages_delivered
    BY <1>5 DEF ResyncTo
  <2>3. /\ arb'.window = {} /\ arb'.next_expected = End(d)
        /\ arb'.messages_delivered = arb.messages_delivered
    BY <1>1, <2>1, <2>2 DEF resync_to, ArbitratorState
  <2>4. Split(End(d), End(d), {}, {}, {})
    BY <2>1 DEF Split
  <2>5. arb'.messages_delivered = before' + Cardinality(released')
    BY <1>1, <2>2, <2>3, FS_EmptySet
  <2>6. start' <= arb'.next_expected
    BY <2>1, <2>2, <2>3, SMTT(30)
  <2> QED
    BY <1>0, <2>1, <2>2, <2>3, <2>4, <2>5, <2>6, Zenon DEF BusyInv, Ahead, covering
<1>6. ASSUME NEW range, ClearGapped(range)
      PROVE  BusyInv'
  <2>1. /\ arb' = clear_gapped(arb)
        /\ filled' = filled \cup (skipped \cap range) /\ skipped' = skipped \ range
        /\ start' = start /\ released' = released /\ before' = before
    BY <1>6 DEF ClearGapped
  <2>2. /\ arb'.window = arb.window /\ arb'.next_expected = arb.next_expected
        /\ arb'.messages_delivered = arb.messages_delivered
    BY <1>1, <2>1 DEF clear_gapped, ArbitratorState
  <2>0. BusyInv
    BY <1>6 DEF ClearGapped
  <2>3. Split(start, arb.next_expected, released, skipped \ range,
              filled \cup (skipped \cap range))
    BY <2>0, Zenon DEF BusyInv, Split
  <2>4. arb'.messages_delivered = before' + Cardinality(released')
    BY <2>0, <2>1, <2>2, SMTT(30) DEF BusyInv
  <2> QED
    BY <1>0, <2>0, <2>1, <2>2, <2>3, <2>4, SMTT(30) DEF BusyInv, Ahead, covering
<1>7. CASE UNCHANGED vars
  BY <1>0, <1>7 DEF vars, BusyInv, Ahead, covering
<1> QED
  BY <1>2, <1>3, <1>4, <1>5, <1>6, <1>7 DEF Next

\* IInv holds throughout.
LEMMA ArbitrationInvariant == Spec => []IInv
<1>1. Init => IInv
  BY WeakInit, BusyInit DEF IInv
<1> QED
  BY <1>1, BusyStep, PTL DEF Spec

(***************************************************************************)
(* Until a hole times out on a quiet feed, and again from the next resync  *)
(* on, every sequence below the frontier was handed over, given up on or   *)
(* filled by a replay, and only one of these: for every way of cutting the *)
(* stream into datagrams, every capacity and every order in which the      *)
(* copies of the two arms arrive (accept, drain_ready).                    *)
(***************************************************************************)
THEOREM ArbitrationCorrect == Spec => []FrontierAccounted
<1>1. IInv => FrontierAccounted
  BY DEF IInv, BusyInv, Split, FrontierAccounted
<1> QED
  BY <1>1, ArbitrationInvariant, PTL

(***************************************************************************)
(* On the same condition a message is handed over once, however many       *)
(* copies of it arrive: messages_delivered counts the sequences released.  *)
(***************************************************************************)
THEOREM DeliveryIsExactlyOnce == Spec => []DeliveredExactlyOnce
<1>1. IInv => DeliveredExactlyOnce
  BY DEF IInv, BusyInv, DeliveredExactlyOnce
<1> QED
  BY <1>1, ArbitrationInvariant, PTL

(***************************************************************************)
(* On the same condition the window holds only what lies ahead of the      *)
(* frontier, so no slot is held by a datagram that is of no more use.      *)
(***************************************************************************)
THEOREM WindowStaysAhead == Spec => []WindowAheadOfFrontier
<1>1. IInv => WindowAheadOfFrontier
  BY DEF IInv, BusyInv, Ahead, WindowAheadOfFrontier
<1> QED
  BY <1>1, ArbitrationInvariant, PTL

=============================================================================
