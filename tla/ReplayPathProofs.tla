-------------------------- MODULE ReplayPathProofs --------------------------
(***************************************************************************)
(* Proofs about ReplayStore and ReplayPath, for every stream, store size,  *)
(* queue depth, and number of connections, faults and lives of the engine: *)
(* the history has no hole, a range is located exactly, and an answer that *)
(* is handed to the consumer is whole.                                     *)
(***************************************************************************)
EXTENDS ReplayPath, SequenceTheorems, WellFoundedInduction, TLAPS

\* The datagrams an engine can have sent.
Datagram == {d \in [first : 1 .. MaxSeq, count : 1 .. MaxSeq, epoch : Nat] :
               End(d) <= MaxSeq + 1}

(***************************************************************************)
(* The inductive invariant of the store.  HistoryHasNoHole speaks of       *)
(* neighbours; Ordered and Covered are what follows for datagrams that are *)
(* any number of slots apart, and are easier to carry along than to derive *)
(* at each use.                                                            *)
(***************************************************************************)
StoreTypeOK ==
    /\ slots \in [0 .. (StoreCapacity - 1) -> Datagram \cup {Unused}]
    /\ head \in 0 .. (StoreCapacity - 1)
    /\ len \in 0 .. StoreCapacity
    /\ first_sequence \in Nat /\ next_sequence \in Nat
    /\ \A i \in 0 .. (len - 1) : datagram_at(i) \in Datagram

Ordered ==
    \A i, j \in 0 .. (len - 1) : i < j => End(datagram_at(i)) <= datagram_at(j).first

Covered ==
    \A n \in first_sequence .. (next_sequence - 1) :
        \E i \in 0 .. (len - 1) : n \in Seqs(datagram_at(i))

StoreInv == StoreTypeOK /\ HistoryHasNoHole /\ Ordered /\ Covered

-----------------------------------------------------------------------------
\* A non-empty set of natural numbers has a least element.
LEMMA LeastNatural ==
    ASSUME NEW T \in SUBSET Nat, T # {}
    PROVE  \E x \in T : \A y \in T : x <= y
<1>1. PICK x \in T : \A y \in T : ~(<<y, x>> \in OpToRel(<, Nat))
  BY NatLessThanWellFounded, WFMin, Zenon
<1>2. \A y \in T : ~(y < x)
  BY <1>1, Zenon DEF OpToRel
<1> QED
  BY <1>2

\* Min finds it.
LEMMA MinIsLeast ==
    ASSUME NEW T \in SUBSET Nat, T # {}
    PROVE  Min(T) \in T /\ \A y \in T : Min(T) <= y
<1>1. \E x \in T : \A y \in T : x =< y
  BY LeastNatural
<1> QED
  BY <1>1, Zenon DEF Min

\* The numbers of a datagram.
LEMMA DatagramFacts ==
    ASSUME NEW d \in Datagram
    PROVE  /\ d.first \in Nat /\ d.first >= 1
           /\ End(d) \in Nat /\ d.first < End(d) /\ End(d) <= MaxSeq + 1
           /\ \A n : n \in Seqs(d) <=> n \in Nat /\ d.first <= n /\ n < End(d)
BY StoreAssumption DEF Datagram, End, Seqs

\* The slot i places past slot a (datagram_at, push).
Place(a, i) == (a + i) % StoreCapacity

\* Where the ring wraps.
LEMMA Wrap ==
    \A a \in 0 .. (StoreCapacity - 1), i \in 0 .. StoreCapacity :
        /\ a + i < StoreCapacity => Place(a, i) = a + i
        /\ a + i >= StoreCapacity => Place(a, i) = a + i - StoreCapacity
        /\ Place(a, i) \in 0 .. (StoreCapacity - 1)
<1> SUFFICES ASSUME NEW a \in 0 .. (StoreCapacity - 1), NEW i \in 0 .. StoreCapacity
             PROVE  /\ a + i < StoreCapacity => Place(a, i) = a + i
                    /\ a + i >= StoreCapacity => Place(a, i) = a + i - StoreCapacity
                    /\ Place(a, i) \in 0 .. (StoreCapacity - 1)
  OBVIOUS
<1> DEFINE q == (a + i) \div StoreCapacity
           r == (a + i) % StoreCapacity
<1>1. /\ StoreCapacity \in Nat /\ StoreCapacity >= 1
      /\ q \in Int /\ r \in 0 .. (StoreCapacity - 1)
      /\ a + i = StoreCapacity * q + r
  BY StoreAssumption
<1>6. Place(a, i) = r
  BY DEF Place
<1> HIDE DEF q, r
<1>2. CASE q <= -1
  <2>1. StoreCapacity * q <= -StoreCapacity
    BY <1>1, <1>2
  <2> QED
    BY <1>1, <2>1
<1>3. CASE q = 0
  BY <1>1, <1>3, <1>6
<1>4. CASE q = 1
  BY <1>1, <1>4, <1>6
<1>5. CASE q >= 2
  <2>1. StoreCapacity * q >= 2 * StoreCapacity
    BY <1>1, <1>5
  <2> QED
    BY <1>1, <2>1
<1> QED
  BY <1>1, <1>2, <1>3, <1>4, <1>5

\* The same, with a name for the slot.
LEMMA WrapAt ==
    \A a \in 0 .. (StoreCapacity - 1), i \in 0 .. StoreCapacity :
        \E p \in 0 .. (StoreCapacity - 1) :
            /\ Place(a, i) = p
            /\ a + i < StoreCapacity => p = a + i
            /\ a + i >= StoreCapacity => p = a + i - StoreCapacity
BY Wrap

\* Different datagrams are in different slots.
LEMMA PlacesDiffer ==
    \A a, i, j \in 0 .. (StoreCapacity - 1) : i # j => Place(a, i) # Place(a, j)
<1> SUFFICES ASSUME NEW a \in 0 .. (StoreCapacity - 1), NEW i \in 0 .. (StoreCapacity - 1),
                    NEW j \in 0 .. (StoreCapacity - 1), i # j
             PROVE  Place(a, i) # Place(a, j)
  OBVIOUS
<1> DEFINE C == StoreCapacity
<1>1. C \in Nat /\ i \in 0 .. C /\ j \in 0 .. C
  BY StoreAssumption
<1>2. PICK p \in 0 .. (C - 1) : /\ Place(a, i) = p
                                /\ a + i < C => p = a + i
                                /\ a + i >= C => p = a + i - C
  BY <1>1, WrapAt, Zenon
<1>3. PICK q \in 0 .. (C - 1) : /\ Place(a, j) = q
                                /\ a + j < C => q = a + j
                                /\ a + j >= C => q = a + j - C
  BY <1>1, WrapAt, Zenon
<1>4. p # q
  BY <1>1, <1>2, <1>3
<1> QED
  BY <1>2, <1>3, <1>4

\* Once the head has moved on, each datagram is one place nearer to it.
LEMMA PlaceMovesOn ==
    \A a, i \in 0 .. (StoreCapacity - 1) : Place(Place(a, 1), i) = Place(a, i + 1)
<1> SUFFICES ASSUME NEW a \in 0 .. (StoreCapacity - 1), NEW i \in 0 .. (StoreCapacity - 1)
             PROVE  Place(Place(a, 1), i) = Place(a, i + 1)
  OBVIOUS
<1> DEFINE C == StoreCapacity
<1>1. C \in Nat /\ C >= 1 /\ 1 \in 0 .. C /\ i \in 0 .. C /\ i + 1 \in 0 .. C
  BY StoreAssumption
<1>2. PICK b \in 0 .. (C - 1) : /\ Place(a, 1) = b
                                /\ a + 1 < C => b = a + 1
                                /\ a + 1 >= C => b = a + 1 - C
  BY <1>1, WrapAt, Zenon
<1>3. PICK p \in 0 .. (C - 1) : /\ Place(b, i) = p
                                /\ b + i < C => p = b + i
                                /\ b + i >= C => p = b + i - C
  BY <1>1, WrapAt, Zenon
<1>4. PICK q \in 0 .. (C - 1) : /\ Place(a, i + 1) = q
                                /\ a + (i + 1) < C => q = a + (i + 1)
                                /\ a + (i + 1) >= C => q = a + (i + 1) - C
  BY <1>1, WrapAt, Zenon
<1>5. p = q
  BY <1>1, <1>2, <1>3, <1>4
<1> QED
  BY <1>2, <1>3, <1>4, <1>5

-----------------------------------------------------------------------------
(***************************************************************************)
(* push, seen through datagram_at: either the history is the new datagram  *)
(* alone, or it is the old one, without its oldest datagram when the ring  *)
(* was full, and the new datagram after it.                                *)
(***************************************************************************)
LEMMA PushRestarts ==
    ASSUME StoreTypeOK, NEW d \in Datagram, Push(d), restarted(d)
    PROVE  /\ len' = 1 /\ datagram_at(0)' = d
           /\ first_sequence' = d.first /\ next_sequence' = End(d)
           /\ head' \in 0 .. (StoreCapacity - 1)
           /\ slots' \in [0 .. (StoreCapacity - 1) -> Datagram \cup {Unused}]
<1>1. /\ StoreCapacity \in Nat /\ StoreCapacity >= 1 /\ head \in 0 .. (StoreCapacity - 1) /\ len \in Nat
      /\ slots \in [0 .. (StoreCapacity - 1) -> Datagram \cup {Unused}]
  BY StoreAssumption DEF StoreTypeOK
<1>2. ~evicts(d)
  BY DEF evicts
<1>3. /\ head' \in 0 .. (StoreCapacity - 1)
      /\ slots' = [slots EXCEPT ![Place(head', 0)] = d]
      /\ len' = 0 + 1 /\ first_sequence' = d.first /\ next_sequence' = End(d)
  BY <1>1, <1>2 DEF Push, Place
<1>4. Place(head', 0) \in 0 .. (StoreCapacity - 1)
  BY <1>1, <1>3, Wrap
<1>5. slots'[Place(head', 0)] = d
  BY <1>1, <1>3, <1>4
<1>6. datagram_at(0)' = d
  BY <1>5 DEF datagram_at, Place
<1> QED
  BY <1>1, <1>3, <1>4, <1>6

\* With a slot to spare the new datagram takes the place after the last.
LEMMA PushGrows ==
    ASSUME StoreTypeOK, NEW d \in Datagram, Push(d), ~restarted(d), len # StoreCapacity
    PROVE  /\ len > 0 /\ d.first = next_sequence
           /\ len' = len + 1
           /\ \A i \in 0 .. (len - 1) : datagram_at(i)' = datagram_at(i)
           /\ datagram_at(len - 1)' = d
           /\ first_sequence' = first_sequence /\ next_sequence' = End(d)
           /\ head' \in 0 .. (StoreCapacity - 1)
           /\ slots' \in [0 .. (StoreCapacity - 1) -> Datagram \cup {Unused}]
<1> DEFINE C == StoreCapacity
<1>1. /\ C \in Nat /\ C >= 1 /\ head \in 0 .. (C - 1) /\ len \in 1 .. (C - 1)
      /\ d.first = next_sequence
      /\ slots \in [0 .. (C - 1) -> Datagram \cup {Unused}]
  <2>1. C \in Nat /\ C >= 1
    BY StoreAssumption
  <2>2. /\ head \in 0 .. (C - 1) /\ len \in 0 .. C
        /\ slots \in [0 .. (C - 1) -> Datagram \cup {Unused}]
    BY DEF StoreTypeOK
  <2>3. len # 0 /\ d.first >= next_sequence /\ ~(d.first > next_sequence)
    BY DEF Push, restarted
  <2>4. d.first \in Nat /\ next_sequence \in Nat
    BY DatagramFacts DEF StoreTypeOK
  <2> QED
    BY <2>1, <2>2, <2>3, <2>4
<1>2. ~evicts(d)
  BY DEF evicts
<1>3. /\ head' = head
      /\ slots' = [slots EXCEPT ![Place(head, len)] = d]
      /\ len' = len + 1
      /\ first_sequence' = first_sequence
      /\ next_sequence' = End(d)
  BY <1>2 DEF Push, Place
<1>4. PICK p \in 0 .. (C - 1) : Place(head, len) = p
  BY <1>1, WrapAt
<1>5. slots' \in [0 .. (C - 1) -> Datagram \cup {Unused}] /\ slots'[p] = d
  BY <1>1, <1>3, <1>4
<1>6. ASSUME NEW i \in 0 .. (len - 1)
      PROVE  datagram_at(i)' = datagram_at(i)
  <2>1. i \in 0 .. C /\ i \in 0 .. (C - 1) /\ len \in 0 .. (C - 1) /\ i # len
    BY <1>1
  <2>2. PICK q \in 0 .. (C - 1) : Place(head, i) = q
    BY <1>1, <2>1, WrapAt
  <2>3. q # p
    BY <1>1, <1>4, <2>1, <2>2, PlacesDiffer
  <2>4. slots'[q] = slots[q]
    BY <1>1, <1>3, <1>4, <2>3
  <2> QED
    BY <1>3, <2>2, <2>4 DEF datagram_at, Place
<1>7. datagram_at(len - 1)' = slots'[Place(head', len' - 1)]
  BY DEF datagram_at, Place
<1>8. len' - 1 = len
  BY <1>1, <1>3
<1> QED
  BY <1>1, <1>3, <1>4, <1>5, <1>6, <1>7, <1>8

\* A full ring gives up its oldest datagram, and the others move up by one.
LEMMA PushEvicts ==
    ASSUME StoreTypeOK, NEW d \in Datagram, Push(d), ~restarted(d), len = StoreCapacity
    PROVE  /\ len > 0 /\ d.first = next_sequence
           /\ len' = len
           /\ \A i \in 0 .. (len - 2) : datagram_at(i)' = datagram_at(i + 1)
           /\ datagram_at(len - 1)' = d
           /\ first_sequence' = End(datagram_at(0)) /\ next_sequence' = End(d)
           /\ head' \in 0 .. (StoreCapacity - 1)
           /\ slots' \in [0 .. (StoreCapacity - 1) -> Datagram \cup {Unused}]
<1> DEFINE C == StoreCapacity
<1>1. /\ C \in Nat /\ C >= 1 /\ head \in 0 .. (C - 1) /\ len \in Nat
      /\ d.first = next_sequence
      /\ slots \in [0 .. (C - 1) -> Datagram \cup {Unused}]
  BY StoreAssumption, DatagramFacts, SMTT(30) DEF StoreTypeOK, Push, restarted
<1>2. evicts(d)
  BY DEF evicts
<1>3. PICK h \in 0 .. (C - 1) : Place(head, 1) = h
  BY <1>1, WrapAt
<1>4. /\ head' = h
      /\ slots' = [slots EXCEPT ![Place(h, len - 1)] = d]
      /\ len' = len - 1 + 1
      /\ first_sequence' = End(datagram_at(0))
      /\ next_sequence' = End(d)
  BY <1>2, <1>3, Zenon DEF Push, Place
<1>5. len' = len /\ len - 1 \in 0 .. (C - 1) /\ len - 1 \in 0 .. C
  BY <1>1, <1>4
<1>6. PICK p \in 0 .. (C - 1) : Place(h, len - 1) = p
  BY <1>5, WrapAt
<1>7. slots' \in [0 .. (C - 1) -> Datagram \cup {Unused}] /\ slots'[p] = d
  BY <1>1, <1>4, <1>6
<1>8. ASSUME NEW i \in 0 .. (len - 2)
      PROVE  datagram_at(i)' = datagram_at(i + 1)
  <2>1. i \in 0 .. C /\ i \in 0 .. (C - 1) /\ i # len - 1
    BY <1>1
  <2>2. PICK q \in 0 .. (C - 1) : Place(h, i) = q
    BY <2>1, WrapAt
  <2>3. q # p
    BY <1>5, <1>6, <2>1, <2>2, PlacesDiffer
  <2>4. slots'[q] = slots[q]
    BY <1>1, <1>4, <1>6, <2>3
  <2>5. q = Place(head, i + 1)
    BY <1>1, <1>3, <2>1, <2>2, PlaceMovesOn
  <2> QED
    BY <1>4, <2>2, <2>4, <2>5 DEF datagram_at, Place
<1>9. datagram_at(len - 1)' = slots'[Place(head', len' - 1)]
  BY DEF datagram_at, Place
<1> QED
  BY <1>1, <1>4, <1>5, <1>6, <1>7, <1>8, <1>9, SMTT(30)

-----------------------------------------------------------------------------
(***************************************************************************)
(* push keeps the history whole, whichever way it makes room.              *)
(***************************************************************************)
\* No datagram of the history ends past next_sequence.
LEMMA EndsBeforeNext ==
    ASSUME StoreInv
    PROVE  \A i \in 0 .. (len - 1) : End(datagram_at(i)) <= next_sequence
<1> SUFFICES ASSUME NEW i \in 0 .. (len - 1)
             PROVE  End(datagram_at(i)) <= next_sequence
  OBVIOUS
<1>1. /\ len \in Nat /\ len > 0 /\ len - 1 \in 0 .. (len - 1)
      /\ datagram_at(i) \in Datagram /\ datagram_at(len - 1) \in Datagram
  BY DEF StoreInv, StoreTypeOK
<1>2. PICK e, f, z \in Nat : /\ e = End(datagram_at(i))
                             /\ f = datagram_at(len - 1).first
                             /\ z = End(datagram_at(len - 1)) /\ f < z
  BY <1>1, DatagramFacts
<1>3. z = next_sequence
  BY <1>1, <1>2 DEF StoreInv, HistoryHasNoHole
<1>4. CASE i = len - 1
  BY <1>2, <1>3, <1>4
<1>5. CASE i # len - 1
  <2>1. i < len - 1
    BY <1>1, <1>5
  <2>2. e <= f
    BY <1>1, <1>2, <2>1 DEF StoreInv, Ordered
  <2> QED
    BY <1>2, <1>3, <2>2
<1> QED
  BY <1>4, <1>5

\* A history that starts over is the new datagram.
LEMMA RestartKeepsStoreInv ==
    ASSUME StoreInv, NEW d \in Datagram, Push(d), restarted(d)
    PROVE  StoreInv'
<1>1. /\ len' = 1 /\ datagram_at(0)' = d
      /\ first_sequence' = d.first /\ next_sequence' = End(d)
      /\ head' \in 0 .. (StoreCapacity - 1)
      /\ slots' \in [0 .. (StoreCapacity - 1) -> Datagram \cup {Unused}]
  BY PushRestarts DEF StoreInv
<1>2. /\ d.first \in Nat /\ End(d) \in Nat
      /\ \A n : n \in Seqs(d) <=> n \in Nat /\ d.first <= n /\ n < End(d)
  BY DatagramFacts
<1>3. \A i : i \in 0 .. (len' - 1) <=> i = 0
  BY <1>1
<1>4. StoreTypeOK'
  BY <1>1, <1>2, <1>3, StoreAssumption DEF StoreTypeOK
<1>5. HistoryHasNoHole'
  <2>1. len' - 1 = 0 /\ ~(\E i : i \in 0 .. (len' - 2))
    BY <1>1
  <2>2. End(datagram_at(len - 1))' = End(d)
    BY <1>1, <2>1 DEF datagram_at
  <2> QED
    BY <1>1, <2>1, <2>2 DEF HistoryHasNoHole
<1>6. Ordered'
  BY <1>3 DEF Ordered
<1>7. Covered'
  BY <1>1, <1>2, <1>3 DEF Covered
<1> QED
  BY <1>4, <1>5, <1>6, <1>7 DEF StoreInv

\* A history that grows is continued where it ended (restarted was false).
LEMMA GrowthKeepsStoreInv ==
    ASSUME StoreInv, NEW d \in Datagram, Push(d), ~restarted(d), len # StoreCapacity
    PROVE  StoreInv'
<1>1. /\ len > 0 /\ d.first = next_sequence
      /\ len' = len + 1
      /\ \A i \in 0 .. (len - 1) : datagram_at(i)' = datagram_at(i)
      /\ datagram_at(len - 1)' = d
      /\ first_sequence' = first_sequence /\ next_sequence' = End(d)
      /\ head' \in 0 .. (StoreCapacity - 1)
      /\ slots' \in [0 .. (StoreCapacity - 1) -> Datagram \cup {Unused}]
  BY PushGrows DEF StoreInv
<1>2. /\ d.first \in Nat /\ End(d) \in Nat
      /\ \A n : n \in Seqs(d) <=> n \in Nat /\ d.first <= n /\ n < End(d)
  BY DatagramFacts
<1>3. /\ len \in Nat /\ len < StoreCapacity /\ StoreCapacity \in Nat
      /\ first_sequence \in Nat /\ next_sequence \in Nat
      /\ \A i \in 0 .. (len - 1) : datagram_at(i) \in Datagram
  BY StoreAssumption DEF StoreInv, StoreTypeOK
<1>4. /\ len' - 1 = len /\ len' - 2 = len - 1
      /\ \A i : i \in 0 .. len <=> i \in 0 .. (len - 1) \/ i = len
  BY <1>1, <1>3
<1>5. \A i : i = len => datagram_at(i)' = d
  BY <1>1, <1>4 DEF datagram_at
<1>6. StoreTypeOK'
  BY <1>1, <1>2, <1>3, <1>4, <1>5 DEF StoreTypeOK
<1>7. HistoryHasNoHole'
  <2>1. datagram_at(0)' = datagram_at(0)
    BY <1>1, <1>3
  <2>2. ASSUME NEW i \in 0 .. (len - 1)
        PROVE  End(datagram_at(i))' = datagram_at(i + 1)'.first
    <3>1. datagram_at(i)' = datagram_at(i)
      BY <1>1
    <3>2. CASE i = len - 1
      BY <1>1, <1>3, <1>5, <3>1, <3>2 DEF StoreInv, HistoryHasNoHole
    <3>3. CASE i # len - 1
      <4>1. i \in 0 .. (len - 2) /\ i + 1 \in 0 .. (len - 1)
        BY <1>3, <3>3
      <4>2. datagram_at(i + 1)' = datagram_at(i + 1)
        BY <1>1, <4>1
      <4> QED
        BY <1>1, <3>1, <4>1, <4>2 DEF StoreInv, HistoryHasNoHole
    <3> QED
      BY <3>2, <3>3
  <2>3. datagram_at(0)'.first = first_sequence'
    BY <1>1, <2>1 DEF StoreInv, HistoryHasNoHole
  <2> QED
    BY <1>1, <1>4, <2>2, <2>3 DEF HistoryHasNoHole
<1>8. Ordered'
  <2> SUFFICES ASSUME NEW i \in 0 .. len, NEW j \in 0 .. len, i < j
               PROVE  End(datagram_at(i))' <= datagram_at(j)'.first
    BY <1>4 DEF Ordered
  <2>1. i \in 0 .. (len - 1) /\ datagram_at(i)' = datagram_at(i)
    BY <1>1, <1>3
  <2>2. CASE j = len
    BY <1>1, <1>5, <2>1, <2>2, EndsBeforeNext DEF StoreInv
  <2>3. CASE j # len
    BY <1>1, <1>4, <2>1, <2>3 DEF StoreInv, Ordered
  <2> QED
    BY <2>2, <2>3
<1>9. Covered'
  <2> SUFFICES ASSUME NEW n \in first_sequence .. (End(d) - 1)
               PROVE  \E i \in 0 .. len : n \in Seqs(datagram_at(i))'
    BY <1>1, <1>4 DEF Covered
  <2>1. CASE n < next_sequence
    <3>1. n \in first_sequence .. (next_sequence - 1)
      BY <1>3, <2>1
    <3>2. PICK i \in 0 .. (len - 1) : n \in Seqs(datagram_at(i))
      BY <3>1 DEF StoreInv, Covered
    <3> QED
      BY <1>1, <1>4, <3>2
  <2>2. CASE n >= next_sequence
    <3>1. n \in Seqs(d)
      BY <1>1, <1>2, <1>3, <2>2
    <3> QED
      BY <1>4, <1>5, <3>1
  <2> QED
    BY <1>3, <2>1, <2>2
<1> QED
  BY <1>6, <1>7, <1>8, <1>9 DEF StoreInv

\* A history that evicts begins where the evicted datagram ended.
LEMMA EvictionKeepsStoreInv ==
    ASSUME StoreInv, NEW d \in Datagram, Push(d), ~restarted(d), len = StoreCapacity
    PROVE  StoreInv'
<1>1. /\ len > 0 /\ d.first = next_sequence
      /\ len' = len
      /\ \A i \in 0 .. (len - 2) : datagram_at(i)' = datagram_at(i + 1)
      /\ datagram_at(len - 1)' = d
      /\ first_sequence' = End(datagram_at(0)) /\ next_sequence' = End(d)
      /\ head' \in 0 .. (StoreCapacity - 1)
      /\ slots' \in [0 .. (StoreCapacity - 1) -> Datagram \cup {Unused}]
  BY PushEvicts DEF StoreInv
<1>2. /\ d.first \in Nat /\ End(d) \in Nat
      /\ \A n : n \in Seqs(d) <=> n \in Nat /\ d.first <= n /\ n < End(d)
  BY DatagramFacts
<1>3. /\ len \in Nat /\ StoreCapacity \in Nat
      /\ first_sequence \in Nat /\ next_sequence \in Nat
      /\ \A i \in 0 .. (len - 1) : datagram_at(i) \in Datagram
  BY StoreAssumption DEF StoreInv, StoreTypeOK
<1>4. /\ \A i : i \in 0 .. (len - 1) <=> i \in 0 .. (len - 2) \/ i = len - 1
      /\ \A i \in 0 .. (len - 2) : i + 1 \in 0 .. (len - 1)
      /\ 0 \in 0 .. (len - 1)
  BY <1>1, <1>3
<1>5. \A i : i = len - 1 => datagram_at(i)' = d
  BY <1>1 DEF datagram_at
<1>6. datagram_at(0) \in Datagram /\ End(datagram_at(0)) \in Nat
  BY <1>3, <1>4, DatagramFacts
<1>7. StoreTypeOK'
  <2>1. \A i \in 0 .. (len - 1) : datagram_at(i)' \in Datagram
    BY <1>1, <1>3, <1>4, <1>5
  <2> QED
    BY <1>1, <1>2, <1>3, <1>6, <2>1 DEF StoreTypeOK
<1>8. HistoryHasNoHole'
  <2>1. ASSUME NEW i \in 0 .. (len - 2)
        PROVE  End(datagram_at(i))' = datagram_at(i + 1)'.first
    <3>1. datagram_at(i)' = datagram_at(i + 1)
      BY <1>1
    <3>2. CASE i + 1 = len - 1
      BY <1>1, <1>3, <1>5, <3>1, <3>2 DEF StoreInv, HistoryHasNoHole
    <3>3. CASE i + 1 # len - 1
      <4>1. i + 1 \in 0 .. (len - 2)
        BY <1>3, <3>3
      <4>2. datagram_at(i + 1)' = datagram_at((i + 1) + 1)
        BY <1>1, <4>1
      <4> QED
        BY <1>1, <3>1, <4>1, <4>2 DEF StoreInv, HistoryHasNoHole
    <3> QED
      BY <3>2, <3>3
  <2>2. datagram_at(0)'.first = first_sequence'
    <3>1. CASE len = 1
      <4>1. datagram_at(0)' = d
        BY <1>5, <3>1
      <4> QED
        BY <1>1, <3>1, <4>1 DEF StoreInv, HistoryHasNoHole
    <3>2. CASE len # 1
      <4>1. 0 \in 0 .. (len - 2)
        BY <1>1, <1>3, <3>2
      <4>2. datagram_at(0)' = datagram_at(0 + 1)
        BY <1>1, <4>1
      <4> QED
        BY <1>1, <4>1, <4>2 DEF StoreInv, HistoryHasNoHole
    <3> QED
      BY <3>1, <3>2
  <2> QED
    BY <1>1, <2>1, <2>2 DEF HistoryHasNoHole
<1>9. Ordered'
  <2> SUFFICES ASSUME NEW i \in 0 .. (len - 1), NEW j \in 0 .. (len - 1), i < j
               PROVE  End(datagram_at(i))' <= datagram_at(j)'.first
    BY <1>1 DEF Ordered
  <2>1. /\ i \in 0 .. (len - 2) /\ i + 1 \in 0 .. (len - 1)
        /\ datagram_at(i)' = datagram_at(i + 1)
    BY <1>1, <1>3
  <2>2. CASE j = len - 1
    BY <1>1, <1>5, <2>1, <2>2, EndsBeforeNext DEF StoreInv
  <2>3. CASE j # len - 1
    <3>1. j \in 0 .. (len - 2) /\ j + 1 \in 0 .. (len - 1) /\ i + 1 < j + 1
      BY <1>3, <2>3
    <3> QED
      BY <1>1, <2>1, <3>1 DEF StoreInv, Ordered
  <2> QED
    BY <2>2, <2>3
<1>10. Covered'
  <2> SUFFICES ASSUME NEW n \in End(datagram_at(0)) .. (End(d) - 1)
               PROVE  \E i \in 0 .. (len - 1) : n \in Seqs(datagram_at(i))'
    BY <1>1 DEF Covered
  <2>1. CASE n < next_sequence
    <3>1. first_sequence <= End(datagram_at(0))
      BY <1>1, <1>4, <1>6, DatagramFacts DEF StoreInv, HistoryHasNoHole
    <3>2. n \in first_sequence .. (next_sequence - 1)
      BY <1>3, <1>6, <2>1, <3>1
    <3>3. PICK i \in 0 .. (len - 1) : n \in Seqs(datagram_at(i))
      BY <3>2 DEF StoreInv, Covered
    <3>4. i # 0
      BY <1>6, <3>3, DatagramFacts
    <3>5. i - 1 \in 0 .. (len - 2) /\ i - 1 \in 0 .. (len - 1) /\ (i - 1) + 1 = i
      BY <1>3, <3>4
    <3>6. datagram_at(i - 1)' = datagram_at(i)
      BY <1>1, <3>5
    <3> QED
      BY <3>3, <3>5, <3>6
  <2>2. CASE n >= next_sequence
    <3>1. n \in Seqs(d)
      BY <1>1, <1>2, <1>3, <1>6, <2>2
    <3>2. len - 1 \in 0 .. (len - 1)
      BY <1>1, <1>3
    <3>3. PICK i \in 0 .. (len - 1) : i = len - 1
      BY <3>2
    <3> QED
      BY <1>5, <3>1, <3>3
  <2> QED
    BY <1>3, <1>6, <2>1, <2>2
<1> QED
  BY <1>7, <1>8, <1>9, <1>10 DEF StoreInv

\* The whole of push.
LEMMA PushKeepsStoreInv ==
    ASSUME StoreInv, NEW d \in Datagram, Push(d) \/ Duplicate(d)
    PROVE  StoreInv'
<1>1. CASE Duplicate(d)
  BY <1>1 DEF Duplicate, storeVars, StoreInv, StoreTypeOK, HistoryHasNoHole, Ordered, Covered,
              datagram_at
<1>2. CASE Push(d)
  BY <1>2, RestartKeepsStoreInv, GrowthKeepsStoreInv, EvictionKeepsStoreInv, SMTT(30)
<1> QED
  BY <1>1, <1>2, SMTT(30)

\* Everything else the service does leaves the store alone.
LEMMA UnchangedKeepsStoreInv ==
    ASSUME StoreInv, UNCHANGED storeVars
    PROVE  StoreInv'
BY DEF storeVars, StoreInv, StoreTypeOK, HistoryHasNoHole, Ordered, Covered, datagram_at

\* An empty store, at the start of the service.
LEMMA EmptyStoreInv ==
    ASSUME StoreInit
    PROVE  StoreInv
<1>1. len = 0 /\ head = 0 /\ first_sequence = 0 /\ next_sequence = 0
  BY DEF StoreInit
<1>2. StoreTypeOK
  BY <1>1, StoreAssumption DEF StoreInit, StoreTypeOK
<1>3. HistoryHasNoHole /\ Ordered /\ Covered
  BY <1>1, SMTT(30) DEF HistoryHasNoHole, Ordered, Covered
<1> QED
  BY <1>2, <1>3 DEF StoreInv

-----------------------------------------------------------------------------
(***************************************************************************)
(* locate, branch by branch.                                               *)
(***************************************************************************)
Within(from, through) ==
    from <= through /\ len > 0 /\ from >= first_sequence /\ through < next_sequence

\* What locate answers, as the range lies within the history or not.
LEMMA LocateBranches ==
    ASSUME len \in Nat, first_sequence \in Nat, next_sequence \in Nat,
           NEW from \in Nat, NEW through \in Nat
    PROVE  /\ Within(from, through) /\ past(from) # {} =>
                locate(from, through) =
                   [status |-> "Ok", start |-> Min(past(from)), end |-> scan_end(from, through)]
           /\ Within(from, through) /\ past(from) = {} =>
                locate(from, through) = miss("Incomplete")
           /\ ~Within(from, through) =>
                /\ locate(from, through) \in {miss("BadRequest"), miss("TooOld"), miss("NotYet")}
<1>1. CASE from > through
  BY <1>1 DEF locate, Within
<1>2. CASE from <= through /\ (len = 0 \/ from < first_sequence)
  BY <1>2 DEF locate, Within
<1>3. CASE from <= through /\ len > 0 /\ from >= first_sequence /\ through >= next_sequence
  BY <1>3 DEF locate, Within
<1>4. CASE Within(from, through)
  BY <1>4 DEF locate, Within
<1> QED
  BY <1>1, <1>2, <1>3, <1>4 DEF Within

\* The datagrams between the two ends of the history.
LEMMA StartsAfterFirst ==
    ASSUME StoreInv
    PROVE  \A i \in 0 .. (len - 1) : first_sequence <= datagram_at(i).first
<1> SUFFICES ASSUME NEW i \in 0 .. (len - 1)
             PROVE  first_sequence <= datagram_at(i).first
  OBVIOUS
<1>1. /\ len \in Nat /\ len > 0 /\ 0 \in 0 .. (len - 1)
      /\ datagram_at(i) \in Datagram /\ datagram_at(0) \in Datagram
  BY DEF StoreInv, StoreTypeOK
<1>2. PICK e, f, z \in Nat : /\ e = datagram_at(i).first
                             /\ f = datagram_at(0).first
                             /\ z = End(datagram_at(0)) /\ f < z
  BY <1>1, DatagramFacts
<1>3. f = first_sequence
  BY <1>1, <1>2 DEF StoreInv, HistoryHasNoHole
<1>4. CASE i = 0
  BY <1>2, <1>3, <1>4
<1>5. CASE i # 0
  <2>1. 0 < i
    BY <1>1, <1>5
  <2>2. z <= e
    BY <1>1, <1>2, <2>1 DEF StoreInv, Ordered
  <2> QED
    BY <1>2, <1>3, <2>2
<1> QED
  BY <1>4, <1>5

\* The first datagram that ends past n is the one that holds n.
LEMMA FirstPastHolds ==
    ASSUME StoreInv, NEW n \in Nat, NEW i \in 0 .. (len - 1), n \in Seqs(datagram_at(i)),
           NEW T \in SUBSET past(n), i \in T
    PROVE  Min(T) = i
<1>1. len \in Nat /\ \A k \in 0 .. (len - 1) : datagram_at(k) \in Datagram
  BY DEF StoreInv, StoreTypeOK
<1>2. T \in SUBSET Nat /\ T # {} /\ T \subseteq 0 .. (len - 1)
  BY <1>1 DEF past
<1>3. PICK m \in 0 .. (len - 1) : m = Min(T) /\ m \in T /\ m <= i
  BY <1>2, MinIsLeast, Zenon
<1>4. PICK e, f \in Nat : e = End(datagram_at(m)) /\ f = datagram_at(i).first /\ f <= n
  BY <1>1, DatagramFacts
<1>5. e > n
  BY <1>3, <1>4 DEF past
<1>6. m < i => e <= f
  BY <1>4 DEF StoreInv, Ordered
<1>7. m = i
  BY <1>1, <1>3, <1>4, <1>5, <1>6
<1> QED
  BY <1>3, <1>7

(***************************************************************************)
(* A range within the history is located from the datagram that holds its  *)
(* first message to the one that holds its last.                           *)
(***************************************************************************)
LEMMA LocateFinds ==
    ASSUME StoreInv, NEW from \in Nat, NEW through \in Nat, Within(from, through)
    PROVE  \E i, j \in 0 .. (len - 1) :
              /\ locate(from, through) = [status |-> "Ok", start |-> i, end |-> j + 1]
              /\ i <= j
              /\ from \in Seqs(datagram_at(i)) /\ through \in Seqs(datagram_at(j))
<1>1. /\ len \in Nat /\ first_sequence \in Nat /\ next_sequence \in Nat
      /\ \A k \in 0 .. (len - 1) : datagram_at(k) \in Datagram
  BY DEF StoreInv, StoreTypeOK
<1>2. /\ from \in first_sequence .. (next_sequence - 1)
      /\ through \in first_sequence .. (next_sequence - 1) /\ from <= through
  BY <1>1 DEF Within
<1>3. PICK i \in 0 .. (len - 1) : from \in Seqs(datagram_at(i))
  BY <1>2 DEF StoreInv, Covered
<1>4. PICK j \in 0 .. (len - 1) : through \in Seqs(datagram_at(j))
  BY <1>2 DEF StoreInv, Covered
<1>5. i \in past(from)
  BY <1>1, <1>3, DatagramFacts DEF past
<1>6. j \in past(from) \cap past(through)
  <2>1. PICK e \in Nat : e = End(datagram_at(j)) /\ through < e
    BY <1>1, <1>4, DatagramFacts
  <2>2. e > from /\ e > through
    BY <1>2, <2>1
  <2> QED
    BY <2>1, <2>2 DEF past
<1>7. Min(past(from)) = i
  BY <1>3, <1>5, FirstPastHolds
<1>8. Min(past(from) \cap past(through)) = j
  <2>1. past(from) \cap past(through) \in SUBSET past(through)
    OBVIOUS
  <2> QED
    BY <1>4, <1>6, <2>1, FirstPastHolds
<1>9. scan_end(from, through) = j + 1
  BY <1>6, <1>8, Zenon DEF scan_end
<1>10. i <= j
  <2>1. past(from) \in SUBSET Nat
    BY <1>1 DEF past
  <2> QED
    BY <1>5, <1>6, <1>7, <2>1, MinIsLeast
<1>11. locate(from, through) = [status |-> "Ok", start |-> i, end |-> j + 1]
  BY <1>1, <1>5, <1>7, <1>9, LocateBranches
<1> QED
  BY <1>3, <1>4, <1>10, <1>11

\* Exactly the datagrams from i to j share a message with the range.
LEMMA ServedAreTheSharers ==
    ASSUME StoreInv, NEW from \in Nat, NEW through \in Nat, from <= through,
           NEW i \in 0 .. (len - 1), NEW j \in 0 .. (len - 1), i <= j,
           from \in Seqs(datagram_at(i)), through \in Seqs(datagram_at(j)),
           NEW k \in 0 .. (len - 1)
    PROVE  k \in i .. j <=> Seqs(datagram_at(k)) \cap (from .. through) # {}
<1>1. len \in Nat /\ \A n \in 0 .. (len - 1) : datagram_at(n) \in Datagram
  BY DEF StoreInv, StoreTypeOK
<1>2. PICK fi, ei \in Nat : /\ fi = datagram_at(i).first /\ ei = End(datagram_at(i))
                            /\ fi <= from /\ from < ei
  BY <1>1, DatagramFacts
<1>3. PICK fj, ej \in Nat : /\ fj = datagram_at(j).first /\ ej = End(datagram_at(j))
                            /\ fj <= through /\ through < ej
  BY <1>1, DatagramFacts
<1>4. PICK fk, ek \in Nat : /\ fk = datagram_at(k).first /\ ek = End(datagram_at(k))
                            /\ fk < ek
                            /\ \A n : n \in Seqs(datagram_at(k)) <=>
                                        n \in Nat /\ fk <= n /\ n < ek
  BY <1>1, DatagramFacts
<1>5. /\ k < i => ek <= fi
      /\ j < k => ej <= fk
      /\ i < k => ei <= fk
      /\ k < j => ek <= fj
  BY <1>2, <1>3, <1>4 DEF StoreInv, Ordered
<1>6. ASSUME k \in i .. j
      PROVE  Seqs(datagram_at(k)) \cap (from .. through) # {}
  <2>1. CASE k = i
    BY <2>1
  <2>2. CASE k = j
    BY <2>2
  <2>3. CASE i < k /\ k < j
    <3>1. fk \in from .. through /\ fk \in Seqs(datagram_at(k))
      BY <1>2, <1>3, <1>4, <1>5, <2>3, SMTT(30)
    <3> QED
      BY <3>1
  <2> QED
    BY <1>1, <1>6, <2>1, <2>2, <2>3
<1>7. ASSUME NEW n \in Seqs(datagram_at(k)) \cap (from .. through)
      PROVE  k \in i .. j
  <2>1. n \in Nat /\ fk <= n /\ n < ek /\ from <= n /\ n <= through
    BY <1>4
  <2>2. ~(k < i) /\ ~(j < k)
    BY <1>2, <1>3, <1>4, <1>5, <2>1, SMTT(30)
  <2> QED
    BY <1>1, <2>2
<1> QED
  BY <1>6, <1>7

\* A history without a hole is located exactly.
LEMMA LocateIsExactHere ==
    ASSUME StoreInv
    PROVE  LocateIsExact
<1> SUFFICES ASSUME NEW from \in 1 .. (MaxSeq + 1), NEW through \in 1 .. (MaxSeq + 1)
             PROVE  /\ locate(from, through).status # "Incomplete"
                    /\ locate(from, through).status = "Ok" <=>
                          /\ from <= through
                          /\ from .. through \subseteq UNION {Seqs(d) : d \in held}
                    /\ locate(from, through).status = "Ok" =>
                          {datagram_at(k) : k \in locate(from, through).start
                                                  .. (locate(from, through).end - 1)}
                             = {d \in held : Seqs(d) \cap (from .. through) # {}}
  BY Zenon DEF LocateIsExact
<1>1. /\ len \in Nat /\ first_sequence \in Nat /\ next_sequence \in Nat
      /\ \A k \in 0 .. (len - 1) : datagram_at(k) \in Datagram
      /\ from \in Nat /\ through \in Nat
  BY StoreAssumption DEF StoreInv, StoreTypeOK
<1>2. CASE Within(from, through)
  <2>1. PICK i, j \in 0 .. (len - 1) :
              /\ locate(from, through) = [status |-> "Ok", start |-> i, end |-> j + 1]
              /\ i <= j
              /\ from \in Seqs(datagram_at(i)) /\ through \in Seqs(datagram_at(j))
    BY <1>1, <1>2, LocateFinds
  <2>2. from <= through
    BY <1>2 DEF Within
  <2>3. from .. through \subseteq UNION {Seqs(d) : d \in held}
    <3> SUFFICES ASSUME NEW n \in from .. through
                 PROVE  \E d \in held : n \in Seqs(d)
      OBVIOUS
    <3>1. n \in first_sequence .. (next_sequence - 1)
      BY <1>1, <1>2 DEF Within
    <3> QED
      BY <3>1 DEF StoreInv, Covered, held
  <2>4. locate(from, through).start = i /\ locate(from, through).end - 1 = j
    BY <1>1, <2>1
  <2>5. i .. j \subseteq 0 .. (len - 1)
    BY <1>1
  <2>6. \A k \in 0 .. (len - 1) :
           k \in i .. j <=> Seqs(datagram_at(k)) \cap (from .. through) # {}
    BY <1>1, <2>1, <2>2, ServedAreTheSharers
  <2>7. {datagram_at(k) : k \in i .. j} = {d \in held : Seqs(d) \cap (from .. through) # {}}
    BY <2>5, <2>6 DEF held
  <2> QED
    BY <2>1, <2>2, <2>3, <2>4, <2>7, SMTT(30)
<1>3. CASE ~Within(from, through)
  <2>1. locate(from, through) \in {miss("BadRequest"), miss("TooOld"), miss("NotYet")}
    BY <1>1, <1>3, LocateBranches
  <2>2. locate(from, through).status \in {"BadRequest", "TooOld", "NotYet"}
    BY <2>1 DEF miss
  <2>3. ASSUME from <= through, from .. through \subseteq UNION {Seqs(d) : d \in held}
        PROVE  FALSE
    <3>1. from \in from .. through /\ through \in from .. through
      BY <1>1, <2>3
    <3>2. PICK i \in 0 .. (len - 1) : from \in Seqs(datagram_at(i))
      BY <2>3, <3>1 DEF held
    <3>3. PICK j \in 0 .. (len - 1) : through \in Seqs(datagram_at(j))
      BY <2>3, <3>1 DEF held
    <3>4. PICK f \in Nat : f = datagram_at(i).first /\ f <= from
      BY <1>1, <3>2, DatagramFacts
    <3>5. PICK e \in Nat : e = End(datagram_at(j)) /\ through < e
      BY <1>1, <3>3, DatagramFacts
    <3>6. first_sequence <= f /\ e <= next_sequence /\ len > 0
      BY <1>1, <3>4, <3>5, StartsAfterFirst, EndsBeforeNext, SMTT(30)
    <3> QED
      BY <1>1, <1>3, <2>3, <3>4, <3>5, <3>6, SMTT(30) DEF Within
  <2> QED
    BY <2>2, <2>3
<1> QED
  BY <1>2, <1>3, Zenon

-----------------------------------------------------------------------------
(***************************************************************************)
(* The invariant of the path.  What carries AnswerIsWhole from the store   *)
(* to the consumer is what is known of a response on its way: what has     *)
(* arrived and what is still to come are together the beginning of a whole *)
(* answer, and all of it if as long as promised.                           *)
(***************************************************************************)
Statuses == {"", "Ok", "BadRequest", "TooOld", "NotYet", "Incomplete"}

RequestType == [phase : {"None", "Asked", "Answering", "Returned", "Failed"},
                from : Nat, through : Nat, status : Statuses, promised : Int,
                rest : Seq(Datagram), got : Seq(Datagram)]

PathTypeOK ==
    /\ epoch \in Nat /\ published \in Nat
    /\ queue \in Seq(Datagram)
    /\ conns \in [1 .. MaxConns -> [alive : BOOLEAN, data : Seq(Datagram)]]
    /\ request \in RequestType

Abut(s) == \A i \in 1 .. (Len(s) - 1) : End(s[i]) = s[i + 1].first

\* s is the beginning of an answer of n datagrams to the request of a range.
BeginsAnswer(s, n, from, through) ==
    /\ n > 0 /\ Len(s) <= n
    /\ Abut(s)
    /\ Len(s) > 0 => from \in Seqs(s[1])
    /\ Len(s) = n => through \in Seqs(s[Len(s)])

AnswerInv ==
    /\ request.phase = "Asked" => request.got = <<>>
    /\ request.phase \in {"Answering", "Returned"} /\ request.status = "Ok" =>
          BeginsAnswer(request.got \o request.rest, request.promised,
                       request.from, request.through)
    /\ request.phase = "Returned" => Len(request.got) = request.promised

PathInv == StoreInv /\ PathTypeOK /\ AnswerInv

\* A beginning of a sequence.
LEMMA PrefixFacts ==
    ASSUME NEW S, NEW s \in Seq(S), NEW n \in 0 .. Len(s)
    PROVE  /\ SubSeq(s, 1, n) \in Seq(S) /\ Len(SubSeq(s, 1, n)) = n
           /\ \A i \in 1 .. n : SubSeq(s, 1, n)[i] = s[i]
<1>1. \A i \in 1 .. n : s[i] \in S
  BY ElementOfSeq
<1>2. n \in Int /\ n >= 0
  OBVIOUS
<1>3. /\ SubSeq(s, 1, n) \in Seq(S)
      /\ Len(SubSeq(s, 1, n)) = IF 1 <= n THEN n - 1 + 1 ELSE 0
      /\ \A i \in 1 .. n - 1 + 1 : SubSeq(s, 1, n)[i] = s[1 + i - 1]
  BY <1>1, <1>2, SubSeqProperties
<1> QED
  BY <1>2, <1>3

\* A datagram that moves from what is to come to what has arrived.
LEMMA MovesOver ==
    ASSUME NEW S, NEW s \in Seq(S), NEW t \in Seq(S), t # <<>>
    PROVE  Append(s, Head(t)) \o Tail(t) = s \o t
<1>1. Head(t) \in S /\ Tail(t) \in Seq(S)
  BY HeadTailProperties
<1>2. t = <<Head(t)>> \o Tail(t)
  BY <1>1
<1>3. Append(s, Head(t)) = s \o <<Head(t)>>
  BY <1>1
<1>4. <<Head(t)>> \in Seq(S)
  BY <1>1
<1>5. (s \o <<Head(t)>>) \o Tail(t) = s \o (<<Head(t)>> \o Tail(t))
  BY <1>1, <1>4, ConcatAssociative
<1> QED
  BY <1>2, <1>3, <1>5

\* Init has the right types.
LEMMA PathTypeInit ==
    ASSUME Init
    PROVE  PathTypeOK
<1>1. <<>> \in Seq(Datagram)
  OBVIOUS
<1>2. NoConn \in [alive : BOOLEAN, data : Seq(Datagram)]
  BY <1>1 DEF NoConn
<1>3. NoRequest \in RequestType
  BY <1>1 DEF NoRequest, RequestType, Statuses
<1>4. conns \in [1 .. MaxConns -> [alive : BOOLEAN, data : Seq(Datagram)]]
  BY <1>2 DEF Init
<1> QED
  BY <1>1, <1>3, <1>4 DEF Init, PathTypeOK

(***************************************************************************)
(* The uplink carries datagrams and nothing else.                          *)
(***************************************************************************)
LEMMA UplinkSteps ==
    ASSUME PathTypeOK, Offer \/ Send \/ Connect \/ EngineRestart \/ \E c \in 1 .. MaxConns : Break(c)
    PROVE  PathTypeOK' /\ UNCHANGED <<storeVars, request>>
<1> DEFINE Conn == [alive : BOOLEAN, data : Seq(Datagram)]
<1>1. /\ epoch \in Nat /\ published \in Nat /\ queue \in Seq(Datagram)
      /\ conns \in [1 .. MaxConns -> Conn]
  BY DEF PathTypeOK
<1>2. queue # <<>> => Head(queue) \in Datagram /\ Tail(queue) \in Seq(Datagram)
  BY <1>1, HeadTailProperties
<1>3. CASE Offer
  <2> DEFINE d == [first |-> Stream[published + 1].first, count |-> Stream[published + 1].count,
                   epoch |-> epoch]
  <2>1. published + 1 \in DOMAIN Stream
    BY <1>1, <1>3, StreamAssumption, SMTT(30) DEF Offer
  <2>2. d \in Datagram
    <3> DEFINE Published == [first : 1 .. MaxSeq, count : 1 .. MaxSeq]
    <3>4. Stream \in Seq(Published) /\ published + 1 \in 1 .. Len(Stream)
      BY <2>1, StreamAssumption
    <3>5. Stream[published + 1] \in Published
      BY <3>4, ElementOfSeq, Zenon
    <3>6. End(Stream[published + 1]) <= MaxSeq + 1
      BY <2>1, StreamAssumption
    <3>1. PICK x \in Published : x = Stream[published + 1] /\ End(x) <= MaxSeq + 1
      BY <3>5, <3>6, SMTT(30)
    <3>2. d = [first |-> x.first, count |-> x.count, epoch |-> epoch]
      BY <3>1, SMTT(30)
    <3> HIDE DEF d
    <3>3. d.first + d.count <= MaxSeq + 1
      BY <3>1, <3>2 DEF End
    <3> QED
      BY <1>1, <3>1, <3>2, <3>3 DEF Datagram, End
  <2> HIDE DEF d
  <2>3. queue' = IF Len(queue) < QueueDepth THEN Append(queue, d) ELSE queue
    BY <1>3 DEF Offer, d
  <2>4. queue' \in Seq(Datagram)
    BY <1>1, <2>2, <2>3, AppendProperties, SMTT(30)
  <2>5. /\ published' \in Nat
        /\ UNCHANGED <<storeVars, epoch, stream, conns, request, faults>>
    BY <1>1, <1>3, SMTT(30) DEF Offer
  <2> QED
    BY <2>4, <2>5 DEF PathTypeOK
<1>4. CASE Send
  <2>1. conns' \in [1 .. MaxConns -> Conn]
    <3>1. CASE UNCHANGED conns
      BY <1>1, <3>1
    <3>2. CASE conns' = Carrying(stream, Head(queue))
      <4>1. \A c \in 1 .. MaxConns : Append(conns[c].data, Head(queue)) \in Seq(Datagram)
        BY <1>1, <1>2, <1>4, AppendProperties, SMTT(30) DEF Send
      <4> QED
        BY <1>1, <3>2, <4>1, Zenon DEF Carrying
    <3> QED
      BY <1>4, <3>1, <3>2 DEF Send
  <2> QED
    BY <1>2, <1>4, <2>1, Zenon DEF Send, PathTypeOK
<1>5. CASE Connect
  <2>1. conns' \in [1 .. MaxConns -> Conn]
    <3>1. CASE UNCHANGED conns
      BY <1>1, <3>1
    <3>2. CASE conns' = [conns EXCEPT ![Min(Free)] = [alive |-> TRUE, data |-> <<Head(queue)>>]]
      <4>1. [alive |-> TRUE, data |-> <<Head(queue)>>] \in Conn
        BY <1>2, <1>5 DEF Connect
      <4> QED
        BY <1>1, <3>2, <4>1, Zenon
    <3> QED
      BY <1>5, <3>1, <3>2 DEF Connect
  <2> QED
    BY <1>2, <1>5, <2>1, SMTT(30) DEF Connect, PathTypeOK
<1>6. CASE EngineRestart
  <2>1. conns' \in [1 .. MaxConns -> Conn]
    BY <1>1, <1>6, Zenon DEF EngineRestart
  <2> QED
    BY <1>1, <1>6, <2>1 DEF EngineRestart, PathTypeOK
<1>7. ASSUME NEW c \in 1 .. MaxConns, Break(c)
      PROVE  PathTypeOK' /\ UNCHANGED <<storeVars, request>>
  <2>1. PICK n \in 0 .. Len(conns[c].data) :
           conns' = [conns EXCEPT ![c] = [alive |-> FALSE, data |-> SubSeq(@.data, 1, n)]]
    BY <1>7, Zenon DEF Break
  <2>2. conns[c].data \in Seq(Datagram)
    BY <1>1
  <2>3. SubSeq(conns[c].data, 1, n) \in Seq(Datagram)
    BY <2>2, PrefixFacts
  <2>4. conns' \in [1 .. MaxConns -> Conn]
    BY <1>1, <2>1, <2>3
  <2> QED
    BY <1>7, <2>4 DEF Break, PathTypeOK
<1> QED
  BY <1>3, <1>4, <1>5, <1>6, <1>7, SMTT(30)

\* What a thread of the service files is a datagram.
LEMMA ServeUplinkStep ==
    ASSUME PathTypeOK, StoreInv, NEW c \in 1 .. MaxConns, ServeUplink(c)
    PROVE  PathTypeOK' /\ StoreInv' /\ UNCHANGED request
<1>1. /\ conns[c].data \in Seq(Datagram) /\ conns[c].data # <<>>
      /\ conns \in [1 .. MaxConns -> [alive : BOOLEAN, data : Seq(Datagram)]]
  BY DEF PathTypeOK, ServeUplink
<1>2. Head(conns[c].data) \in Datagram /\ Tail(conns[c].data) \in Seq(Datagram)
  BY <1>1, HeadTailProperties
<1>3. StoreInv'
  BY <1>2, PushKeepsStoreInv DEF ServeUplink
<1>4. conns' \in [1 .. MaxConns -> [alive : BOOLEAN, data : Seq(Datagram)]]
  BY <1>1, <1>2, Zenon DEF ServeUplink
<1> QED
  BY <1>3, <1>4 DEF ServeUplink, PathTypeOK

(***************************************************************************)
(* serve_request copies a whole answer, or nothing at all.                 *)
(***************************************************************************)
LEMMA CopyBegins ==
    ASSUME StoreInv, NEW from \in Nat, NEW through \in Nat,
           NEW i \in 0 .. (len - 1), NEW j \in 0 .. (len - 1), i <= j,
           from \in Seqs(datagram_at(i)), through \in Seqs(datagram_at(j)),
           NEW s, s = [k \in 1 .. (j + 1 - i) |-> datagram_at(i + k - 1)]
    PROVE  s \in Seq(Datagram) /\ BeginsAnswer(s, j + 1 - i, from, through)
<1>1. /\ len \in Nat /\ \A k \in 0 .. (len - 1) : datagram_at(k) \in Datagram
      /\ \A k \in 0 .. (len - 2) : End(datagram_at(k)) = datagram_at(k + 1).first
  BY SMTT(30) DEF StoreInv, StoreTypeOK, HistoryHasNoHole
<1> DEFINE n == j + 1 - i
<1>2. n \in Nat /\ n > 0 /\ i \in Int /\ j \in Int
  BY <1>1
<1>3. \A k \in 1 .. n : i + k - 1 \in 0 .. (len - 1) /\ s[k] = datagram_at(i + k - 1)
  BY <1>1
<1>4. s \in Seq(Datagram) /\ Len(s) = n
  BY <1>1, <1>2, <1>3, SMTT(30)
<1>5. s[1] = datagram_at(i) /\ s[n] = datagram_at(j)
  <2>1. 1 \in 1 .. n /\ n \in 1 .. n /\ i + 1 - 1 = i /\ i + n - 1 = j
    BY <1>2
  <2> QED
    BY <1>3, <2>1
<1>6. Abut(s)
  <2> SUFFICES ASSUME NEW k \in 1 .. (n - 1)
               PROVE  End(s[k]) = s[k + 1].first
    BY <1>4, Zenon DEF Abut
  <2>1. /\ k \in 1 .. n /\ k + 1 \in 1 .. n
        /\ i + k - 1 \in 0 .. (len - 2) /\ i + (k + 1) - 1 = (i + k - 1) + 1
    BY <1>1, <1>2
  <2> QED
    BY <1>1, <1>3, <2>1, Zenon
<1> HIDE DEF n
<1>7. BeginsAnswer(s, n, from, through)
  BY <1>2, <1>4, <1>5, <1>6 DEF BeginsAnswer
<1> QED
  BY <1>4, <1>7, SMTT(30) DEF n

\* serve_request puts a whole answer on its way (found and copied under one lock).
LEMMA ServeRequestStep ==
    ASSUME PathTypeOK, StoreInv, AnswerInv, ServeRequest
    PROVE  PathTypeOK' /\ AnswerInv'
<1> DEFINE found == locate(request.from, request.through)
           n == found.end - found.start
           copied == [k \in 1 .. n |-> datagram_at(found.start + k - 1)]
<1>1. /\ request \in RequestType /\ request.phase = "Asked" /\ request.got = <<>>
      /\ request.from \in Nat /\ request.through \in Nat
  BY DEF PathTypeOK, RequestType, ServeRequest, AnswerInv
<1>2. request' = [request EXCEPT !.phase = "Answering", !.status = found.status,
                                 !.promised = n, !.rest = copied]
  BY SMTT(30) DEF ServeRequest
<1>3. /\ found.status \in Statuses /\ n \in Int /\ copied \in Seq(Datagram)
      /\ found.status = "Ok" => BeginsAnswer(copied, n, request.from, request.through)
  <2>1. CASE Within(request.from, request.through)
    <3>1. PICK i, j \in 0 .. (len - 1) :
              /\ found = [status |-> "Ok", start |-> i, end |-> j + 1]
              /\ i <= j
              /\ request.from \in Seqs(datagram_at(i))
              /\ request.through \in Seqs(datagram_at(j))
      BY <1>1, <2>1, LocateFinds, Zenon
    <3>2. /\ found.status = "Ok" /\ n = j + 1 - i
          /\ copied = [k \in 1 .. (j + 1 - i) |-> datagram_at(i + k - 1)]
      BY <3>1, SMTT(30)
    <3> HIDE DEF copied, n, found
    <3>3. copied \in Seq(Datagram) /\ BeginsAnswer(copied, n, request.from, request.through)
      BY <1>1, <3>1, <3>2, CopyBegins, Zenon
    <3> QED
      BY <3>2, <3>3, SMTT(30) DEF Statuses
  <2>2. CASE ~Within(request.from, request.through)
    <3>1. len \in Nat /\ first_sequence \in Nat /\ next_sequence \in Nat
      BY SMTT(30) DEF StoreInv, StoreTypeOK
    <3>2. found \in {miss("BadRequest"), miss("TooOld"), miss("NotYet")}
      BY <1>1, <2>2, <3>1, LocateBranches, SMTT(30)
    <3>3. found.status \in {"BadRequest", "TooOld", "NotYet"} /\ n = 0
      BY <3>2 DEF miss
    <3> HIDE DEF found
    <3>4. copied \in Seq(Datagram)
      <4> HIDE DEF n
      <4>1. \A k \in 1 .. n : datagram_at(found.start + k - 1) \in Datagram
        BY <3>3
      <4>2. copied \in [1 .. n -> Datagram]
        BY <4>1
      <4> QED
        BY <3>3, <4>2, SeqDef
    <3> HIDE DEF copied, n
    <3>5. found.status # "Ok" /\ found.status \in Statuses
      BY <3>3, Zenon DEF Statuses
    <3>6. n \in Int
      BY <3>3
    <3> QED
      BY <3>4, <3>5, <3>6
  <2> QED
    BY <2>1, <2>2
<1> HIDE DEF copied, n, found
<1>4. request' \in RequestType
  BY <1>1, <1>2, <1>3, Zenon DEF RequestType
<1>5. /\ request'.phase = "Answering" /\ request'.status = found.status
      /\ request'.promised = n /\ request'.got = <<>> /\ request'.rest = copied
      /\ request'.from = request.from /\ request'.through = request.through
  BY <1>1, <1>2, SMTT(30) DEF RequestType
<1>6. request'.got \o request'.rest = copied
  BY <1>3, <1>5, ConcatEmptySeq, SMTT(30)
<1>7. AnswerInv'
  BY <1>3, <1>5, <1>6 DEF AnswerInv
<1> QED
  BY <1>4, <1>7 DEF PathTypeOK, ServeRequest, uplinkVars

(***************************************************************************)
(* The consumer counts: it takes what has come for an answer only when it  *)
(* is as long as promised.                                                 *)
(***************************************************************************)
LEMMA ReceiveStep ==
    ASSUME PathTypeOK, AnswerInv, Receive
    PROVE  PathTypeOK' /\ AnswerInv'
<1>1. /\ request \in RequestType /\ request.phase = "Answering"
      /\ request.got \in Seq(Datagram) /\ request.rest \in Seq(Datagram)
  BY DEF PathTypeOK, RequestType, Receive
<1>2. UNCHANGED <<epoch, published, queue, conns>>
  BY Zenon DEF Receive, uplinkVars
<1>3. CASE Len(request.got) = request.promised
  <2>1. request' = [request EXCEPT !.phase = "Returned"]
    BY <1>3 DEF Receive
  <2>2. request' \in RequestType
    BY <1>1, <2>1, SMTT(30) DEF RequestType
  <2>3. /\ request'.phase = "Returned" /\ request'.status = request.status
        /\ request'.promised = request.promised /\ request'.got = request.got
        /\ request'.rest = request.rest
        /\ request'.from = request.from /\ request'.through = request.through
    BY <1>1, <2>1, SMTT(30) DEF RequestType
  <2> QED
    BY <1>1, <1>2, <1>3, <2>2, <2>3 DEF PathTypeOK, AnswerInv
<1>4. CASE Len(request.got) # request.promised /\ request.rest = <<>>
  <2>1. request' = [request EXCEPT !.phase = "Failed"]
    BY <1>4 DEF Receive
  <2>2. request' \in RequestType /\ request'.phase = "Failed"
    BY <1>1, <2>1, Zenon DEF RequestType
  <2> QED
    BY <1>2, <2>2 DEF PathTypeOK, AnswerInv
<1>5. CASE Len(request.got) # request.promised /\ request.rest # <<>>
  <2> DEFINE rest == Tail(request.rest)
             got == Append(request.got, Head(request.rest))
  <2>1. request' = [request EXCEPT !.rest = rest, !.got = got]
    BY <1>5 DEF Receive
  <2>2. rest \in Seq(Datagram) /\ got \in Seq(Datagram)
    BY <1>1, <1>5, HeadTailProperties, AppendProperties
  <2>3. got \o rest = request.got \o request.rest
    BY <1>1, <1>5, MovesOver, Zenon
  <2> HIDE DEF rest, got
  <2>4. request' \in RequestType
    BY <1>1, <2>1, <2>2, Zenon DEF RequestType
  <2>5. /\ request'.phase = "Answering" /\ request'.status = request.status
        /\ request'.promised = request.promised /\ request'.got = got
        /\ request'.rest = rest
        /\ request'.from = request.from /\ request'.through = request.through
    BY <1>1, <2>1 DEF RequestType
  <2> QED
    BY <1>1, <1>2, <2>3, <2>4, <2>5, Zenon DEF PathTypeOK, AnswerInv
<1> QED
  BY <1>3, <1>4, <1>5

\* What is cut off of a response leaves the beginning of it.
LEMMA CutShortBegins ==
    ASSUME NEW s \in Seq(Datagram), NEW t \in Seq(Datagram), NEW k \in 0 .. Len(t),
           NEW n \in Int, NEW from, NEW through, BeginsAnswer(s \o t, n, from, through)
    PROVE  BeginsAnswer(s \o SubSeq(t, 1, k), n, from, through)
<1> DEFINE u == SubSeq(t, 1, k)
           x == s \o t
           y == s \o u
<1>1. Len(s) \in Nat /\ Len(t) \in Nat /\ k \in Nat /\ k <= Len(t)
  BY LenProperties
<1>2. u \in Seq(Datagram) /\ Len(u) = k /\ \A i \in 1 .. k : u[i] = t[i]
  BY PrefixFacts
<1> HIDE DEF u
<1>3. /\ x \in Seq(Datagram) /\ Len(x) = Len(s) + Len(t)
      /\ \A i \in 1 .. Len(s) + Len(t) : x[i] = IF i <= Len(s) THEN s[i] ELSE t[i - Len(s)]
  BY ConcatProperties
<1>4. /\ y \in Seq(Datagram) /\ Len(y) = Len(s) + Len(u)
      /\ \A i \in 1 .. Len(s) + Len(u) : y[i] = IF i <= Len(s) THEN s[i] ELSE u[i - Len(s)]
  BY <1>2, ConcatProperties, Zenon
<1> HIDE DEF x, y
<1>5. Len(y) \in Nat /\ Len(x) \in Nat /\ Len(y) <= Len(x)
  BY <1>1, <1>2, <1>3, <1>4, SMTT(30)
<1>6. ASSUME NEW i \in 1 .. Len(y)
      PROVE  y[i] = x[i]
  <2>1. CASE i <= Len(s)
    BY <1>1, <1>2, <1>3, <1>4, <2>1, SMTT(30)
  <2>2. CASE i > Len(s)
    <3>1. i - Len(s) \in 1 .. k
      BY <1>1, <1>2, <1>4, <2>2
    <3>2. y[i] = u[i - Len(s)] /\ x[i] = t[i - Len(s)]
      BY <1>1, <1>2, <1>3, <1>4, <2>2
    <3> QED
      BY <1>2, <3>1, <3>2
  <2> QED
    BY <1>1, <1>5, <2>1, <2>2, SMTT(30)
<1>7. BeginsAnswer(x, n, from, through)
  BY DEF x
<1>8. Abut(y)
  <2> SUFFICES ASSUME NEW i \in 1 .. (Len(y) - 1)
               PROVE  End(y[i]) = y[i + 1].first
    BY DEF Abut
  <2>1. i \in 1 .. (Len(x) - 1) /\ i \in 1 .. Len(y) /\ i + 1 \in 1 .. Len(y)
    BY <1>5
  <2> QED
    BY <1>6, <1>7, <2>1 DEF BeginsAnswer, Abut
<1>9. Len(y) = n => Len(x) = n
  BY <1>5, <1>7 DEF BeginsAnswer
<1>10. Len(y) > 0 => y[1] = x[1] /\ y[Len(y)] = x[Len(y)]
  BY <1>5, <1>6, SMTT(30)
<1>11. BeginsAnswer(y, n, from, through)
  BY <1>5, <1>7, <1>8, <1>9, <1>10 DEF BeginsAnswer
<1> QED
  BY <1>11 DEF y, u

\* A request that failed.
LEMMA FailedIsRequest ==
    ASSUME NEW r \in RequestType
    PROVE  LET f == [r EXCEPT !.phase = "Failed", !.rest = <<>>]
           IN  f \in RequestType /\ f.phase = "Failed"
<1>1. PICK none \in Seq(Datagram) : none = <<>>
  BY EmptySeq, Zenon
<1>2. [r EXCEPT !.phase = "Failed", !.rest = none] \in RequestType
  BY Zenon DEF RequestType
<1>3. [r EXCEPT !.phase = "Failed", !.rest = none].phase = "Failed"
  BY DEF RequestType
<1> QED
  BY <1>1, <1>2, <1>3

\* A response cut short, or timed out.
LEMMA CutStep ==
    ASSUME PathTypeOK, AnswerInv, Cut
    PROVE  PathTypeOK' /\ AnswerInv'
<1>1. /\ request \in RequestType /\ request.promised \in Int
      /\ request.got \in Seq(Datagram) /\ request.rest \in Seq(Datagram)
  BY DEF PathTypeOK, RequestType
<1>2. UNCHANGED <<epoch, published, queue, conns>>
  BY DEF Cut, uplinkVars
<1>3. CASE request' = [request EXCEPT !.phase = "Failed", !.rest = <<>>]
  <2>1. request' \in RequestType /\ request'.phase = "Failed"
    BY <1>1, <1>3, FailedIsRequest, Zenon
  <2> QED
    BY <1>2, <2>1, Zenon DEF PathTypeOK, AnswerInv
<1>4. ASSUME request.phase = "Answering",
             NEW n \in 0 .. Len(request.rest), request' = [request EXCEPT !.rest = SubSeq(@, 1, n)]
      PROVE  PathTypeOK' /\ AnswerInv'
  <2> DEFINE rest == SubSeq(request.rest, 1, n)
  <2>1. rest \in Seq(Datagram)
    BY <1>1, PrefixFacts
  <2>2. request' = [request EXCEPT !.rest = rest]
    BY <1>4
  <2>3. BeginsAnswer(request.got \o request.rest, request.promised,
                     request.from, request.through)
          => BeginsAnswer(request.got \o rest, request.promised, request.from, request.through)
    BY <1>1, CutShortBegins
  <2> HIDE DEF rest
  <2>4. request' \in RequestType
    BY <1>1, <2>1, <2>2, SMTT(30) DEF RequestType
  <2>5. /\ request'.phase = "Answering" /\ request'.status = request.status
        /\ request'.promised = request.promised /\ request'.got = request.got
        /\ request'.rest = rest
        /\ request'.from = request.from /\ request'.through = request.through
    BY <1>1, <1>4, <2>2 DEF RequestType
  <2> QED
    BY <1>2, <1>4, <2>3, <2>4, <2>5, Zenon DEF PathTypeOK, AnswerInv
<1> QED
  BY <1>3, <1>4 DEF Cut

\* A request is made, and its result taken.
LEMMA AskOrTakenStep ==
    ASSUME PathTypeOK, AnswerInv, Ask \/ Taken
    PROVE  PathTypeOK' /\ AnswerInv'
<1>1. UNCHANGED <<epoch, published, queue, conns>>
  BY Zenon DEF Ask, Taken, uplinkVars
<1>2. <<>> \in Seq(Datagram) /\ NoRequest \in RequestType
  BY SMTT(30) DEF NoRequest, RequestType, Statuses
<1>3. CASE Ask
  <2>1. PICK range \in Nat \X Nat :
           request' = [NoRequest EXCEPT !.phase = "Asked", !.from = range[1], !.through = range[2]]
    BY <1>3, RangesAssumption, Zenon DEF Ask
  <2>2. request' \in RequestType /\ request'.phase = "Asked" /\ request'.got = <<>>
    BY <1>2, <2>1, Zenon DEF RequestType, NoRequest
  <2> QED
    BY <1>1, <2>2, Zenon DEF PathTypeOK, AnswerInv
<1>4. CASE Taken
  <2>1. request' \in RequestType /\ request'.phase = "None"
    BY <1>2, <1>4, Zenon DEF Taken, NoRequest
  <2> QED
    BY <1>1, <2>1, Zenon DEF PathTypeOK, AnswerInv
<1> QED
  BY <1>3, <1>4, Zenon

\* A service that restarts has an empty store and no connections.
LEMMA ServiceRestartStep ==
    ASSUME PathTypeOK, AnswerInv, ServiceRestart
    PROVE  PathTypeOK' /\ StoreInv' /\ AnswerInv'
<1>1. /\ request \in RequestType
      /\ conns \in [1 .. MaxConns -> [alive : BOOLEAN, data : Seq(Datagram)]]
      /\ UNCHANGED <<epoch, published, queue>>
  BY DEF PathTypeOK, ServiceRestart
<1>2. StoreInit'
  BY DEF ServiceRestart, StoreInit
<1>3. StoreInv'
  BY <1>2, EmptyStoreInv, PTL
<1>4. conns' \in [1 .. MaxConns -> [alive : BOOLEAN, data : Seq(Datagram)]]
  <2>1. NoConn \in [alive : BOOLEAN, data : Seq(Datagram)]
    BY DEF NoConn
  <2> QED
    BY <1>1, <2>1, SMTT(30) DEF ServiceRestart
<1>5. request' \in RequestType /\ AnswerInv'
  <2>1. CASE request.phase \in {"Asked", "Answering"}
    <3>1. request' = [request EXCEPT !.phase = "Failed", !.rest = <<>>]
      BY <2>1, Zenon DEF ServiceRestart
    <3>2. request' \in RequestType /\ request'.phase = "Failed"
      BY <1>1, <3>1, FailedIsRequest, ZenonT(30)
    <3> QED
      BY <3>2 DEF AnswerInv
  <2>2. CASE request.phase \notin {"Asked", "Answering"}
    <3>1. request' = request
      BY <2>2 DEF ServiceRestart
    <3> QED
      BY <1>1, <3>1 DEF AnswerInv
  <2> QED
    BY <2>1, <2>2, SMTT(30)
<1> QED
  BY <1>1, <1>3, <1>4, <1>5 DEF PathTypeOK

-----------------------------------------------------------------------------
\* Every step of the engine, the service and the consumer keeps the invariant.
LEMMA PathStep ==
    ASSUME PathInv, [Next]_vars
    PROVE  PathInv'
<1>1. PathTypeOK /\ StoreInv /\ AnswerInv
  BY DEF PathInv
<1>2. ASSUME UNCHANGED request
      PROVE  AnswerInv'
  BY <1>1, <1>2 DEF AnswerInv
<1>3. CASE Offer \/ Send \/ Connect \/ EngineRestart \/ \E c \in 1 .. MaxConns : Break(c)
  <2>1. PathTypeOK' /\ UNCHANGED <<storeVars, request>>
    BY <1>1, <1>3, UplinkSteps
  <2> QED
    BY <1>1, <1>2, <2>1, UnchangedKeepsStoreInv DEF PathInv
<1>4. CASE \E c \in 1 .. MaxConns : ServeUplink(c)
  BY <1>1, <1>2, <1>4, ServeUplinkStep DEF PathInv
<1>5. CASE ServiceRestart
  BY <1>1, <1>5, ServiceRestartStep DEF PathInv
<1>6. CASE ServeRequest \/ Ask \/ Receive \/ Cut \/ Taken
  <2>1. UNCHANGED storeVars
    BY <1>6, Zenon DEF ServeRequest, Ask, Receive, Cut, Taken
  <2>2. PathTypeOK' /\ AnswerInv'
    BY <1>1, <1>6, ServeRequestStep, AskOrTakenStep, ReceiveStep, CutStep, SMTT(30)
  <2> QED
    BY <1>1, <2>1, <2>2, UnchangedKeepsStoreInv, Zenon DEF PathInv
<1>7. CASE UNCHANGED vars
  <2>1. UNCHANGED <<storeVars, uplinkVars, request>>
    BY <1>7 DEF vars
  <2>2. StoreInv'
    BY <1>1, <2>1, UnchangedKeepsStoreInv
  <2>3. PathTypeOK'
    BY <1>1, <2>1 DEF PathTypeOK, uplinkVars
  <2> QED
    BY <1>2, <2>1, <2>2, <2>3 DEF PathInv
<1> QED
  BY <1>3, <1>4, <1>5, <1>6, <1>7 DEF Next

\* The invariant holds throughout.
LEMMA PathInvariant == Spec => []PathInv
<1>1. Init => PathInv
  <2> SUFFICES ASSUME Init
               PROVE  PathInv
    OBVIOUS
  <2>1. StoreInv /\ PathTypeOK
    BY EmptyStoreInv, PathTypeInit, Zenon DEF Init
  <2>2. AnswerInv
    BY Zenon DEF Init, AnswerInv, NoRequest
  <2> QED
    BY <2>1, <2>2 DEF PathInv
<1>2. PathInv /\ [Next]_vars => PathInv'
  BY PathStep
<1> QED
  BY <1>1, <1>2, PTL DEF Spec

(***************************************************************************)
(* Theorem: the history has no hole (push), for every size of the store    *)
(* and every stream, whatever is lost before the store, comes late over a  *)
(* connection that was replaced, or is left by a process that restarted.   *)
(***************************************************************************)
THEOREM HistoryNeverHasAHole == Spec => []HistoryHasNoHole
<1>1. PathInv => HistoryHasNoHole
  BY DEF PathInv, StoreInv
<1> QED
  BY <1>1, PathInvariant, PTL

(***************************************************************************)
(* Theorem: locate answers a range if and only if all of it is held, with  *)
(* exactly the datagrams that share a message with it, and never finds the *)
(* ring and the sequence counters at odds.                                 *)
(***************************************************************************)
THEOREM RangesAreLocatedExactly == Spec => []LocateIsExact
<1>1. PathInv => LocateIsExact
  BY LocateIsExactHere DEF PathInv
<1> QED
  BY <1>1, PathInvariant, PTL

(***************************************************************************)
(* Theorem: a range handed to the consumer as served is that range, whole  *)
(* and in order, whatever the store, the connection and the two processes  *)
(* did while it was on its way (serve_request, client.rs request).         *)
(***************************************************************************)
THEOREM AnswersAreWhole == Spec => []AnswerIsWhole
<1>1. PathInv => AnswerIsWhole
  <2> SUFFICES ASSUME PathInv, request.phase = "Returned", request.status = "Ok"
               PROVE  /\ request.got # <<>>
                      /\ request.from \in Seqs(Head(request.got))
                      /\ request.through \in Seqs(request.got[Len(request.got)])
                      /\ \A i \in 1 .. Len(request.got) - 1 :
                            End(request.got[i]) = request.got[i + 1].first
    BY DEF AnswerIsWhole
  <2> DEFINE got == request.got
             rest == request.rest
             all == got \o rest
  <2>1. got \in Seq(Datagram) /\ rest \in Seq(Datagram) /\ request.promised \in Int
    BY DEF PathInv, PathTypeOK, RequestType
  <2>2. /\ BeginsAnswer(all, request.promised, request.from, request.through)
        /\ Len(got) = request.promised
    BY DEF PathInv, AnswerInv
  <2>3. Len(all) = Len(got) + Len(rest)
    BY <2>1, ConcatProperties
  <2>4. Len(got) \in Nat /\ Len(rest) \in Nat
    BY <2>1, LenProperties
  <2>5. Len(all) <= Len(got) /\ Len(got) > 0
    BY <2>2, Zenon DEF BeginsAnswer
  <2>6. rest = <<>>
    <3> HIDE DEF all, got, rest
    <3>1. Len(rest) = 0
      BY <2>3, <2>4, <2>5
    <3> QED
      BY <2>1, <3>1, EmptySeq
  <2>7. all = got
    BY <2>1, <2>6, ConcatEmptySeq
  <2>8. BeginsAnswer(got, Len(got), request.from, request.through)
    BY <2>2, <2>7, SMTT(30)
  <2> HIDE DEF all, got, rest
  <2>9. /\ got # <<>> /\ Head(got) = got[1]
        /\ request.from \in Seqs(got[1]) /\ request.through \in Seqs(got[Len(got)])
        /\ Abut(got)
    BY <2>1, <2>4, <2>5, <2>8 DEF BeginsAnswer
  <2> QED
    BY <2>9 DEF got, Abut
<1> QED
  BY <1>1, PathInvariant, PTL

=============================================================================
