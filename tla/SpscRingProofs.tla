--------------------------- MODULE SpscRingProofs ---------------------------
(***************************************************************************)
(* Proofs about SpscRing, for every capacity, every set of messages and    *)
(* every number of pushes and kills: the ring is safe, and it implements   *)
(* the bounded queue.                                                      *)
(***************************************************************************)
EXTENDS SpscRing, TLAPS

(***************************************************************************)
(* The inductive invariant.  It adds what the producer knows between the   *)
(* check for room and the publication: there still is room, and before it  *)
(* publishes the slot holds the message.                                   *)
(***************************************************************************)
RingInv ==
    /\ TypeOK
    /\ CachesStaleLow
    /\ PublishedIntact
    /\ prod.pc # "idle" => prod.msg \in Messages /\ write_index < MaxIndex
    /\ prod.pc \in {"fill", "publish"} => write_index < read_index + Capacity
    /\ prod.pc = "publish" => slots[slot_of(write_index)] = prod.msg

(***************************************************************************)
(* Masking keeps apart the indices of one turn of the ring (slot_ptr).     *)
(***************************************************************************)
LEMMA SlotsApart ==
    ASSUME NEW i \in Nat, NEW j \in Nat, i < j, j < i + Capacity
    PROVE  slot_of(i) # slot_of(j)
<1> SUFFICES ASSUME i % Capacity = j % Capacity
             PROVE  FALSE
  BY DEF slot_of
<1> DEFINE p == i \div Capacity
           q == j \div Capacity
<1>1. /\ Capacity \in Nat /\ Capacity >= 1
      /\ p \in Int /\ q \in Int
      /\ i % Capacity \in Int
      /\ i = Capacity * p + (i % Capacity)
      /\ j = Capacity * q + (j % Capacity)
  BY RingAssumption
<1> HIDE DEF p, q
<1>2. j - i = Capacity * q - Capacity * p
  BY <1>1
<1>3. Capacity * q - Capacity * p = Capacity * (q - p)
  BY <1>1
<1>4. CASE q - p <= 0
  <2>1. Capacity * (q - p) <= 0
    BY <1>1, <1>4
  <2> QED
    BY <1>2, <1>3, <2>1
<1>5. CASE q - p >= 1
  <2>1. Capacity * (q - p) >= Capacity
    BY <1>1, <1>5
  <2> QED
    BY <1>2, <1>3, <2>1, <1>1
<1> QED
  BY <1>1, <1>4, <1>5

\* Every index has a slot.
LEMMA SlotExists ==
    ASSUME NEW i \in Nat
    PROVE  slot_of(i) \in 0 .. (Capacity - 1)
BY RingAssumption DEF slot_of

-----------------------------------------------------------------------------
\* A ring just created (Ring::create) satisfies the invariant.
LEMMA RingInit == Init => RingInv
BY RingAssumption
   DEF Init, RingInv, TypeOK, CachesStaleLow, PublishedIntact, Contents

(***************************************************************************)
(* Filling the slot at writeIndex leaves what is published alone, as long  *)
(* as there is room: the first half of push_with.                          *)
(***************************************************************************)
LEMMA FillKeepsPublished ==
    ASSUME RingInv, write_index < read_index + Capacity, NEW c \in Contents,
           slots' = [slots EXCEPT ![slot_of(write_index)] = c]
    PROVE  /\ slots' \in [0 .. (Capacity - 1) -> Contents]
           /\ slots'[slot_of(write_index)] = c
           /\ \A i \in read_index .. (write_index - 1) :
                 slots'[slot_of(i)] = slots[slot_of(i)]
<1>1. /\ write_index \in Nat /\ read_index \in Nat /\ Capacity \in Nat
      /\ slots \in [0 .. (Capacity - 1) -> Contents]
  BY RingAssumption DEF RingInv, TypeOK
<1>2. slot_of(write_index) \in 0 .. (Capacity - 1)
  BY <1>1, SlotExists
<1>3. ASSUME NEW i \in read_index .. (write_index - 1)
      PROVE  slots'[slot_of(i)] = slots[slot_of(i)]
  <2>1. i \in Nat /\ i < write_index /\ write_index < i + Capacity
    BY <1>1
  <2>2. slot_of(i) # slot_of(write_index) /\ slot_of(i) \in 0 .. (Capacity - 1)
    BY <1>1, <2>1, SlotsApart, SlotExists
  <2> QED
    BY <1>1, <2>2
<1> QED
  BY <1>1, <1>2, <1>3

\* The start of a fill, wherever the room was seen, preserves the invariant.
LEMMA StartFillStep ==
    ASSUME RingInv, NEW m \in Messages, NEW cached_read \in 0 .. read_index,
           has_room(cached_read), write_index < MaxIndex, StartFill(m, cached_read),
           UNCHANGED <<write_index, read_index, cons, crashes>>
    PROVE  RingInv'
<1>1. /\ write_index \in Nat /\ read_index \in Nat /\ Capacity \in Nat /\ MaxIndex \in Nat
      /\ read_index <= MaxIndex
  BY RingAssumption DEF RingInv, TypeOK
<1>2. write_index < read_index + Capacity
  BY <1>1 DEF has_room
<1>3. /\ slots' \in [0 .. (Capacity - 1) -> Contents]
      /\ \A i \in read_index .. (write_index - 1) : slots'[slot_of(i)] = slots[slot_of(i)]
  BY <1>2, FillKeepsPublished, Zenon DEF StartFill, Contents
<1>4. prod' = [pc |-> "fill", cached_read |-> cached_read, msg |-> m]
  BY DEF StartFill
<1>5. TypeOK'
  BY <1>1, <1>3, <1>4 DEF RingInv, TypeOK, Contents
<1>6. CachesStaleLow'
  BY <1>1, <1>4 DEF RingInv, CachesStaleLow
<1>7. PublishedIntact'
  BY <1>3 DEF RingInv, PublishedIntact, slot_of
<1> QED
  BY <1>2, <1>4, <1>5, <1>6, <1>7 DEF RingInv

\* Every step of either end, and every kill, preserves the invariant.
LEMMA RingStep == RingInv /\ [Next]_vars => RingInv'
<1> SUFFICES ASSUME RingInv, [Next]_vars
             PROVE  RingInv'
  OBVIOUS
<1>1. /\ write_index \in Nat /\ write_index <= MaxIndex
      /\ read_index \in Nat /\ read_index <= MaxIndex
      /\ Capacity \in Nat /\ Capacity >= 1 /\ MaxIndex \in Nat /\ MaxCrashes \in Nat
      /\ prod.cached_read \in Nat /\ prod.cached_read <= read_index
      /\ cons.cached_write \in Nat /\ cons.cached_write <= write_index
      /\ read_index <= write_index
  BY RingAssumption DEF RingInv, TypeOK, CachesStaleLow, PublishedIntact
<1>2. ASSUME NEW m \in Messages, PushBegin(m)
      PROVE  RingInv'
  <2>1. CASE has_room(prod.cached_read)
    <3>1. /\ StartFill(m, prod.cached_read) /\ write_index < MaxIndex
          /\ UNCHANGED <<write_index, read_index, cons, crashes>>
      BY <1>2, <2>1 DEF PushBegin
    <3>2. prod.cached_read \in 0 .. read_index
      BY <1>1
    <3> QED
      BY <2>1, <3>1, <3>2, StartFillStep
  <2>2. CASE ~has_room(prod.cached_read)
    <3>1. /\ prod' = [prod EXCEPT !.pc = "reload", !.msg = m] /\ write_index < MaxIndex
          /\ UNCHANGED <<write_index, read_index, slots, cons, crashes>>
      BY <1>2, <2>2 DEF PushBegin
    <3>2. prod'.pc = "reload" /\ prod'.msg = m /\ prod'.cached_read = prod.cached_read
      BY <3>1 DEF RingInv, TypeOK
    <3>3. TypeOK'
      BY <3>1, Zenon DEF RingInv, TypeOK, Contents
    <3>4. CachesStaleLow' /\ PublishedIntact'
      BY <3>1, <3>2 DEF RingInv, CachesStaleLow, PublishedIntact, slot_of
    <3> QED
      BY <3>1, <3>2, <3>3, <3>4 DEF RingInv
  <2> QED
    BY <2>1, <2>2
<1>3. CASE PushReload
  <2>0. prod.msg \in Messages /\ write_index < MaxIndex
    BY <1>3 DEF PushReload, RingInv
  <2>1. CASE has_room(read_index)
    <3>1. /\ StartFill(prod.msg, read_index)
          /\ UNCHANGED <<write_index, read_index, cons, crashes>>
      BY <1>3, <2>1 DEF PushReload
    <3>2. read_index \in 0 .. read_index
      BY <1>1
    <3> QED
      BY <2>0, <2>1, <3>1, <3>2, StartFillStep
  <2>2. CASE ~has_room(read_index)
    <3>1. /\ prod' = [prod EXCEPT !.pc = "idle", !.cached_read = read_index]
          /\ UNCHANGED <<write_index, read_index, slots, cons, crashes>>
      BY <1>3, <2>2 DEF PushReload
    <3>2. prod'.pc = "idle" /\ prod'.cached_read = read_index
      BY <3>1 DEF RingInv, TypeOK
    <3>3. TypeOK'
      BY <1>1, <3>1, Zenon DEF RingInv, TypeOK
    <3>4. CachesStaleLow' /\ PublishedIntact'
      BY <1>1, <3>1, <3>2 DEF RingInv, CachesStaleLow, PublishedIntact, slot_of
    <3> QED
      BY <3>1, <3>2, <3>3, <3>4 DEF RingInv
  <2> QED
    BY <2>1, <2>2
<1>4. CASE PushAbandon
  BY <1>4 DEF PushAbandon, RingInv, TypeOK, CachesStaleLow, PublishedIntact, slot_of
<1>5. CASE PushFilled
  <2>1. /\ prod.msg \in Messages /\ write_index < MaxIndex
        /\ write_index < read_index + Capacity
        /\ prod' = [prod EXCEPT !.pc = "publish"]
        /\ UNCHANGED <<write_index, read_index, cons, crashes>>
    BY <1>5 DEF PushFilled, RingInv
  <2>2. /\ slots' \in [0 .. (Capacity - 1) -> Contents]
        /\ slots'[slot_of(write_index)] = prod.msg
        /\ \A i \in read_index .. (write_index - 1) : slots'[slot_of(i)] = slots[slot_of(i)]
    BY <1>5, <2>1, FillKeepsPublished, Zenon DEF PushFilled, Contents
  <2>3. TypeOK' /\ CachesStaleLow'
    BY <2>1, <2>2 DEF RingInv, TypeOK, CachesStaleLow
  <2>4. PublishedIntact'
    BY <2>1, <2>2 DEF RingInv, PublishedIntact, slot_of
  <2>5. prod'.msg = prod.msg /\ prod'.pc = "publish"
    BY <2>1 DEF RingInv, TypeOK
  <2>6. slots'[slot_of(write_index)'] = prod'.msg
    BY <2>1, <2>2, <2>5 DEF slot_of
  <2> QED
    BY <2>1, <2>3, <2>4, <2>5, <2>6 DEF RingInv
<1>6. CASE PushPublish
  <2>1. /\ write_index' = write_index + 1 /\ write_index < MaxIndex
        /\ write_index < read_index + Capacity
        /\ slots[slot_of(write_index)] \in Messages
        /\ prod' = [prod EXCEPT !.pc = "idle"]
        /\ UNCHANGED <<read_index, slots, cons, crashes>>
    BY <1>6 DEF PushPublish, RingInv
  <2>2. TypeOK' /\ CachesStaleLow'
    BY <1>1, <2>1, SMTT(30) DEF RingInv, TypeOK, CachesStaleLow
  <2>3. \A i \in read_index .. write_index : slots[slot_of(i)] \in Messages
    <3> SUFFICES ASSUME NEW i \in read_index .. write_index
                 PROVE  slots[slot_of(i)] \in Messages
      OBVIOUS
    <3>1. i = write_index \/ i \in read_index .. (write_index - 1)
      BY <1>1
    <3> QED
      BY <2>1, <3>1 DEF RingInv, PublishedIntact
  <2>4. PublishedIntact'
    BY <1>1, <2>1, <2>3 DEF RingInv, PublishedIntact, slot_of
  <2> QED
    BY <2>1, <2>2, <2>4 DEF RingInv, TypeOK
<1>7. CASE PopBegin
  BY <1>1, <1>7, SMTT(30) DEF PopBegin, RingInv, TypeOK, CachesStaleLow, PublishedIntact, slot_of
<1>8. CASE PopReload
  BY <1>1, <1>8 DEF PopReload, RingInv, TypeOK, CachesStaleLow, PublishedIntact, slot_of
<1>9. CASE PopRelease
  <2>1. /\ read_index' = read_index + 1 /\ read_index < write_index
        /\ cons' = [cons EXCEPT !.pc = "idle"]
        /\ UNCHANGED <<write_index, slots, prod, crashes>>
    BY <1>9 DEF PopRelease, RingInv, PublishedIntact
  <2>2. TypeOK' /\ CachesStaleLow'
    BY <1>1, <2>1, SMTT(30) DEF RingInv, TypeOK, CachesStaleLow
  <2>3. PublishedIntact'
    BY <1>1, <2>1, SMTT(30) DEF RingInv, TypeOK, PublishedIntact, slot_of
  <2> QED
    BY <1>1, <2>1, <2>2, <2>3 DEF RingInv, slot_of
<1>10. CASE ReattachProducer
  BY <1>1, <1>10
     DEF ReattachProducer, RingInv, TypeOK, CachesStaleLow, PublishedIntact, Contents, slot_of
<1>11. CASE ReattachConsumer
  BY <1>1, <1>11
     DEF ReattachConsumer, RingInv, TypeOK, CachesStaleLow, PublishedIntact, slot_of
<1>12. CASE UNCHANGED vars
  BY <1>12 DEF vars, RingInv, TypeOK, CachesStaleLow, PublishedIntact, slot_of
<1> QED
  BY <1>2, <1>3, <1>4, <1>5, <1>6, <1>7, <1>8, <1>9, <1>10, <1>11, <1>12 DEF Next

(***************************************************************************)
(* The ring is safe, whatever its capacity and however its two ends        *)
(* interleave and restart (push_with, pop_with, into_producer and          *)
(* into_consumer): caches are stale low and what is published is intact.   *)
(***************************************************************************)
THEOREM RingSafe == Spec => [](TypeOK /\ CachesStaleLow /\ PublishedIntact)
<1>1. RingInv => TypeOK /\ CachesStaleLow /\ PublishedIntact
  BY DEF RingInv
<1> QED
  BY RingInit, RingStep, <1>1, PTL DEF Spec

-----------------------------------------------------------------------------
\* The slots between the indices are a sequence of messages.
LEMMA QueueType ==
    ASSUME RingInv
    PROVE  /\ Queue \in Seq(Messages)
           /\ Len(Queue) = write_index - read_index
           /\ write_index - read_index \in Nat
<1>1. /\ write_index \in Nat /\ read_index \in Nat /\ write_index - read_index \in Nat
      /\ \A i \in read_index .. (write_index - 1) : slots[slot_of(i)] \in Messages
  BY DEF RingInv, TypeOK, PublishedIntact
<1>2. ASSUME NEW i \in 1 .. (write_index - read_index)
      PROVE  slots[slot_of(read_index + i - 1)] \in Messages
  <2>1. read_index + i - 1 \in read_index .. (write_index - 1)
    BY <1>1
  <2> QED
    BY <1>1, <2>1
<1> QED
  BY <1>1, <1>2 DEF Queue

(***************************************************************************)
(* A step that leaves the indices and the published slots alone is no step *)
(* of the queue.                                                           *)
(***************************************************************************)
LEMMA QueueUnchanged ==
    ASSUME RingInv, UNCHANGED <<write_index, read_index>>,
           \A i \in read_index .. (write_index - 1) : slots'[slot_of(i)] = slots[slot_of(i)]
    PROVE  Queue' = Queue
<1>1. write_index \in Nat /\ read_index \in Nat
  BY DEF RingInv, TypeOK
<1>2. ASSUME NEW i \in 1 .. (write_index - read_index)
      PROVE  slots'[slot_of(read_index + i - 1)] = slots[slot_of(read_index + i - 1)]
  <2>1. read_index + i - 1 \in read_index .. (write_index - 1)
    BY <1>1
  <2> QED
    BY <2>1
<1> QED
  BY <1>2 DEF Queue, slot_of

\* A sequence is the function of its elements.
LEMMA SequenceIsFunction ==
    ASSUME NEW s \in Seq(Messages)
    PROVE  s = [i \in DOMAIN s |-> s[i]]
OBVIOUS

\* PushPublish puts the message it filled the slot with at the end of the queue.
LEMMA PublishPuts ==
    ASSUME RingInv, PushPublish
    PROVE  \E m \in Messages : Fifo!Put(m)
<1> DEFINE m == slots[slot_of(write_index)]
           n == write_index - read_index
<1>1. /\ write_index \in Nat /\ read_index \in Nat /\ Capacity \in Nat
      /\ n \in Nat /\ n < Capacity /\ m \in Messages
      /\ write_index' = write_index + 1 /\ read_index' = read_index /\ slots' = slots
  BY RingAssumption, SMTT(30) DEF RingInv, TypeOK, PublishedIntact, PushPublish
<1>2. Queue \in Seq(Messages) /\ Len(Queue) = n
  BY QueueType
<1>3. Queue' = [i \in 1 .. (n + 1) |-> slots[slot_of(read_index + i - 1)]]
  BY <1>1 DEF Queue, slot_of
<1>4. Append(Queue, m) = [i \in 1 .. (n + 1) |-> slots[slot_of(read_index + i - 1)]]
  <2>1. /\ Append(Queue, m) \in Seq(Messages)
        /\ Len(Append(Queue, m)) = n + 1
        /\ Append(Queue, m)[n + 1] = m
        /\ \A i \in 1 .. n : Append(Queue, m)[i] = Queue[i]
    BY <1>1, <1>2
  <2>2. DOMAIN Append(Queue, m) = 1 .. (n + 1)
    BY <1>1, <2>1
  <2>3. ASSUME NEW i \in 1 .. (n + 1)
        PROVE  Append(Queue, m)[i] = slots[slot_of(read_index + i - 1)]
    <3>1. CASE i = n + 1
      <4>1. read_index + i - 1 = write_index
        BY <1>1, <3>1
      <4> QED
        BY <2>1, <3>1, <4>1
    <3>2. CASE i \in 1 .. n
      BY <2>1, <3>2, Zenon DEF Queue
    <3>3. i = n + 1 \/ i \in 1 .. n
      BY <1>1
    <3> QED
      BY <3>1, <3>2, <3>3, Zenon
  <2>4. Append(Queue, m) = [i \in DOMAIN Append(Queue, m) |-> Append(Queue, m)[i]]
    BY <2>1, SequenceIsFunction
  <2> HIDE DEF m, n
  <2> QED
    BY <2>2, <2>3, <2>4, Zenon
<1>5. Len(Queue) < Capacity
  BY <1>1, <1>2
<1> HIDE DEF m, n
<1> QED
  BY <1>1, <1>3, <1>4, <1>5 DEF Fifo!Put

\* PopRelease takes the message that was visited from the front of the queue.
LEMMA ReleaseTakes ==
    ASSUME RingInv, PopRelease
    PROVE  Fifo!Take
<1> DEFINE n == write_index - read_index
<1>1. /\ write_index \in Nat /\ read_index \in Nat /\ n \in Nat /\ n >= 1
      /\ write_index' = write_index /\ read_index' = read_index + 1 /\ slots' = slots
  BY DEF RingInv, TypeOK, PublishedIntact, PopRelease
<1>2. Queue \in Seq(Messages) /\ Len(Queue) = n
  BY QueueType
<1>3. Queue # <<>>
  BY <1>1, <1>2
<1>4. Queue' = [i \in 1 .. (n - 1) |-> slots[slot_of(read_index + i)]]
  <2>1. write_index - (read_index + 1) = n - 1
    BY <1>1
  <2>2. \A i \in 1 .. (n - 1) : (read_index + 1) + i - 1 = read_index + i
    BY <1>1
  <2> HIDE DEF n
  <2> QED
    BY <1>1, <2>1, <2>2 DEF Queue, slot_of
<1>5. Tail(Queue) = [i \in 1 .. (n - 1) |-> slots[slot_of(read_index + i)]]
  <2>1. /\ Tail(Queue) \in Seq(Messages)
        /\ Len(Tail(Queue)) = n - 1
        /\ \A i \in 1 .. (n - 1) : Tail(Queue)[i] = Queue[i + 1]
    BY <1>1, <1>2, <1>3
  <2>2. DOMAIN Tail(Queue) = 1 .. (n - 1)
    BY <1>1, <2>1
  <2>3. ASSUME NEW i \in 1 .. (n - 1)
        PROVE  Tail(Queue)[i] = slots[slot_of(read_index + i)]
    <3>1. i + 1 \in 1 .. n /\ read_index + (i + 1) - 1 = read_index + i
      BY <1>1
    <3> QED
      BY <2>1, <3>1, Zenon DEF Queue
  <2>4. Tail(Queue) = [i \in DOMAIN Tail(Queue) |-> Tail(Queue)[i]]
    BY <2>1, SequenceIsFunction, Zenon
  <2> HIDE DEF n
  <2> QED
    BY <2>2, <2>3, <2>4, Zenon
<1> HIDE DEF n
<1> QED
  BY <1>3, <1>4, <1>5 DEF Fifo!Take

\* Every step of the ring is a step of the queue, or leaves it as it is.
LEMMA FifoStep == RingInv /\ [Next]_vars => [Fifo!Next]_Queue
<1> SUFFICES ASSUME RingInv, [Next]_vars
             PROVE  Fifo!Next \/ Queue' = Queue
  OBVIOUS
<1>1. ASSUME NEW c \in Contents, write_index < read_index + Capacity,
             slots' = [slots EXCEPT ![slot_of(write_index)] = c],
             UNCHANGED <<write_index, read_index>>
      PROVE  Queue' = Queue
  BY <1>1, FillKeepsPublished, QueueUnchanged, Zenon
<1>2. ASSUME UNCHANGED <<write_index, read_index, slots>>
      PROVE  Queue' = Queue
  BY <1>2, QueueUnchanged
<1>3. ASSUME NEW cached_read \in 0 .. read_index, NEW m, has_room(cached_read),
             StartFill(m, cached_read), UNCHANGED <<write_index, read_index>>
      PROVE  Queue' = Queue
  <2>1. write_index < read_index + Capacity
    BY <1>3, RingAssumption DEF has_room, RingInv, TypeOK
  <2> QED
    BY <1>1, <1>3, <2>1, Zenon DEF StartFill, Contents
<1>4. ASSUME NEW m \in Messages, PushBegin(m)
      PROVE  Queue' = Queue
  <2>1. prod.cached_read \in 0 .. read_index
    BY DEF RingInv, TypeOK, CachesStaleLow
  <2> QED
    BY <1>2, <1>3, <1>4, <2>1 DEF PushBegin
<1>5. CASE PushReload
  <2>1. read_index \in 0 .. read_index
    BY DEF RingInv, TypeOK
  <2> QED
    BY <1>2, <1>3, <1>5, <2>1 DEF PushReload
<1>6. CASE PushFilled
  <2>1. write_index < read_index + Capacity /\ prod.msg \in Contents
    BY <1>6 DEF PushFilled, RingInv, Contents
  <2> QED
    BY <1>1, <1>6, <2>1, Zenon DEF PushFilled
<1>7. CASE PushPublish
  BY <1>7, PublishPuts DEF Fifo!Next
<1>8. CASE PopRelease
  BY <1>8, ReleaseTakes DEF Fifo!Next
<1>9. CASE PushAbandon \/ PopBegin \/ PopReload \/ ReattachProducer \/ ReattachConsumer
           \/ UNCHANGED vars
  BY <1>2, <1>9 DEF PushAbandon, PopBegin, PopReload, ReattachProducer, ReattachConsumer, vars
<1> QED
  BY <1>4, <1>5, <1>6, <1>7, <1>8, <1>9 DEF Next

(***************************************************************************)
(* The ring implements the bounded queue, for every capacity: what the     *)
(* consumer visits is what the producer pushed, whole, in order, once per  *)
(* release, and never more than Capacity wait.                             *)
(***************************************************************************)
THEOREM RingImplementsFifo == Spec => ImplementsFifo
<1>1. Init => Fifo!Init
  BY DEF Init, Fifo!Init, Queue
<1> QED
  BY <1>1, RingInit, RingStep, FifoStep, PTL DEF Spec, ImplementsFifo, Fifo!Spec

=============================================================================
