--------------------------- MODULE SeqStoreProofs ---------------------------
(***************************************************************************)
(* Why gateway.seq keeps its promises: the record the object stands on is  *)
(* whole in its slot, and the other slot holds something older, something  *)
(* damaged, or the next record.  That is true of the page cache as long as *)
(* no power cut took away what an open had adopted, and of the disk as     *)
(* long as none could.                                                     *)
(***************************************************************************)
EXTENDS SeqStore, TLAPS

\* The two slots s, of the page cache or of the disk, stand on the record of seq.
Anchored(s) ==
    /\ generation > 0 => s[generation % 2] = Record(generation, seq)
    /\ \A i \in 0..1 : s[i].kind = "Valid" =>
          \/ s[i].generation < generation
          \/ generation > 0 /\ i = generation % 2
          \/ i = slot /\ s[i].generation = generation + 1 /\ s[i].pair \in tried

Unborn == \A i \in 0..1 : cache[i] = Missing /\ disk[i] = Missing

Safe ==
    /\ Anchored(cache)
    /\ trust = "Kept" => Anchored(disk)
    /\ trust = "Kept" /\ entry # "Durable" =>
          Unborn /\ generation = 0 /\ proc \notin {"Ready", "Syncing"}
    /\ seq \in tried \cup {acked.pair}
    /\ generation = 0 => acked = Missing /\ issued = {}
    /\ \A i \in issued : \A p \in tried \cup {seq} : Precedes(i, p)
    /\ proc = "Corrupt" => generation = 0
    /\ proc = "Syncing" =>
          /\ cache[slot] = Record(generation + 1, call.pair)
          /\ call.pair \in tried
          /\ call.claims => call.pair = [seq EXCEPT !.outbound = @ + 1]

IInv == TypeOK /\ (trust # "Taken" => Safe)

\* The slots of two successive generations are the two slots.
LEMMA Parity ==
    ASSUME NEW g \in Nat
    PROVE  /\ g % 2 \in 0..1 /\ (g + 1) % 2 \in 0..1
           /\ (g + 1) % 2 # g % 2
           /\ \A i \in 0..1 : i = g % 2 \/ i = (g + 1) % 2
           /\ (g + 1 + 1) % 2 = g % 2
  OBVIOUS

\* Nothing is on disk before the file is created.
LEMMA InitIInv == Init => IInv
<1> SUFFICES ASSUME Init PROVE IInv
  OBVIOUS
<1>1. TypeOK
  BY DEF Init, TypeOK, SeqPair, FreshPair, Slot, Missing, NoCall
<1>2. Safe
  BY DEF Init, Safe, Anchored, Unborn, Missing, FreshPair
<1> QED
  BY <1>1, <1>2 DEF IInv

\* What open adopts is a pair, and it touches no slot.
LEMMA ReadType ==
    ASSUME TypeOK, read_slots
    PROVE  seq' \in SeqPair /\ generation' \in Nat /\ proc' \in {"Ready", "Corrupt"}
<1>1. CASE \E i \in 0..1 : /\ best(i) /\ proc' = "Ready"
                           /\ seq' = cache[i].pair /\ generation' = cache[i].generation
  BY <1>1 DEF TypeOK, Slot
<1> QED
  BY <1>1 DEF read_slots, TypeOK, FreshPair, SeqPair

\* Every step keeps the types.
LEMMA TypeStep ==
    ASSUME TypeOK, [Next]_vars
    PROVE  TypeOK'
<1> USE DEF TypeOK
<1>a. /\ NoCall \in [pair : SeqPair, claims : BOOLEAN] /\ FreshPair \in SeqPair
      /\ Missing \in Slot /\ Damaged \in Slot
      /\ \A g \in Nat, p \in SeqPair : Record(g, p) \in Slot
  BY DEF NoCall, FreshPair, SeqPair, Missing, Damaged, Record, Slot
<1>1. CASE Open \/ SyncDirectory
  BY <1>1, ReadType DEF Open, SyncDirectory, Adopt
<1>2. CASE Create
  BY <1>2 DEF Create
<1>3. ASSUME NEW next \in SeqPair, NEW claims \in BOOLEAN, store(next, claims)
      PROVE  TypeOK'
  <2>1. \A c \in Slot : Written(c) \in [0..1 -> Slot]
    BY <1>a DEF Written
  <2>2. cache' \in [0..1 -> Slot]
    BY <1>3, <1>a, <2>1 DEF store
  <2> QED
    BY <1>3, <2>2 DEF store
<1>4. CASE claim_outbound
  <2>1. [seq EXCEPT !.outbound = @ + 1] \in SeqPair
    BY DEF SeqPair
  <2> QED
    BY <1>4, <1>3, <2>1, Zenon DEF claim_outbound
<1>5. CASE accept_inbound
  <2>1. PICK n \in seq.inbound..(seq.inbound + MaxSkip) :
               store([seq EXCEPT !.inbound = n + 1], FALSE)
    BY <1>5, Zenon DEF accept_inbound
  <2>2. [seq EXCEPT !.inbound = n + 1] \in SeqPair
    BY StoreAssumption DEF SeqPair
  <2> QED
    BY <1>3, <2>1, <2>2, Zenon
<1>6. CASE reset
  <2>1. [outbound |-> 1, inbound |-> 1, epoch |-> seq.epoch + 1] \in SeqPair
    BY DEF SeqPair
  <2> QED
    BY <1>6, <1>3, <2>1, Zenon DEF reset
<1>7. CASE Sync
  <2>1. [epoch |-> seq.epoch, n |-> seq.outbound] \in [epoch : Nat, n : Nat \ {0}]
    BY DEF SeqPair
  <2>2. issued' \in SUBSET [epoch : Nat, n : Nat \ {0}]
    BY <1>7, <2>1 DEF Sync
  <2>3. acked' \in Slot /\ seq' \in SeqPair
    BY <1>7, <1>a DEF Sync
  <2> QED
    BY <1>7, <1>a, <2>2, <2>3 DEF Sync
<1>8. CASE SyncFails
  BY <1>8, <1>a DEF SyncFails
<1>9. CASE WriteBack \/ Kill
  BY <1>9, <1>a DEF WriteBack, Kill
<1>10. CASE PowerLoss
  <2>1. disk' \in [0..1 -> Slot]
    BY <1>10, <1>a DEF PowerLoss
  <2> QED
    BY <1>10, <1>a, <2>1 DEF PowerLoss
<1>11. CASE UNCHANGED vars
  BY <1>11 DEF vars
<1> QED
  BY <1>1, <1>2, <1>4, <1>5, <1>6, <1>7, <1>8, <1>9, <1>10, <1>11 DEF Next

\* Opening adopts the record the object stood on, or the one after it; either way it
\* is a pair that was acknowledged or tried, and it does not fall behind a number
\* already issued (SeqStore::open).
LEMMA OpenStep ==
    ASSUME TypeOK, Safe, read_slots, Adopt,
           UNCHANGED <<call, cache, disk, acked, tried, issued>>
    PROVE  Safe'
<1>p. /\ generation % 2 \in 0..1 /\ slot \in 0..1 /\ slot # generation % 2
      /\ \A i \in 0..1 : i = generation % 2 \/ i = slot
      /\ (generation + 1 + 1) % 2 = generation % 2
      /\ generation \in Nat
  BY Parity DEF TypeOK, slot
<1>1. CASE /\ Valid = {} /\ \E i \in 0..1 : cache[i].kind # "Missing"
           /\ proc' = "Corrupt"
           /\ UNCHANGED <<seq, generation>>
  <2>1. generation = 0
    BY <1>1, <1>p DEF Safe, Anchored, Valid, Record
  <2>2. trust' = "Kept" => trust = "Kept" /\ entry' = "Durable"
    BY DEF Adopt, Unsynced, Safe
  <2> QED
    BY <1>1, <2>1, <2>2 DEF Safe, Anchored, slot, Precedes
<1>2. CASE /\ \A i \in 0..1 : cache[i].kind = "Missing"
           /\ proc' = "Ready"
           /\ seq' = FreshPair /\ generation' = 0
  <2>1. generation = 0 /\ acked = Missing /\ issued = {}
    BY <1>2, <1>p DEF Safe, Anchored, Record
  <2>2. trust' = "Kept" => trust = "Kept" /\ entry' = "Durable"
    BY DEF Adopt, Unsynced
  <2>3. Anchored(cache)'
    BY <1>2 DEF Anchored
  <2>4. trust' = "Kept" => Anchored(disk)'
    BY <1>2, <2>1, <2>2 DEF Safe, Anchored, slot
  <2> QED
    BY <1>2, <2>1, <2>2, <2>3, <2>4 DEF Safe, Missing
<1>3. ASSUME NEW i \in 0..1, best(i), proc' = "Ready",
             seq' = cache[i].pair, generation' = cache[i].generation
      PROVE  Safe'
  <2>1. cache[i].kind = "Valid" /\ cache[i].generation \in Nat
    BY <1>3 DEF best, Valid, TypeOK, Slot
  <2>2. generation > 0 => cache[i].generation >= generation
    BY <1>3, <1>p DEF Safe, Anchored, best, Valid, Record
  <2>3. trust' = "Kept" => trust = "Kept" /\ entry' = "Durable" /\ disk[i] = cache[i]
    BY <1>3 DEF Adopt, Unsynced
  <2>4. cache[i] = Record(generation', seq')
    BY <1>3, <2>1, Zenon DEF TypeOK, Slot, Record
  <2>5. CASE generation > 0 /\ i = generation % 2
    <3>1. seq' = seq /\ generation' = generation
      BY <2>5, <1>3 DEF Safe, Anchored, Record
    <3> QED
      BY <3>1, <2>3, <2>5, <1>3, ZenonT(30) DEF Safe, Anchored, slot, Precedes
  <2>6. CASE i = slot /\ cache[i].generation = generation + 1 /\ cache[i].pair \in tried
    <3>1. generation' = generation + 1 /\ seq' \in tried /\ generation' % 2 = i
      BY <2>6, <1>3 DEF slot
    <3>2. ASSUME NEW s \in [0..1 -> Slot], Anchored(s), s[i] = cache[i]
          PROVE  /\ s[generation' % 2] = Record(generation', seq')
                 /\ \A j \in 0..1 : s[j].kind = "Valid" =>
                       s[j].generation < generation' \/ j = generation' % 2
      <4>1. s[generation' % 2] = Record(generation', seq')
        BY <3>1, <3>2, <2>4
      <4>2. ASSUME NEW j \in 0..1, s[j].kind = "Valid", j # i
            PROVE  s[j].generation < generation + 1
        <5>1. j = generation % 2 /\ j # slot
          BY <4>2, <2>6, <1>p
        <5>2. s[j].generation < generation \/ (generation > 0 /\ s[j].generation = generation)
          BY <5>1, <4>2, <3>2 DEF Anchored, Record
        <5> QED
          BY <5>2, <1>p, <3>2 DEF Slot
      <4> QED
        BY <4>1, <4>2, <3>1
    <3>3. cache \in [0..1 -> Slot] /\ disk \in [0..1 -> Slot] /\ Anchored(cache)
          /\ (trust = "Kept" => Anchored(disk))
      BY DEF TypeOK, Safe
    <3>4. Anchored(cache)'
      BY <3>1, <3>2, <3>3, <1>p DEF Anchored
    <3>5. trust' = "Kept" => Anchored(disk)'
      BY <3>1, <3>2, <3>3, <2>3, <1>p DEF Anchored
    <3> QED
      BY <3>1, <3>4, <3>5, <2>3, <1>3, <1>p DEF Safe
  <2>7. ~(cache[i].generation < generation)
    BY <2>1, <2>2, <1>p
  <2> QED
    BY <2>1, <2>5, <2>6, <2>7 DEF Safe, Anchored
<1> QED
  BY <1>1, <1>2, <1>3 DEF read_slots

\* A store call writes beside the record the object stands on.
LEMMA StoreStep ==
    ASSUME TypeOK, Safe, NEW next \in SeqPair, NEW claims \in BOOLEAN, store(next, claims),
           \A i \in issued : Precedes(i, seq) => Precedes(i, next),
           claims => next = [seq EXCEPT !.outbound = @ + 1]
    PROVE  Safe'
<1>p. /\ generation % 2 \in 0..1 /\ slot \in 0..1 /\ slot # generation % 2
      /\ \A i \in 0..1 : i = generation % 2 \/ i = slot
      /\ generation \in Nat
  BY Parity DEF TypeOK, slot
<1>1. /\ proc = "Ready" /\ tried' = tried \cup {next}
      /\ UNCHANGED <<seq, generation, entry, disk, acked, issued, trust>>
      /\ proc' \in {"Ready", "Syncing"}
  BY DEF store
<1>2. /\ generation > 0 => cache'[generation % 2] = cache[generation % 2]
      /\ cache'[generation % 2] \in {cache[generation % 2], Damaged}
      /\ cache'[slot] \in {cache[slot], Damaged, Record(generation + 1, next)}
      /\ proc' = "Syncing" => cache'[slot] = Record(generation + 1, next) /\ call'.pair = next
                              /\ call'.claims = claims
  BY <1>1, <1>p DEF store, Written, Safe, Anchored, Record, Missing
<1>3. Anchored(cache)'
  BY <1>1, <1>2, <1>p DEF Safe, Anchored, slot, Record, Damaged
<1>4. trust' = "Kept" => Anchored(disk)'
  BY <1>1 DEF Safe, Anchored, slot
<1>5. \A i \in issued' : \A p \in tried' \cup {seq'} : Precedes(i, p)
  BY <1>1 DEF Safe
<1> QED
  BY <1>1, <1>2, <1>3, <1>4, <1>5 DEF Safe, slot

\* A successful fsync moves the object to the record it has written, on disk as well.
LEMMA SyncStep ==
    ASSUME TypeOK, Safe, Sync
    PROVE  Safe'
<1>p. /\ generation % 2 \in 0..1 /\ slot \in 0..1 /\ slot # generation % 2
      /\ \A i \in 0..1 : i = generation % 2 \/ i = slot
      /\ generation \in Nat
  BY Parity DEF TypeOK, slot
<1>1. /\ proc = "Syncing" /\ proc' = "Ready" /\ disk' = cache /\ cache' = cache
      /\ seq' = call.pair /\ generation' = generation + 1 /\ generation' % 2 = slot
      /\ acked' = Record(generation + 1, call.pair) /\ tried' = {} /\ entry' = entry
      /\ trust' = IF trust = "Exposed" /\ entry = "Durable" THEN "Kept" ELSE trust
      /\ cache[slot] = Record(generation + 1, call.pair) /\ call.pair \in tried
  BY DEF Sync, Safe, slot
<1>2. \A i \in 0..1 : cache[i].kind = "Valid" =>
         cache[i].generation < generation + 1 \/ i = slot
  <2> SUFFICES ASSUME NEW i \in 0..1, cache[i].kind = "Valid", i # slot
               PROVE  cache[i].generation < generation + 1
    OBVIOUS
  <2>1. i = generation % 2
    BY <1>p
  <2>2. cache[i].generation < generation \/ (generation > 0 /\ cache[i].generation = generation)
    BY <2>1 DEF Safe, Anchored, Record
  <2> QED
    BY <2>2, <1>p DEF TypeOK, Slot
<1>3. Anchored(cache)' /\ Anchored(disk)'
  BY <1>1, <1>2, <1>p DEF Anchored
<1>4. \A i \in issued' : Precedes(i, seq')
  <2>1. \A i \in issued : Precedes(i, call.pair)
    BY <1>1 DEF Safe
  <2>2. call.claims => Precedes([epoch |-> seq.epoch, n |-> seq.outbound], call.pair)
    <3> SUFFICES ASSUME call.claims
                 PROVE  Precedes([epoch |-> seq.epoch, n |-> seq.outbound], call.pair)
      OBVIOUS
    <3>1. call.pair = [seq EXCEPT !.outbound = @ + 1] /\ seq \in SeqPair
      BY <1>1 DEF Safe, TypeOK
    <3>2. call.pair.epoch = seq.epoch /\ call.pair.outbound = seq.outbound + 1
          /\ seq.outbound \in Nat
      BY <3>1 DEF SeqPair
    <3> QED
      BY <3>2 DEF Precedes
  <2> QED
    BY <1>1, <2>1, <2>2 DEF Sync
<1>5. trust' = "Kept" => entry' = "Durable"
  BY <1>1 DEF Safe
<1> QED
  BY <1>1, <1>3, <1>4, <1>5, <1>p DEF Safe, Record

\* Whatever a write-back leaves on disk, a record that was whole on disk and in the page
\* cache is whole, and no other record appears.
LEMMA SurvivingAnchored ==
    ASSUME TypeOK, Anchored(cache), Anchored(disk),
           NEW d \in [0..1 -> Slot], Surviving(d)
    PROVE  Anchored(d)
<1>p. /\ generation % 2 \in 0..1 /\ generation \in Nat
  BY Parity DEF TypeOK
<1>1. generation > 0 => d[generation % 2] = Record(generation, seq)
  BY <1>p DEF Anchored, Surviving
<1>2. \A i \in 0..1 : d[i] = disk[i] \/ d[i] = cache[i] \/ d[i] = Damaged
  BY DEF Surviving
<1> QED
  BY <1>1, <1>2 DEF Anchored, Damaged

\* A kill, a write-back, a failed fsync and a power cut leave the record the object
\* stands on where an open will find it, unless the power cut takes it away.
LEMMA MachineStep ==
    ASSUME TypeOK, TypeOK', Safe, SyncFails \/ WriteBack \/ Kill \/ PowerLoss,
           trust' # "Taken"
    PROVE  Safe'
<1>1. CASE SyncFails
  <2>1. trust = "Kept" => Anchored(disk)'
    <3> SUFFICES ASSUME trust = "Kept" PROVE Anchored(disk)'
      OBVIOUS
    <3>1. disk' \in [0..1 -> Slot] /\ Surviving(disk')
      BY <1>1 DEF SyncFails, TypeOK
    <3>2. Anchored(disk')
      BY <3>1, SurvivingAnchored DEF Safe
    <3> QED
      BY <1>1, <3>2 DEF SyncFails, Anchored, slot
  <2>2. trust = "Kept" => entry = "Durable"
    BY <1>1 DEF SyncFails, Safe
  <2> QED
    BY <1>1, <2>1, <2>2 DEF SyncFails, Safe, Anchored, slot
<1>2. CASE WriteBack
  BY <1>2 DEF WriteBack, Safe, Anchored, slot, Unborn
<1>3. CASE Kill
  BY <1>3 DEF Kill, Safe, Anchored, slot, Unborn
<1>4. CASE PowerLoss
  <2>1. /\ trust = "Kept" /\ trust' = "Kept" /\ proc' = "Down" /\ cache' = disk'
        /\ UNCHANGED <<seq, generation, acked, tried, issued>>
    BY <1>4 DEF PowerLoss, TypeOK
  <2>2. CASE disk' = [i \in 0..1 |-> Missing] /\ entry = "Cached" /\ entry' = "None"
    <3>1. generation = 0
      BY <2>1, <2>2 DEF Safe
    <3> QED
      BY <2>1, <2>2, <3>1 DEF Safe, Anchored, Unborn, Missing
  <2>3. CASE Surviving(disk') /\ entry' = IF entry = "Cached" THEN "Durable" ELSE entry
    <3>1. Anchored(disk')
      BY <2>1, <2>3, SurvivingAnchored DEF Safe, TypeOK
    <3>2. Anchored(disk)' /\ Anchored(cache)'
      BY <2>1, <3>1 DEF Anchored, slot
    <3>3. entry' # "Durable" => Unborn' /\ generation' = 0
      <4> SUFFICES ASSUME entry' # "Durable" PROVE Unborn' /\ generation' = 0
        OBVIOUS
      <4>1. Unborn /\ generation = 0
        BY <2>1, <2>3 DEF Safe
      <4>2. \A i \in 0..1 : disk'[i] = Missing
        BY <4>1, <2>3 DEF Surviving, Unborn
      <4> QED
        BY <4>1, <4>2, <2>1 DEF Unborn
    <3> QED
      BY <2>1, <3>2, <3>3 DEF Safe
  <2> QED
    BY <1>4, <2>2, <2>3 DEF PowerLoss
<1> QED
  BY <1>1, <1>2, <1>3, <1>4

\* Each pair a call stores leaves the numbers already issued behind.
LEMMA CallsStep ==
    ASSUME TypeOK, Safe, claim_outbound \/ accept_inbound \/ reset
    PROVE  Safe'
<1>t. /\ seq \in SeqPair /\ seq.outbound \in Nat /\ seq.epoch \in Nat
      /\ \A i \in issued : i.epoch \in Nat /\ i.n \in Nat
  BY DEF TypeOK, SeqPair
<1>1. CASE claim_outbound
  <2> DEFINE next == [seq EXCEPT !.outbound = @ + 1]
  <2>1. next \in SeqPair /\ next.outbound = seq.outbound + 1 /\ next.epoch = seq.epoch
    BY <1>t DEF SeqPair
  <2>2. \A i \in issued : Precedes(i, seq) => Precedes(i, next)
    BY <2>1, <1>t DEF Precedes
  <2> QED
    BY <1>1, <2>1, <2>2, StoreStep, Zenon DEF claim_outbound
<1>2. CASE accept_inbound
  <2>1. PICK n \in seq.inbound..(seq.inbound + MaxSkip) :
               store([seq EXCEPT !.inbound = n + 1], FALSE)
    BY <1>2, Zenon DEF accept_inbound
  <2> DEFINE next == [seq EXCEPT !.inbound = n + 1]
  <2>2. next \in SeqPair /\ next.outbound = seq.outbound /\ next.epoch = seq.epoch
    BY <1>t, StoreAssumption DEF SeqPair
  <2>3. \A i \in issued : Precedes(i, seq) => Precedes(i, next)
    BY <2>2 DEF Precedes
  <2> QED
    BY <2>1, <2>2, <2>3, StoreStep, Zenon
<1>3. CASE reset
  <2> DEFINE next == [outbound |-> 1, inbound |-> 1, epoch |-> seq.epoch + 1]
  <2>1. next \in SeqPair /\ next.epoch = seq.epoch + 1
    BY <1>t DEF SeqPair
  <2>2. \A i \in issued : Precedes(i, seq) => Precedes(i, next)
    BY <2>1, <1>t DEF Precedes
  <2> QED
    BY <1>3, <2>1, <2>2, StoreStep, Zenon DEF reset
<1> QED
  BY <1>1, <1>2, <1>3

\* Every step keeps the invariant, and none undoes a power cut that took something.
LEMMA NextIInv ==
    ASSUME IInv, [Next]_vars
    PROVE  IInv'
<1>1. TypeOK'
  BY TypeStep DEF IInv
<1>2. ASSUME trust' # "Taken" PROVE Safe'
  <2>1. trust # "Taken"
    BY <1>2, Zenon DEF Next, vars, Open, Create, SyncDirectory, claim_outbound, accept_inbound, reset,
                store, Sync, SyncFails, WriteBack, Kill, PowerLoss, Adopt
  <2>2. TypeOK /\ Safe
    BY <2>1 DEF IInv
  <2>3. CASE Open \/ SyncDirectory
    BY <2>2, <2>3, OpenStep DEF Open, SyncDirectory
  <2>4. CASE Create
    BY <2>2, <2>4 DEF Create, Safe, Anchored, Unborn, slot, Precedes
  <2>5. CASE claim_outbound \/ accept_inbound \/ reset
    BY <2>2, <2>5, CallsStep
  <2>6. CASE Sync
    BY <2>2, <2>6, SyncStep
  <2>7. CASE SyncFails \/ WriteBack \/ Kill \/ PowerLoss
    BY <2>2, <2>7, <1>1, <1>2, MachineStep
  <2>8. CASE UNCHANGED vars
    BY <2>2, <2>8 DEF vars, Safe, Anchored, Unborn, slot, Precedes
  <2> QED
    BY <2>3, <2>4, <2>5, <2>6, <2>7, <2>8 DEF Next
<1> QED
  BY <1>1, <1>2 DEF IInv

\* The invariant holds of every run, however many store calls, failures, kills and
\* power cuts it has.
THEOREM StoreInvariant == Spec => []IInv
  BY InitIInv, NextIInv, PTL DEF Spec

\* claim_outbound never returns a number twice between two resets.
THEOREM NeverReissues == Spec => []NumbersNeverReissued
<1>1. IInv => NumbersNeverReissued
  BY DEF IInv, Safe, NumbersNeverReissued
<1> QED
  BY <1>1, StoreInvariant, PTL

\* open yields the last acknowledged pair or one tried since.
THEOREM OpensHonestly == Spec => []OpensToAckedOrTried
<1>1. IInv => OpensToAckedOrTried
  BY DEF IInv, Safe, OpensToAckedOrTried
<1> QED
  BY <1>1, StoreInvariant, PTL

\* Once a store call has succeeded, one slot is always whole.
THEOREM KeepsAFallback == Spec => []FallbackAlwaysThere
<1>1. IInv => FallbackAlwaysThere
  BY DEF IInv, Safe, FallbackAlwaysThere
<1> QED
  BY <1>1, StoreInvariant, PTL

=============================================================================
