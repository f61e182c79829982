-------------------------- MODULE OrderStoreProofs --------------------------
(***************************************************************************)
(* Proofs about OrderStore, for every set of orders, length of the log and *)
(* number of faults: the log is never refused, and a store that is open    *)
(* has what was reported written.                                          *)
(***************************************************************************)
EXTENDS OrderStore, FiniteSetTheorems, SequenceTheorems, WellFoundedInduction, TLAPS

\* A non-empty set of natural numbers has a least element.
LEMMA LeastNatural ==
    ASSUME NEW T \in SUBSET Nat, T # {}
    PROVE  \E x \in T : \A y \in T : x <= y
<1>1. PICK x \in T : \A y \in T : ~(<<y, x>> \in OpToRel(<, Nat))
  BY NatLessThanWellFounded, WFMin, Zenon
<1>2. \A y \in T : ~(y < x)
  BY <1>1, Zenon DEF OpToRel
<1> QED
  BY <1>2

-----------------------------------------------------------------------------
(***************************************************************************)
(* What replay computes.  That the recursion defines a function is shown   *)
(* for ever longer beginnings of the log.                                  *)
(***************************************************************************)
Replays(f, log, n) ==
    f = [k \in 0 .. n |-> IF k = 0 THEN Nothing ELSE apply(f[k - 1], log[k].rec)]

\* The recursion can be carried one record further.
LEMMA ReplaysOn ==
    ASSUME NEW log, NEW n \in Nat, NEW f, Replays(f, log, n)
    PROVE  \E g : Replays(g, log, n + 1)
<1> DEFINE g == [k \in 0 .. (n + 1) |-> IF k = n + 1 THEN apply(f[n], log[n + 1].rec) ELSE f[k]]
<1>1. \A k \in 0 .. n : f[k] = IF k = 0 THEN Nothing ELSE apply(f[k - 1], log[k].rec)
  BY DEF Replays
<1>2. ASSUME NEW k \in 0 .. (n + 1)
      PROVE  g[k] = IF k = 0 THEN Nothing ELSE apply(g[k - 1], log[k].rec)
  <2>1. CASE k = 0
    BY <1>1, <2>1
  <2>2. CASE k = n + 1
    <3>1. g[k] = apply(f[n], log[k].rec) /\ k - 1 = n /\ g[k - 1] = f[n] /\ k # 0
      BY <2>2
    <3> QED
      BY <3>1
  <2>3. CASE k \in 1 .. n
    <3>1. g[k] = f[k] /\ g[k - 1] = f[k - 1] /\ k # 0
      BY <2>3
    <3> QED
      BY <1>1, <2>3, <3>1
  <2> QED
    BY <2>1, <2>2, <2>3
<1>3. g = [k \in 0 .. (n + 1) |-> g[k]]
  OBVIOUS
<1> HIDE DEF g
<1>4. Replays(g, log, n + 1)
  BY <1>2, <1>3, Zenon DEF Replays
<1> QED
  BY <1>4

\* live_ after each record.
LEMMA LiveAfterIs ==
    ASSUME NEW log, Len(log) \in Nat
    PROVE  Replays(LiveAfter(log), log, Len(log))
<1> DEFINE T == {n \in Nat : ~\E f : Replays(f, log, n)}
<1>1. ASSUME T # {}
      PROVE  FALSE
  <2>1. PICK m \in T : \A y \in T : m <= y
    BY <1>1, LeastNatural, Zenon
  <2>2. CASE m = 0
    <3> DEFINE f == [k \in 0 .. 0 |-> Nothing]
    <3>1. Replays(f, log, 0)
      BY DEF Replays
    <3> QED
      BY <2>2, <3>1
  <2>3. CASE m # 0
    <3>1. m - 1 \in Nat /\ (m - 1) + 1 = m /\ ~(m <= m - 1)
      BY <2>3
    <3>2. PICK f : Replays(f, log, m - 1)
      BY <2>1, <3>1
    <3> QED
      BY <3>1, <3>2, ReplaysOn
  <2> QED
    BY <2>2, <2>3
<1>2. PICK f : Replays(f, log, Len(log))
  BY <1>1
<1>3. LiveAfter(log) = CHOOSE g : g = [n \in 0 .. Len(log) |->
                          IF n = 0 THEN Nothing ELSE apply(g[n - 1], log[n].rec)]
  BY DEF LiveAfter
<1> QED
  BY <1>2, <1>3, Zenon DEF Replays

-----------------------------------------------------------------------------
(***************************************************************************)
(* The inductive invariant.  Bad records are only ever last, and the sound *)
(* ones are numbered, in the file as read, on the platter, and in the file *)
(* a rename replaced.                                                      *)
(***************************************************************************)
Rec == [order : Orders, state : States]
Entry == [ok : {TRUE}, sequence : Nat, rec : Rec]
Lives == UNION {[D -> {"Pending", "Live"}] : D \in SUBSET Orders}

SoundLen(log) == Len(Sound(log))

WellFormed(log) ==
    /\ log \in Seq(Entry \cup {Bad})
    /\ \A i \in 1 .. SoundLen(log) : log[i] \in Entry /\ log[i].sequence = i

\* Where the process is, in terms of the file.
Position ==
    /\ proc \in {"Ready", "Writing"} =>
          count \in 0 .. SoundLen(cache) /\ live = LiveAfter(cache)[count]
    /\ proc = "Writing" =>
          /\ call \in Rec /\ Len(cache) = count + 1
          /\ cache[count + 1] = Record(count + 1, call)
    /\ proc = "Renamed" => SoundLen(cache) = Len(cache) /\ live = Replayed(cache)
    /\ proc = "Created" => cache = <<>> /\ entry = "Fresh"

TypeInv ==
    /\ proc \in {"Down", "Created", "Ready", "Compacting", "Renamed", "Writing"}
    /\ live \in Lives /\ count \in Nat
    /\ WellFormed(cache) /\ WellFormed(disk) /\ WellFormed(old)
    /\ Position

\* What a cut can leave is the beginning the file and the platter share, and
\* more: an open of any of it comes back with what acked allows.
Anchored(file, platter, allowed, b) ==
    /\ b <= SoundLen(file) /\ b <= Len(platter)
    /\ \A i \in 1 .. b : platter[i] = file[i]
    /\ \A n \in b .. SoundLen(file) : LiveAfter(file)[n] \in allowed
    /\ Replayed(platter) \in allowed

KeptInv ==
    /\ \E b \in Nat : Anchored(cache, disk, acked, b)
    /\ proc \in {"Ready", "Writing", "Compacting", "Renamed"} => live \in acked
    /\ proc \in {"Ready", "Writing", "Compacting"} => entry = "Durable"
    /\ entry \in {"None", "Fresh"} => cache = <<>> /\ disk = <<>> /\ Nothing \in acked
    /\ entry = "Renamed" => Replayed(old) \in acked

IInv == TypeInv /\ (trust = "Kept" => KeptInv)

-----------------------------------------------------------------------------
(* replay, a record at a time. *)

\* One record of replay.
LEMMA LiveAfterStep ==
    ASSUME NEW log, Len(log) \in Nat
    PROVE  /\ LiveAfter(log)[0] = Nothing
           /\ \A n \in 1 .. Len(log) :
                 LiveAfter(log)[n] = apply(LiveAfter(log)[n - 1], log[n].rec)
<1>1. PICK f : f = LiveAfter(log)
  OBVIOUS
<1>2. f = [k \in 0 .. Len(log) |-> IF k = 0 THEN Nothing ELSE apply(f[k - 1], log[k].rec)]
  BY <1>1, LiveAfterIs DEF Replays
<1>3. f[0] = Nothing
  BY <1>2
<1>4. \A n \in 1 .. Len(log) : f[n] = apply(f[n - 1], log[n].rec)
  BY <1>2
<1> QED
  BY <1>1, <1>3, <1>4

\* Logs that begin alike are replayed alike.
LEMMA LiveAfterAgree ==
    ASSUME NEW g, NEW h, Len(g) \in Nat, Len(h) \in Nat,
           NEW n \in Nat, n <= Len(g), n <= Len(h), \A i \in 1 .. n : g[i] = h[i]
    PROVE  \A k \in 0 .. n : LiveAfter(g)[k] = LiveAfter(h)[k]
<1> DEFINE T == {k \in 0 .. n : LiveAfter(g)[k] # LiveAfter(h)[k]}
<1> SUFFICES ASSUME T # {}
             PROVE  FALSE
  OBVIOUS
<1>0. T \in SUBSET Nat
  OBVIOUS
<1>1. PICK m \in T : \A y \in T : m <= y
  BY <1>0, LeastNatural, Zenon
<1>2. CASE m = 0
  BY <1>2, LiveAfterStep
<1>3. CASE m # 0
  <2>1. m - 1 \in 0 .. n /\ ~(m <= m - 1) /\ m \in 1 .. n /\ m \in 1 .. Len(g) /\ m \in 1 .. Len(h)
    BY <1>3
  <2>2. LiveAfter(g)[m - 1] = LiveAfter(h)[m - 1]
    BY <1>1, <2>1
  <2>3. LiveAfter(g)[m] = LiveAfter(h)[m]
    BY <2>1, <2>2, LiveAfterStep
  <2> QED
    BY <2>3
<1> QED
  BY <1>2, <1>3

\* apply keeps a live set of working orders.
LEMMA ApplyType ==
    ASSUME NEW l \in Lives, NEW r \in Rec
    PROVE  apply(l, r) \in Lives
<1>1. PICK D \in SUBSET Orders : l \in [D -> {"Pending", "Live"}]
  BY DEF Lives
<1>2. r.order \in Orders /\ DOMAIN l = D
  BY <1>1 DEF Rec
<1>3. CASE r.state \in {"Pending", "Live"}
  <2>1. apply(l, r) \in [(D \ {r.order}) \cup {r.order} -> {"Pending", "Live"}]
    BY <1>1, <1>2, <1>3 DEF apply
  <2>2. (D \ {r.order}) \cup {r.order} \in SUBSET Orders
    BY <1>2
  <2> QED
    BY <2>1, <2>2 DEF Lives
<1>4. CASE r.state \notin {"Pending", "Live"}
  <2>1. apply(l, r) \in [D \ {r.order} -> {"Pending", "Live"}]
    BY <1>1, <1>2, <1>4 DEF apply
  <2>2. D \ {r.order} \in SUBSET Orders
    OBVIOUS
  <2> QED
    BY <2>1, <2>2 DEF Lives
<1> QED
  BY <1>3, <1>4

\* No orders are a live set.
LEMMA NothingType == Nothing \in Lives
<1>1. Nothing \in [{} -> {"Pending", "Live"}]
  BY DEF Nothing
<1> QED
  BY <1>1, Zenon DEF Lives

\* A beginning of a sequence.
LEMMA PrefixFacts ==
    ASSUME NEW S, NEW s \in Seq(S), NEW n \in 0 .. Len(s)
    PROVE  /\ SubSeq(s, 1, n) \in Seq(S) /\ Len(SubSeq(s, 1, n)) = n
           /\ \A i \in 1 .. n : SubSeq(s, 1, n)[i] = s[i]
<1>1. \A i \in 1 .. n : s[i] \in S
  BY ElementOfSeq
<1>2. n \in Int /\ n >= 0
  OBVIOUS
<1>3. /\ SubSeq(s, 1, n) \in Seq(S)
      /\ Len(SubSeq(s, 1, n)) = IF 1 <= n THEN n - 1 + 1 ELSE 0
      /\ \A i \in 1 .. n - 1 + 1 : SubSeq(s, 1, n)[i] = s[1 + i - 1]
  BY <1>1, <1>2, SubSeqProperties
<1> QED
  BY <1>2, <1>3

\* The part of a log that replay takes.
LEMMA SoundFacts ==
    ASSUME NEW log \in Seq(Entry \cup {Bad})
    PROVE  \E n \in Nat :
              /\ SoundLen(log) = n /\ DOMAIN Sound(log) = 1 .. n
              /\ \/ n = Len(log) /\ Sound(log) = log /\ (log = <<>> \/ log[Len(log)] # Bad)
                 \/ n = Len(log) - 1 /\ Sound(log) # log /\ log # <<>> /\ log[Len(log)] = Bad
<1>1. Len(log) \in Nat /\ DOMAIN log = 1 .. Len(log)
  OBVIOUS
<1>2. CASE log = <<>> \/ log[Len(log)] # Bad
  <2>1. CASE log = <<>>
    <3>1. Sound(log) = log
      BY <2>1, Zenon DEF Sound
    <3> QED
      BY <1>1, <1>2, <3>1, ZenonT(30) DEF SoundLen
  <2>2. CASE log # <<>>
    <3>1. log[Len(log)] \in Entry
      BY <1>1, <1>2, <2>2
    <3>2. Last(log).ok = TRUE
      BY <3>1, Zenon DEF Entry, Last
    <3>3. Sound(log) = log
      BY <3>2 DEF Sound
    <3> QED
      BY <1>1, <1>2, <3>3, ZenonT(30) DEF SoundLen
  <2> QED
    BY <2>1, <2>2, SMTT(30)
<1>3. CASE log # <<>> /\ log[Len(log)] = Bad
  <2>1. Last(log).ok = FALSE
    BY <1>3 DEF Bad, Last
  <2>2. PICK n \in Nat : n = Len(log) - 1 /\ n \in 0 .. Len(log)
    <3>1. Len(log) # 0
      BY <1>3, EmptySeq
    <3>2. Len(log) - 1 \in Nat /\ Len(log) - 1 \in 0 .. Len(log)
      BY <1>1, <3>1
    <3> QED
      BY <3>2, Zenon
  <2>3. Sound(log) = SubSeq(log, 1, n)
    BY <1>3, <2>1, <2>2 DEF Sound, Front
  <2>4. SubSeq(log, 1, n) \in Seq(Entry \cup {Bad}) /\ Len(SubSeq(log, 1, n)) = n
    BY <2>2, PrefixFacts
  <2>5. DOMAIN Sound(log) = 1 .. n /\ SoundLen(log) = n
    BY <2>3, <2>4 DEF SoundLen
  <2>6. Sound(log) # log
    BY <1>1, <2>2, <2>5 DEF SoundLen
  <2> QED
    BY <1>3, <2>2, <2>5, <2>6
<1> QED
  BY <1>2, <1>3

-----------------------------------------------------------------------------
(* The shape of a log: n sound records, and perhaps a bad one after them. *)

Shape(log, n) ==
    /\ log \in Seq(Entry \cup {Bad})
    /\ n <= Len(log) /\ Len(log) <= n + 1
    /\ \A i \in 1 .. n : log[i] \in Entry /\ log[i].sequence = i
    /\ \A i \in 1 .. Len(log) : i > n => log[i] = Bad

\* A record that verifies is not a bad one.
LEMMA EntryIsNotBad ==
    ASSUME NEW e \in Entry
    PROVE  e # Bad
<1>1. e.ok = TRUE
  BY Zenon DEF Entry
<1>2. Bad.ok = FALSE
  BY DEF Bad
<1> QED
  BY <1>1, <1>2

\* What replay makes of a log of that shape: it takes the n records, and does
\* not refuse them.
LEMMA ShapeFacts ==
    ASSUME NEW log, NEW n \in Nat, Shape(log, n)
    PROVE  /\ WellFormed(log) /\ SoundLen(log) = n /\ ~Corrupt(log)
           /\ Replayed(log) = LiveAfter(log)[n]
           /\ Sound(log) = log <=> n = Len(log)
<1>1. /\ log \in Seq(Entry \cup {Bad}) /\ Len(log) \in Nat
      /\ n <= Len(log) /\ Len(log) <= n + 1
      /\ \A i \in 1 .. n : log[i] \in Entry /\ log[i].sequence = i
      /\ \A i \in 1 .. Len(log) : i > n => log[i] = Bad
  BY DEF Shape
<1>2. PICK m \in Nat :
              /\ SoundLen(log) = m /\ DOMAIN Sound(log) = 1 .. m
              /\ \/ m = Len(log) /\ Sound(log) = log /\ (log = <<>> \/ log[Len(log)] # Bad)
                 \/ m = Len(log) - 1 /\ Sound(log) # log /\ log # <<>> /\ log[Len(log)] = Bad
  BY <1>1, SoundFacts
<1>3. m = n
  <2>1. CASE m = Len(log) /\ (log = <<>> \/ log[Len(log)] # Bad)
    <3>1. CASE Len(log) = n + 1
      <4>1. Len(log) \in 1 .. Len(log) /\ Len(log) > n
        BY <1>1, <3>1
      <4>2. log[Len(log)] = Bad /\ log # <<>>
        BY <1>1, <4>1
      <4> QED
        BY <2>1, <4>2
    <3> QED
      BY <1>1, <2>1, <3>1
  <2>2. CASE m = Len(log) - 1 /\ log[Len(log)] = Bad
    <3>1. CASE Len(log) = n
      <4>1. Len(log) \in 1 .. n
        BY <1>1, <2>2, <3>1
      <4> QED
        BY <1>1, <2>2, <4>1, EntryIsNotBad, SMTT(30)
    <3> QED
      BY <1>1, <2>2, <3>1
  <2> QED
    BY <1>2, <2>1, <2>2, SMTT(30)
<1>4. SoundLen(log) = n /\ DOMAIN Sound(log) = 1 .. n
  BY <1>2, <1>3
<1>5. Replayed(log) = LiveAfter(log)[n]
  BY <1>4 DEF Replayed, SoundLen
<1>6. ~Corrupt(log)
  <2>1. \A i \in 1 .. n : log[i].ok /\ log[i].sequence = i
    BY <1>1, Zenon DEF Entry
  <2> QED
    BY <1>4, <2>1 DEF Corrupt
<1>7. WellFormed(log)
  BY <1>1, <1>4 DEF WellFormed
<1>8. Sound(log) = log <=> n = Len(log)
  BY <1>1, <1>2, <1>3
<1> QED
  BY <1>4, <1>5, <1>6, <1>7, <1>8

\* A well-formed log has that shape.
LEMMA WellFormedShape ==
    ASSUME NEW log, WellFormed(log)
    PROVE  \E n \in Nat : Shape(log, n)
<1>1. log \in Seq(Entry \cup {Bad}) /\ Len(log) \in Nat
  BY DEF WellFormed
<1>2. PICK n \in Nat :
              /\ SoundLen(log) = n /\ DOMAIN Sound(log) = 1 .. n
              /\ \/ n = Len(log) /\ Sound(log) = log /\ (log = <<>> \/ log[Len(log)] # Bad)
                 \/ n = Len(log) - 1 /\ Sound(log) # log /\ log # <<>> /\ log[Len(log)] = Bad
  BY <1>1, SoundFacts
<1>3. \A i \in 1 .. n : log[i] \in Entry /\ log[i].sequence = i
  BY <1>2 DEF WellFormed
<1>4. n <= Len(log) /\ Len(log) <= n + 1
  BY <1>1, <1>2
<1>5. \A i \in 1 .. Len(log) : i > n => log[i] = Bad
  <2>1. SUFFICES ASSUME NEW i \in 1 .. Len(log), i > n
                 PROVE  log[i] = Bad
    OBVIOUS
  <2>2. i = Len(log) /\ n # Len(log)
    BY <1>1, <1>4, <2>1
  <2> QED
    BY <1>2, <2>2
<1> QED
  BY <1>1, <1>3, <1>4, <1>5, SMTT(30) DEF Shape

\* An empty log.
LEMMA EmptyShape == Shape(<<>>, 0)
<1>1. <<>> \in Seq(Entry \cup {Bad}) /\ Len(<<>>) = 0
  BY EmptySeq
<1> QED
  BY <1>1 DEF Shape

\* The beginning of a log.
LEMMA PrefixShape ==
    ASSUME NEW g, NEW n \in Nat, Shape(g, n), NEW m \in 0 .. Len(g)
    PROVE  \E k \in Nat :
              /\ Shape(SubSeq(g, 1, m), k)
              /\ m <= n => k = m
              /\ m > n => k = n
<1>1. /\ g \in Seq(Entry \cup {Bad}) /\ Len(g) \in Nat
      /\ n <= Len(g) /\ Len(g) <= n + 1
      /\ \A i \in 1 .. n : g[i] \in Entry /\ g[i].sequence = i
      /\ \A i \in 1 .. Len(g) : i > n => g[i] = Bad
  BY DEF Shape
<1>2. PICK h : h = SubSeq(g, 1, m)
  BY Zenon
<1>3. h \in Seq(Entry \cup {Bad}) /\ Len(h) = m /\ \A i \in 1 .. m : h[i] = g[i]
  BY <1>1, <1>2, PrefixFacts
<1>4. CASE m <= n
  <2>1. \A i \in 1 .. m : h[i] \in Entry /\ h[i].sequence = i
    BY <1>1, <1>3, <1>4, SMTT(30)
  <2>2. Shape(h, m)
    BY <1>3, <2>1 DEF Shape
  <2> QED
    BY <1>2, <1>4, <2>2
<1>5. CASE m > n
  <2>1. m = n + 1 /\ m = Len(g)
    BY <1>1, <1>5
  <2>2. \A i \in 1 .. n : h[i] \in Entry /\ h[i].sequence = i
    BY <1>1, <1>3, <2>1
  <2>3. \A i \in 1 .. Len(h) : i > n => h[i] = Bad
    BY <1>1, <1>3, <2>1
  <2>4. Shape(h, n)
    BY <1>3, <2>1, <2>2, <2>3, SMTT(30) DEF Shape
  <2> QED
    BY <1>2, <1>5, <2>4, SMTT(30)
<1> QED
  BY <1>4, <1>5

\* A record, good or bad, written after the first m sound ones.
LEMMA WrittenShape ==
    ASSUME NEW g, NEW n \in Nat, Shape(g, n), NEW m \in 0 .. n,
           NEW e \in Entry \cup {Bad}
    PROVE  LET h == Append(SubSeq(g, 1, m), e)
           IN  /\ Len(h) = m + 1 /\ h[m + 1] = e
               /\ \A i \in 1 .. m : h[i] = g[i]
               /\ e = Bad => Shape(h, m)
               /\ e \in Entry /\ e.sequence = m + 1 => Shape(h, m + 1)
<1>1. /\ g \in Seq(Entry \cup {Bad}) /\ Len(g) \in Nat
      /\ n <= Len(g) /\ Len(g) <= n + 1
      /\ \A i \in 1 .. n : g[i] \in Entry /\ g[i].sequence = i
  BY DEF Shape
<1>2. PICK p : p = SubSeq(g, 1, m)
  BY Zenon
<1>3. m \in 0 .. Len(g)
  BY <1>1
<1>4. p \in Seq(Entry \cup {Bad}) /\ Len(p) = m /\ \A i \in 1 .. m : p[i] = g[i]
  BY <1>1, <1>2, <1>3, PrefixFacts
<1>5. PICK h : h = Append(p, e)
  BY Zenon
<1>6. /\ h \in Seq(Entry \cup {Bad}) /\ Len(h) = m + 1 /\ h[m + 1] = e
      /\ \A i \in 1 .. m : h[i] = g[i]
  BY <1>4, <1>5
<1>7. \A i \in 1 .. m : h[i] \in Entry /\ h[i].sequence = i
  BY <1>1, <1>6
<1>8. ASSUME e = Bad
      PROVE  Shape(h, m)
  <2>1. \A i \in 1 .. Len(h) : i > m => h[i] = Bad
    BY <1>6, <1>8
  <2> QED
    BY <1>6, <1>7, <2>1, SMTT(30) DEF Shape
<1>9. ASSUME e \in Entry, e.sequence = m + 1
      PROVE  Shape(h, m + 1)
  <2>1. \A i \in 1 .. m + 1 : h[i] \in Entry /\ h[i].sequence = i
    BY <1>6, <1>7, <1>9
  <2>2. \A i \in 1 .. Len(h) : ~(i > m + 1)
    BY <1>6
  <2> QED
    BY <1>6, <2>1, <2>2 DEF Shape
<1> QED
  BY <1>2, <1>5, <1>6, <1>8, <1>9, SMTT(30)

\* Replay of sound records yields a live set.
LEMMA LiveAfterType ==
    ASSUME NEW g, NEW n \in Nat, Shape(g, n)
    PROVE  \A k \in 0 .. n : LiveAfter(g)[k] \in Lives
<1> DEFINE T == {k \in 0 .. n : LiveAfter(g)[k] \notin Lives}
<1> SUFFICES ASSUME T # {}
             PROVE  FALSE
  OBVIOUS
<1>0. T \in SUBSET Nat
  OBVIOUS
<1>1. PICK m \in T : \A y \in T : m <= y
  BY <1>0, LeastNatural, ZenonT(30)
<1>2. Len(g) \in Nat /\ n <= Len(g) /\ \A i \in 1 .. n : g[i] \in Entry
  BY DEF Shape
<1>3. CASE m = 0
  BY <1>2, <1>3, LiveAfterStep, NothingType
<1>4. CASE m # 0
  <2>1. m - 1 \in 0 .. n /\ ~(m <= m - 1) /\ m \in 1 .. n /\ m \in 1 .. Len(g)
    BY <1>2, <1>4
  <2>2. LiveAfter(g)[m - 1] \in Lives
    BY <1>1, <2>1
  <2>3. g[m].rec \in Rec
    BY <1>2, <2>1, ZenonT(30) DEF Entry
  <2>4. LiveAfter(g)[m] = apply(LiveAfter(g)[m - 1], g[m].rec)
    BY <1>2, <2>1, LiveAfterStep
  <2>5. LiveAfter(g)[m] \in Lives
    BY <2>2, <2>3, <2>4, ApplyType
  <2> QED
    BY <2>5
<1> QED
  BY <1>3, <1>4

\* The orders of a live set, in the order a compaction writes them.
LEMMA OrdersInTurn ==
    ASSUME NEW D \in SUBSET Orders
    PROVE  \E n \in Nat :
              /\ n = Cardinality(D) /\ SetToSeq(D) \in [1 .. n -> D]
              /\ \A o \in D : \E i \in 1 .. n : SetToSeq(D)[i] = o
<1>1. IsFiniteSet(D)
  BY OrdersAssumption, FS_Subset
<1>2. Cardinality(D) \in Nat /\ ExistsBijection(1 .. Cardinality(D), D)
  BY <1>1, FS_CardinalityType
<1>3. PICK n \in Nat : n = Cardinality(D)
  BY <1>2
<1>4. PICK f \in [1 .. n -> D] : IsInjective(f)
  BY <1>2, <1>3 DEF ExistsBijection, Bijection, Injection
<1>5. SetToSeq(D) = CHOOSE g \in [1 .. n -> D] : IsInjective(g)
  BY <1>3 DEF SetToSeq
<1>6. PICK os : os = SetToSeq(D)
  OBVIOUS
<1>7. os \in [1 .. n -> D] /\ IsInjective(os)
  BY <1>4, <1>5, <1>6
<1>8. os \in Injection(1 .. n, D)
  BY <1>7 DEF Injection
<1>9. Cardinality(1 .. n) = Cardinality(D)
  <2>1. Cardinality(1 .. n) = IF 1 > n THEN 0 ELSE n - 1 + 1
    BY FS_Interval
  <2>2. (IF 1 > n THEN 0 ELSE n - 1 + 1) = n
    OBVIOUS
  <2> QED
    BY <1>3, <2>1, <2>2
<1>10. os \in Surjection(1 .. n, D)
  BY <1>1, <1>8, <1>9, FS_Injection, SMTT(30)
<1>11. \A o \in D : \E i \in 1 .. n : os[i] = o
  BY <1>10 DEF Surjection
<1> QED
  BY <1>3, <1>6, <1>7, <1>11, ZenonT(30)

\* A compaction writes a log that is all sound and replays to the live set it
\* was made from.
LEMMA CompactedFacts ==
    ASSUME NEW l \in Lives
    PROVE  \E n \in Nat :
              /\ Shape(Compacted(l), n) /\ Len(Compacted(l)) = n
              /\ LiveAfter(Compacted(l))[n] = l
<1>1. PICK D \in SUBSET Orders : l \in [D -> {"Pending", "Live"}]
  BY DEF Lives
<1>2. PICK os : os = SetToSeq(D)
  OBVIOUS
<1>3. PICK n \in Nat : os \in [1 .. n -> D] /\ \A o \in D : \E i \in 1 .. n : os[i] = o
  BY <1>2, OrdersInTurn
<1>4. Len(os) = n
  <2>1. os \in Seq(D)
    BY <1>3, SeqDef
  <2> QED
    BY <1>3, <2>1
<1>5. DOMAIN l = D
  BY <1>1
<1>6. PICK c : c = Compacted(l)
  OBVIOUS
<1>7. c = [i \in 1 .. n |-> Record(i, [order |-> os[i], state |-> l[os[i]]])]
  BY <1>2, <1>4, <1>5, <1>6, SMTT(30) DEF Compacted
<1>8. \A i \in 1 .. n : c[i] \in Entry /\ c[i].sequence = i
                       /\ c[i].rec = [order |-> os[i], state |-> l[os[i]]]
  <2>1. SUFFICES ASSUME NEW i \in 1 .. n
                 PROVE  c[i] \in Entry /\ c[i].sequence = i
                       /\ c[i].rec = [order |-> os[i], state |-> l[os[i]]]
    OBVIOUS
  <2>2. os[i] \in Orders /\ l[os[i]] \in {"Pending", "Live"}
    BY <1>1, <1>3
  <2>3. l[os[i]] \in States
    BY <2>2 DEF States
  <2>4. c[i] = [ok |-> TRUE, sequence |-> i, rec |-> [order |-> os[i], state |-> l[os[i]]]]
    BY <1>7 DEF Record
  <2> QED
    BY <2>2, <2>3, <2>4, SMTT(30) DEF Entry, Rec
<1>9. c \in Seq(Entry \cup {Bad}) /\ Len(c) = n
  <2>1. c \in [1 .. n -> Entry \cup {Bad}]
    BY <1>7, <1>8
  <2>2. c \in Seq(Entry \cup {Bad})
    BY <2>1, SeqDef
  <2> QED
    BY <2>1, <2>2
<1>10. Shape(c, n)
  <2>1. \A i \in 1 .. n : c[i] \in Entry /\ c[i].sequence = i
    BY <1>8, Zenon
  <2>2. \A i \in 1 .. Len(c) : ~(i > n)
    BY <1>9
  <2> QED
    BY <1>9, <2>1, <2>2, SMTT(30) DEF Shape
<1> DEFINE Up(k) == {os[i] : i \in 1 .. k}
           T == {k \in 0 .. n : LiveAfter(c)[k] # [o \in Up(k) |-> l[o]]}
<1>11. ASSUME T # {}
       PROVE  FALSE
  <2>0. T \in SUBSET Nat
    OBVIOUS
  <2>1. PICK m \in T : \A y \in T : m <= y
    BY <1>11, <2>0, LeastNatural, ZenonT(30)
  <2>2. CASE m = 0
    <3>1. Up(0) = {}
      OBVIOUS
    <3>2. LiveAfter(c)[0] = [o \in {} |-> l[o]]
      BY <1>9, LiveAfterStep DEF Nothing
    <3> QED
      BY <2>2, <3>1, <3>2, ZenonT(30)
  <2>3. CASE m # 0
    <3>1. m - 1 \in 0 .. n /\ ~(m <= m - 1) /\ m \in 1 .. n
      BY <2>3
    <3>2. LiveAfter(c)[m - 1] = [o \in Up(m - 1) |-> l[o]]
      BY <2>1, <3>1
    <3>3. LiveAfter(c)[m] = apply(LiveAfter(c)[m - 1], c[m].rec)
      BY <1>9, <3>1, LiveAfterStep, SMTT(30)
    <3>4. Up(m - 1) \in SUBSET D /\ os[m] \in D
      BY <1>3, <3>1
    <3>5. Up(m) = Up(m - 1) \cup {os[m]}
      BY <3>1
    <3> HIDE DEF Up
    <3>6. PICK E \in SUBSET D : E = Up(m - 1)
      BY <3>4
    <3>7. c[m].rec = [order |-> os[m], state |-> l[os[m]]]
      BY <1>8, <3>1
    <3>8. PICK f, r : f = LiveAfter(c)[m - 1] /\ r = c[m].rec
      OBVIOUS
    <3>9. f = [o \in E |-> l[o]] /\ r = [order |-> os[m], state |-> l[os[m]]]
      BY <3>2, <3>6, <3>7, <3>8, Zenon
    <3>10. apply(f, r) = [o \in E \cup {os[m]} |-> l[o]]
      <4>1. PICK d \in D : d = os[m]
        BY <3>4
      <4>2. l \in [D -> {"Pending", "Live"}]
        BY <1>1
      <4>3. f = [o \in E |-> l[o]] /\ r = [order |-> d, state |-> l[d]]
        BY <3>9, <4>1, Zenon
      <4>4. r.order = d /\ r.state = l[d] /\ l[d] \in {"Pending", "Live"} /\ DOMAIN f = E
        BY <4>2, <4>3
      <4>5. apply(f, r) = [o \in (E \ {d}) \cup {d} |-> IF o = d THEN l[d] ELSE f[o]]
        BY <4>4 DEF apply
      <4>6. (E \ {d}) \cup {d} = E \cup {d}
        OBVIOUS
      <4>7. \A o \in E \cup {d} : (IF o = d THEN l[d] ELSE f[o]) = l[o]
        BY <4>3, Zenon
      <4>8. apply(f, r) = [o \in E \cup {d} |-> l[o]]
        BY <4>5, <4>6, <4>7, SMTT(30)
      <4> QED
        BY <4>1, <4>8, Zenon
    <3>11. LiveAfter(c)[m] = [o \in Up(m - 1) \cup {os[m]} |-> l[o]]
      BY <3>3, <3>6, <3>8, <3>10, Zenon
    <3> QED
      BY <3>5, <3>11
  <2> QED
    BY <2>2, <2>3
<1>12. LiveAfter(c)[n] = [o \in Up(n) |-> l[o]]
  <2>1. n \in 0 .. n
    OBVIOUS
  <2> HIDE DEF Up
  <2> QED
    BY <1>11, <2>1, Zenon
<1>13. Up(n) = D
  BY <1>3
<1>14. LiveAfter(c)[n] = l
  BY <1>1, <1>12, <1>13, SMTT(30)
<1> QED
  BY <1>6, <1>9, <1>10, <1>14, SMTT(30)

-----------------------------------------------------------------------------
(* What a power cut leaves. *)

\* A non-empty set of numbers up to n has a greatest element.
LEMMA GreatestNatural ==
    ASSUME NEW n \in Nat, NEW T \in SUBSET (0 .. n), T # {}
    PROVE  \E x \in T : \A y \in T : y <= x
<1> DEFINE U == {k \in 0 .. n : n - k \in T}
<1>1. U \in SUBSET Nat
  OBVIOUS
<1>2. \A y \in T : n - y \in U /\ n - (n - y) = y
  OBVIOUS
<1>3. U # {}
  BY <1>2, Zenon
<1>4. PICK u \in U : \A y \in U : u <= y
  BY <1>1, <1>3, LeastNatural, ZenonT(30)
<1>5. n - u \in T
  OBVIOUS
<1>6. \A y \in T : y <= n - u
  BY <1>2, <1>4, SMTT(30)
<1> QED
  BY <1>5, <1>6

\* Where the file and the platter part is at b or beyond, if they agree up to b.
LEMMA SameFacts ==
    ASSUME NEW S, cache \in Seq(S), disk \in Seq(S),
           NEW b \in Nat, b <= Len(cache), b <= Len(disk),
           \A i \in 1 .. b : disk[i] = cache[i]
    PROVE  \E same \in b .. Len(cache) :
              Surviving = {disk} \cup {SubSeq(cache, 1, n) : n \in same .. Len(cache)}
                 \cup {Append(k, Bad) : k \in {SubSeq(cache, 1, n) : n \in same .. Len(cache)} \ {cache}}
<1> DEFINE Shared(n) == IsPrefix(SubSeq(cache, 1, n), disk)
           Greatest(n) == /\ IsPrefix(SubSeq(cache, 1, n), disk)
                          /\ \A m \in n + 1 .. Len(cache) : ~IsPrefix(SubSeq(cache, 1, m), disk)
           T == {n \in 0 .. Len(cache) : Shared(n)}
<1>1. Len(cache) \in Nat /\ Len(disk) \in Nat
  OBVIOUS
<1>2. b \in 0 .. Len(cache) /\ b \in 0 .. Len(disk)
  BY <1>1
<1>3. Shared(b)
  <2>1. PICK p : p = SubSeq(cache, 1, b)
    BY Zenon
  <2>2. PICK q : q = SubSeq(disk, 1, b)
    BY Zenon
  <2>3. p \in Seq(S) /\ Len(p) = b /\ \A i \in 1 .. b : p[i] = cache[i]
    BY <1>2, <2>1, PrefixFacts
  <2>4. q \in Seq(S) /\ Len(q) = b /\ \A i \in 1 .. b : q[i] = disk[i]
    BY <1>2, <2>2, PrefixFacts
  <2>5. PICK r : r = SubSeq(p, 1, b)
    BY Zenon
  <2>6. b \in 0 .. Len(p)
    BY <2>3
  <2>7. r \in Seq(S) /\ Len(r) = b /\ \A i \in 1 .. b : r[i] = p[i]
    BY <2>3, <2>5, <2>6, PrefixFacts
  <2>8. r = q
    <3>1. Len(r) = Len(q) /\ \A i \in 1 .. Len(r) : r[i] = q[i]
      BY <2>3, <2>4, <2>7
    <3> QED
      BY <2>4, <2>7, <3>1, SeqEqual
  <2> QED
    BY <2>1, <2>2, <2>3, <2>5, <2>8 DEF IsPrefix
<1>4. b \in T
  BY <1>2, <1>3
<1>5. T \in SUBSET (0 .. Len(cache))
  OBVIOUS
<1>6. PICK x \in T : \A y \in T : y <= x
  BY <1>1, <1>4, <1>5, GreatestNatural, ZenonT(30)
<1>7. x \in 0 .. Len(cache) /\ Greatest(x)
  <2>1. x \in 0 .. Len(cache) /\ Shared(x)
    OBVIOUS
  <2>2. \A m \in x + 1 .. Len(cache) : m \in 0 .. Len(cache) /\ ~(m <= x)
    BY <2>1
  <2> QED
    BY <1>6, <2>1, <2>2
<1>8. PICK same \in 0 .. Len(cache) :
            same = (CHOOSE n \in 0 .. Len(cache) : Greatest(n)) /\ Greatest(same)
  <2> HIDE DEF Greatest
  <2> QED
    BY <1>7
<1>9. same >= b
  <2>1. CASE b \in same + 1 .. Len(cache)
    BY <1>3, <1>8, <2>1, SMTT(30)
  <2> QED
    BY <1>2, <2>1
<1>10. same \in b .. Len(cache)
  BY <1>1, <1>9
<1> QED
  BY <1>8, <1>10, Zenon DEF Surviving

\* What a cut leaves is well formed.  It keeps the records up to b, if the file
\* and the platter share them, and it is the platter or a beginning of the file.
LEMMA SurvivorFacts ==
    ASSUME NEW n \in Nat, Shape(cache, n), NEW d \in Nat, Shape(disk, d),
           NEW b \in 0 .. n, b <= Len(disk), \A i \in 1 .. b : disk[i] = cache[i],
           NEW s \in Surviving
    PROVE  \E k \in Nat :
              /\ Shape(s, k) /\ b <= Len(s) /\ \A i \in 1 .. b : s[i] = cache[i]
              /\ \/ s = disk
                 \/ k \in b .. n /\ k <= Len(s) /\ \A i \in 1 .. k : s[i] = cache[i]
<1>1. /\ cache \in Seq(Entry \cup {Bad}) /\ disk \in Seq(Entry \cup {Bad})
      /\ Len(cache) \in Nat /\ Len(disk) \in Nat
      /\ n <= Len(cache) /\ Len(cache) <= n + 1
  BY DEF Shape
<1>2. b \in Nat /\ b <= Len(cache)
  BY <1>1
<1>3. PICK same \in b .. Len(cache) :
              Surviving = {disk} \cup {SubSeq(cache, 1, m) : m \in same .. Len(cache)}
                 \cup {Append(k, Bad) : k \in {SubSeq(cache, 1, m) : m \in same .. Len(cache)} \ {cache}}
  BY <1>1, <1>2, SameFacts, ZenonT(30)
<1>4. CASE s = disk
  BY <1>4
<1>5. ASSUME NEW m \in same .. Len(cache), s = SubSeq(cache, 1, m)
      PROVE  \E k \in Nat :
              /\ Shape(s, k) /\ b <= Len(s) /\ \A i \in 1 .. b : s[i] = cache[i]
              /\ \/ s = disk
                 \/ k \in b .. n /\ k <= Len(s) /\ \A i \in 1 .. k : s[i] = cache[i]
  <2>1. m \in 0 .. Len(cache) /\ b <= m
    BY <1>1, <1>2
  <2>2. s \in Seq(Entry \cup {Bad}) /\ Len(s) = m /\ \A i \in 1 .. m : s[i] = cache[i]
    BY <1>1, <1>5, <2>1, PrefixFacts, SMTT(30)
  <2>3. PICK k \in Nat : Shape(s, k) /\ (m <= n => k = m) /\ (m > n => k = n)
    BY <1>5, <2>1, PrefixShape
  <2>4. k \in b .. n /\ k <= m
    BY <1>2, <2>1, <2>3
  <2>5. \A i \in 1 .. k : s[i] = cache[i]
    BY <2>1, <2>2, <2>4, SMTT(30)
  <2>6. \A i \in 1 .. b : s[i] = cache[i]
    BY <1>2, <2>1, <2>2, SMTT(30)
  <2> QED
    BY <2>1, <2>2, <2>3, <2>4, <2>5, <2>6
<1>6. ASSUME NEW m \in same .. Len(cache), s = Append(SubSeq(cache, 1, m), Bad),
             SubSeq(cache, 1, m) # cache
      PROVE  \E k \in Nat :
              /\ Shape(s, k) /\ b <= Len(s) /\ \A i \in 1 .. b : s[i] = cache[i]
              /\ \/ s = disk
                 \/ k \in b .. n /\ k <= Len(s) /\ \A i \in 1 .. k : s[i] = cache[i]
  <2>1. m \in 0 .. Len(cache) /\ b <= m
    BY <1>1, <1>2
  <2>2. m # Len(cache)
    <3>1. SUFFICES ASSUME m = Len(cache)
                   PROVE  FALSE
      OBVIOUS
    <3>2. PICK p : p = SubSeq(cache, 1, m)
      BY Zenon
    <3>3. p \in Seq(Entry \cup {Bad}) /\ Len(p) = m /\ \A i \in 1 .. m : p[i] = cache[i]
      BY <1>1, <2>1, <3>2, PrefixFacts, SMTT(30)
    <3>4. p = cache
      BY <1>1, <3>1, <3>3, SeqEqual, SMTT(30)
    <3> QED
      BY <1>6, <3>2, <3>4
  <2>3. m \in 0 .. n
    BY <1>1, <2>1, <2>2, SMTT(30)
  <2>4. /\ Len(s) = m + 1 /\ Shape(s, m)
        /\ \A i \in 1 .. m : s[i] = cache[i]
    BY <1>6, <2>3, WrittenShape, SMTT(30)
  <2>5. m \in b .. n /\ m <= Len(s) /\ b <= Len(s) /\ \A i \in 1 .. b : s[i] = cache[i]
    BY <1>2, <2>1, <2>3, <2>4, SMTT(30)
  <2> QED
    BY <2>3, <2>4, <2>5, SMTT(30)
<1> QED
  BY <1>3, <1>4, <1>5, <1>6, ZenonT(30)

-----------------------------------------------------------------------------
(* How the file and the platter stay anchored. *)

\* Anchored, with the number of sound records of each log.
LEMMA AnchoredShape ==
    ASSUME NEW c, NEW n \in Nat, Shape(c, n), NEW d, NEW k \in Nat, Shape(d, k),
           NEW A, NEW b \in Nat
    PROVE  Anchored(c, d, A, b) <=>
              /\ b <= n /\ b <= Len(d) /\ \A i \in 1 .. b : d[i] = c[i]
              /\ \A m \in b .. n : LiveAfter(c)[m] \in A
              /\ LiveAfter(d)[k] \in A
<1>1. SoundLen(c) = n
  BY ShapeFacts
<1>2. Replayed(d) = LiveAfter(d)[k]
  BY ShapeFacts
<1> QED
  BY <1>1, <1>2 DEF Anchored

\* A file that is on the platter as it stands.
LEMMA SelfAnchored ==
    ASSUME NEW c, NEW n \in Nat, Shape(c, n), NEW A, LiveAfter(c)[n] \in A
    PROVE  Anchored(c, c, A, n)
<1>1. n <= Len(c) /\ Len(c) \in Nat
  BY DEF Shape
<1>2. \A m \in n .. n : LiveAfter(c)[m] \in A
  <2>1. \A m \in n .. n : m = n
    OBVIOUS
  <2> QED
    BY <2>1
<1> QED
  BY <1>1, <1>2, AnchoredShape, SMTT(30)

\* A file rewritten from record p + 1 on.
LEMMA RewrittenAnchored ==
    ASSUME NEW c, NEW n \in Nat, Shape(c, n), NEW d, NEW k \in Nat, Shape(d, k),
           NEW A, NEW b \in Nat, Anchored(c, d, A, b),
           NEW p \in 0 .. n, LiveAfter(c)[p] \in A,
           NEW h, NEW m \in Nat, Shape(h, m), m \in p .. p + 1, \A i \in 1 .. p : h[i] = c[i],
           NEW B, A \subseteq B, m = p + 1 => LiveAfter(h)[m] \in B
    PROVE  \E q \in Nat : Anchored(h, d, B, q)
<1>1. /\ b <= n /\ b <= Len(d) /\ \A i \in 1 .. b : d[i] = c[i]
      /\ \A j \in b .. n : LiveAfter(c)[j] \in A
      /\ LiveAfter(d)[k] \in A
  BY AnchoredShape
<1>2. Len(c) \in Nat /\ Len(h) \in Nat /\ n <= Len(c) /\ m <= Len(h)
  BY DEF Shape
<1>3. p \in Nat /\ p <= Len(c) /\ p <= Len(h)
  BY <1>2
<1>4. \A j \in 0 .. p : LiveAfter(h)[j] = LiveAfter(c)[j]
  BY <1>2, <1>3, LiveAfterAgree, SMTT(30)
<1>5. PICK q \in Nat : q <= b /\ q <= p /\ (q = b \/ q = p)
  <2>1. CASE b <= p
    BY <2>1
  <2>2. CASE ~(b <= p)
    BY <1>3, <2>2
  <2> QED
    BY <2>1, <2>2
<1>6. q <= m /\ (Len(d) \in Nat => q <= Len(d))
  BY <1>1, <1>3, <1>5, SMTT(30)
<1>7. \A i \in 1 .. q : d[i] = h[i]
  BY <1>1, <1>3, <1>5, SMTT(30)
<1>8. ASSUME NEW j \in q .. m
      PROVE  LiveAfter(h)[j] \in B
  <2>1. CASE j = p + 1
    BY <1>3, <1>5, <1>8, <2>1, SMTT(30)
  <2>2. CASE j = p
    BY <1>3, <1>4, <2>2, SMTT(30)
  <2>3. CASE j < p
    <3>1. j \in b .. n /\ j \in 0 .. p
      BY <1>3, <1>5, <2>3, SMTT(30)
    <3> QED
      BY <1>1, <1>4, <3>1, SMTT(30)
  <2> QED
    BY <1>3, <2>1, <2>2, <2>3, SMTT(30)
<1>9. Len(d) \in Nat
  BY DEF Shape
<1>10. LiveAfter(d)[k] \in B
  BY <1>1
<1> QED
  BY <1>6, <1>7, <1>8, <1>9, <1>10, AnchoredShape, SMTT(30)

\* What a cut leaves anchors the file that it was left of, and replays to
\* what is allowed.
LEMMA SurvivorAnchored ==
    ASSUME NEW n \in Nat, Shape(cache, n), NEW d \in Nat, Shape(disk, d),
           NEW b \in Nat, Anchored(cache, disk, acked, b), NEW s \in Surviving
    PROVE  \E k \in Nat : /\ Shape(s, k) /\ LiveAfter(s)[k] \in acked
                          /\ Anchored(cache, s, acked, b)
<1>1. /\ b <= n /\ b <= Len(disk) /\ \A i \in 1 .. b : disk[i] = cache[i]
      /\ \A m \in b .. n : LiveAfter(cache)[m] \in acked
      /\ LiveAfter(disk)[d] \in acked
  BY AnchoredShape
<1>2. b \in 0 .. n
  BY <1>1
<1>3. PICK k \in Nat :
              /\ Shape(s, k) /\ b <= Len(s) /\ \A i \in 1 .. b : s[i] = cache[i]
              /\ \/ s = disk
                 \/ k \in b .. n /\ k <= Len(s) /\ \A i \in 1 .. k : s[i] = cache[i]
  BY <1>1, <1>2, SurvivorFacts, SMTT(30)
<1>4. LiveAfter(s)[k] \in acked
  <2>1. CASE s = disk
    <3>1. SoundLen(s) = k /\ SoundLen(disk) = d
      BY <1>3, ShapeFacts
    <3> QED
      BY <1>1, <2>1, <3>1, SMTT(30)
  <2>2. CASE k \in b .. n /\ k <= Len(s) /\ \A i \in 1 .. k : s[i] = cache[i]
    <3>1. Len(s) \in Nat /\ Len(cache) \in Nat /\ n <= Len(cache)
      BY <1>3 DEF Shape
    <3>2. k <= Len(cache) /\ k \in 0 .. k
      BY <2>2, <3>1
    <3>3. LiveAfter(s)[k] = LiveAfter(cache)[k]
      BY <2>2, <3>1, <3>2, LiveAfterAgree, SMTT(30)
    <3> QED
      BY <1>1, <2>2, <3>3, SMTT(30)
  <2> QED
    BY <1>3, <2>1, <2>2, SMTT(30)
<1>5. Anchored(cache, s, acked, b)
  BY <1>1, <1>3, <1>4, AnchoredShape, Zenon
<1> QED
  BY <1>3, <1>4, <1>5, SMTT(30)

-----------------------------------------------------------------------------
(* The invariant, action by action. *)

\* The shapes of the three logs.
LEMMA Shapes ==
    ASSUME TypeInv
    PROVE  /\ \E n \in Nat : Shape(cache, n) /\ SoundLen(cache) = n
           /\ \E n \in Nat : Shape(disk, n) /\ SoundLen(disk) = n
           /\ \E n \in Nat : Shape(old, n) /\ SoundLen(old) = n
<1>1. WellFormed(cache) /\ WellFormed(disk) /\ WellFormed(old)
  BY DEF TypeInv
<1>2. PICK n \in Nat : Shape(cache, n)
  BY <1>1, WellFormedShape
<1>3. PICK m \in Nat : Shape(disk, m)
  BY <1>1, WellFormedShape
<1>4. PICK k \in Nat : Shape(old, k)
  BY <1>1, WellFormedShape
<1>5. SoundLen(cache) = n
  BY <1>2, ShapeFacts
<1>6. SoundLen(disk) = m
  BY <1>3, ShapeFacts
<1>7. SoundLen(old) = k
  BY <1>4, ShapeFacts
<1> QED
  BY <1>2, <1>3, <1>4, <1>5, <1>6, <1>7, SMTT(30)

\* An empty log replays to nothing.
LEMMA EmptyFacts ==
    /\ WellFormed(<<>>) /\ SoundLen(<<>>) = 0 /\ Len(<<>>) = 0
    /\ LiveAfter(<<>>)[0] = Nothing /\ Replayed(<<>>) = Nothing
<1>1. Shape(<<>>, 0) /\ 0 \in Nat
  BY EmptyShape
<1>2. WellFormed(<<>>) /\ SoundLen(<<>>) = 0 /\ Replayed(<<>>) = LiveAfter(<<>>)[0]
  BY <1>1, ShapeFacts, SMTT(30)
<1>3. Len(<<>>) = 0
  OBVIOUS
<1>4. LiveAfter(<<>>)[0] = Nothing
  BY <1>3, LiveAfterStep, SMTT(30)
<1> QED
  BY <1>2, <1>3, <1>4, SMTT(30)

\* An empty file on an empty platter.
LEMMA EmptyAnchored ==
    ASSUME NEW A, Nothing \in A
    PROVE  Anchored(<<>>, <<>>, A, 0)
<1>1. Shape(<<>>, 0) /\ 0 \in Nat
  BY EmptyShape
<1>2. LiveAfter(<<>>)[0] \in A
  BY EmptyFacts
<1> QED
  BY <1>1, <1>2, SelfAnchored, SMTT(30)

\* The store before it is first opened.
LEMMA InitStep ==
    ASSUME Init
    PROVE  IInv
<1>1. TypeInv
  BY EmptyFacts, NothingType, SMTT(30) DEF Init, TypeInv, Position
<1>2. KeptInv
  <2>1. Nothing \in acked
    BY DEF Init
  <2>2. Anchored(cache, disk, acked, 0)
    BY <2>1, EmptyAnchored DEF Init
  <2>3. \E b \in Nat : Anchored(cache, disk, acked, b)
    BY <2>2
  <2> QED
    BY <2>1, <2>3 DEF Init, KeptInv
<1> QED
  BY <1>1, <1>2, SMTT(30) DEF IInv

\* A log that does not exist yet.
LEMMA CreateStep ==
    ASSUME IInv, Create
    PROVE  IInv'
<1>1. TypeInv'
  BY EmptyFacts DEF IInv, TypeInv, Position, Create
<1>2. ASSUME trust' = "Kept"
      PROVE  KeptInv'
  <2>1. Nothing \in acked
    BY <1>2 DEF IInv, KeptInv, Create
  <2>2. Anchored(cache, disk, acked, 0)'
    BY <2>1, EmptyAnchored DEF Create
  <2>3. (\E b \in Nat : Anchored(cache, disk, acked, b))'
    BY <2>2
  <2> QED
    BY <2>1, <2>3 DEF KeptInv, Create
<1> QED
  BY <1>1, <1>2, SMTT(30) DEF IInv

\* A new log whose name is synced.
LEMMA SyncCreatedStep ==
    ASSUME IInv, SyncCreated
    PROVE  IInv'
<1>1. cache = <<>> /\ entry = "Fresh"
  BY DEF IInv, TypeInv, Position, SyncCreated
<1>2. TypeInv'
  BY <1>1, EmptyFacts, NothingType, SMTT(30) DEF IInv, TypeInv, Position, SyncCreated
<1>3. ASSUME trust' = "Kept"
      PROVE  KeptInv'
  <2>1. Nothing \in acked /\ \E b \in Nat : Anchored(cache, disk, acked, b)
    BY <1>1, <1>3, SMTT(30) DEF IInv, KeptInv, SyncCreated
  <2>2. (\E b \in Nat : Anchored(cache, disk, acked, b))'
    BY <2>1 DEF SyncCreated
  <2> QED
    BY <2>1, <2>2, SMTT(30) DEF KeptInv, SyncCreated
<1> QED
  BY <1>2, <1>3, SMTT(30) DEF IInv

\* Replay never refuses a well-formed log.
LEMMA ReplayStep ==
    ASSUME IInv, Replay
    PROVE  IInv'
<1>1. PICK n \in Nat : Shape(cache, n) /\ SoundLen(cache) = n
  BY Shapes DEF IInv
<1>2. ~Corrupt(cache) /\ Replayed(cache) = LiveAfter(cache)[n]
  BY <1>1, ShapeFacts, SMTT(30)
<1>3. /\ live' = LiveAfter(cache)[n] /\ count' = n
      /\ proc' \in {"Ready", "Compacting"}
      /\ cache' = cache /\ disk' = disk /\ old' = old /\ entry' = entry /\ acked' = acked
  BY <1>1, <1>2 DEF Replay, SoundLen
<1>4. n \in 0 .. n
  OBVIOUS
<1>5. live' \in Lives
  BY <1>1, <1>3, <1>4, LiveAfterType, SMTT(30)
<1>6. WellFormed(cache)' /\ WellFormed(disk)' /\ WellFormed(old)' /\ SoundLen(cache)' = n
  BY <1>1, <1>3, Zenon DEF IInv, TypeInv
<1>7. Position'
  BY <1>3, <1>4, <1>6, SMTT(30) DEF Position
<1>8. TypeInv'
  BY <1>3, <1>5, <1>6, <1>7, SMTT(30) DEF TypeInv
<1>9. ASSUME trust' = "Kept"
      PROVE  KeptInv'
  <2>1. trust = "Kept" /\ entry = "Durable"
    BY <1>9 DEF Replay
  <2>2. PICK b \in Nat : Anchored(cache, disk, acked, b)
    BY <2>1 DEF IInv, KeptInv
  <2>3. live' \in acked
    BY <1>1, <1>3, <2>2, SMTT(30) DEF Anchored
  <2>4. (\E q \in Nat : Anchored(cache, disk, acked, q))'
    BY <1>3, <2>2, SMTT(30)
  <2> QED
    BY <1>3, <2>1, <2>3, <2>4, SMTT(30) DEF KeptInv
<1> QED
  BY <1>8, <1>9, SMTT(30) DEF IInv

\* The compacted file takes the log's name.
LEMMA RenameStep ==
    ASSUME IInv, Rename
    PROVE  IInv'
<1>1. live \in Lives
  BY DEF IInv, TypeInv
<1>2. /\ old' = disk /\ cache' = Compacted(live) /\ disk' = Compacted(live)
      /\ entry' = "Renamed" /\ proc' = "Renamed" /\ live' = live /\ count' = count
      /\ acked' = acked /\ trust' = trust /\ proc = "Compacting"
  BY DEF Rename
<1>3. PICK c : c = Compacted(live)
  OBVIOUS
<1>4. PICK n \in Nat : Shape(c, n) /\ Len(c) = n /\ LiveAfter(c)[n] = live
  BY <1>1, <1>3, CompactedFacts, SMTT(30)
<1>5. WellFormed(c) /\ SoundLen(c) = n /\ Replayed(c) = live
  BY <1>4, ShapeFacts
<1>6. TypeInv'
  <2>1. WellFormed(cache)' /\ WellFormed(disk)' /\ WellFormed(old)'
    BY <1>2, <1>3, <1>5, SMTT(30) DEF IInv, TypeInv
  <2>2. SoundLen(cache)' = n /\ Len(cache') = n /\ Replayed(cache)' = live
    BY <1>2, <1>3, <1>4, <1>5, SMTT(30)
  <2>3. Position'
    BY <1>2, <2>2, SMTT(30) DEF Position
  <2> QED
    BY <1>2, <2>1, <2>3, SMTT(30) DEF TypeInv, IInv
<1>7. ASSUME trust' = "Kept"
      PROVE  KeptInv'
  <2>1. live \in acked /\ Replayed(disk) \in acked
    BY <1>2, <1>7, Zenon DEF IInv, KeptInv, Anchored
  <2>2. Anchored(c, c, acked, n)
    BY <1>4, <2>1, SelfAnchored, SMTT(30)
  <2>3. (\E b \in Nat : Anchored(cache, disk, acked, b))'
    BY <1>2, <1>3, <2>2, SMTT(30)
  <2>4. Replayed(old)' \in acked
    BY <1>2, <2>1
  <2> QED
    BY <1>2, <2>1, <2>3, <2>4, SMTT(30) DEF KeptInv
<1> QED
  BY <1>6, <1>7 DEF IInv

\* The directory is synced, and the compacted file is open at its end.
LEMMA SyncRenamedStep ==
    ASSUME IInv, SyncRenamed
    PROVE  IInv'
<1>1. PICK n \in Nat : Shape(cache, n) /\ SoundLen(cache) = n
  BY Shapes DEF IInv
<1>2. /\ proc = "Renamed" /\ proc' = "Ready" /\ entry' = "Durable" /\ old' = <<>>
      /\ count' = Len(cache) /\ live' = live /\ cache' = cache /\ disk' = disk
      /\ acked' = acked /\ trust' = trust
  BY DEF SyncRenamed
<1>3. Len(cache) = n /\ live = LiveAfter(cache)[n]
  <2>1. SoundLen(cache) = Len(cache) /\ live = Replayed(cache)
    BY <1>2 DEF IInv, TypeInv, Position
  <2>2. Replayed(cache) = LiveAfter(cache)[n]
    BY <1>1, ShapeFacts
  <2> QED
    BY <1>1, <2>1, <2>2, ZenonT(30)
<1>4. TypeInv'
  <2>1. WellFormed(cache)' /\ WellFormed(disk)' /\ WellFormed(old)'
    BY <1>2, EmptyFacts DEF IInv, TypeInv
  <2>2. SoundLen(cache)' = n /\ count' = n /\ n \in 0 .. n /\ live' = LiveAfter(cache')[n]
    BY <1>1, <1>2, <1>3, SMTT(30)
  <2>3. Position'
    BY <1>2, <2>2, ZenonT(30) DEF Position
  <2> QED
    BY <1>2, <2>1, <2>2, <2>3, SMTT(30) DEF TypeInv, IInv
<1>5. ASSUME trust' = "Kept"
      PROVE  KeptInv'
  <2>1. live \in acked /\ \E b \in Nat : Anchored(cache, disk, acked, b)
    BY <1>2, <1>5, Zenon DEF IInv, KeptInv
  <2>2. (\E b \in Nat : Anchored(cache, disk, acked, b))'
    BY <1>2, <2>1, SMTT(30)
  <2> QED
    BY <1>2, <2>1, <2>2, SMTT(30) DEF KeptInv
<1> QED
  BY <1>4, <1>5 DEF IInv

\* A record goes to the file, over whatever an earlier failure left.
LEMMA WriteStep ==
    ASSUME IInv, NEW rec \in Rec, Write(rec)
    PROVE  IInv'
<1>1. PICK n \in Nat : Shape(cache, n) /\ SoundLen(cache) = n
  BY Shapes DEF IInv
<1>2. /\ proc = "Ready" /\ proc' = "Writing" /\ call' = rec
      /\ cache' = Written(Record(count + 1, rec)) /\ acked' = acked \cup {apply(live, rec)}
      /\ live' = live /\ count' = count /\ entry' = entry /\ disk' = disk /\ old' = old
      /\ trust' = trust
  BY DEF Write
<1>3. count \in 0 .. n /\ count \in Nat /\ live = LiveAfter(cache)[count]
  BY <1>1, <1>2 DEF IInv, TypeInv, Position
<1>4. PICK e : e = Record(count + 1, rec)
  OBVIOUS
<1>5. e \in Entry /\ e.sequence = count + 1 /\ e.rec = rec
  BY <1>3, <1>4 DEF Record, Entry
<1>6. PICK h : h = Written(e)
  OBVIOUS
<1>7. /\ Len(h) = count + 1 /\ h[count + 1] = e
      /\ \A i \in 1 .. count : h[i] = cache[i]
      /\ Shape(h, count + 1)
  BY <1>1, <1>3, <1>5, <1>6, WrittenShape, SMTT(30) DEF Written
<1>8. count + 1 \in Nat /\ WellFormed(h) /\ SoundLen(h) = count + 1
  BY <1>3, <1>7, ShapeFacts, SMTT(30)
<1>9. Len(cache) \in Nat /\ n <= Len(cache)
  BY <1>1 DEF Shape
<1>10. LiveAfter(h)[count] = live
  <2>1. count <= Len(h) /\ count <= Len(cache) /\ count \in 0 .. count /\ Len(h) \in Nat
    BY <1>3, <1>7, <1>9, SMTT(30)
  <2>2. \A k \in 0 .. count : LiveAfter(h)[k] = LiveAfter(cache)[k]
    BY <1>3, <1>7, <1>9, <2>1, LiveAfterAgree, SMTT(30)
  <2> QED
    BY <1>3, <2>1, <2>2, Zenon
<1>11. LiveAfter(h)[count + 1] = apply(live, rec)
  <2>1. count + 1 \in 1 .. Len(h) /\ (count + 1) - 1 = count /\ Len(h) \in Nat
    BY <1>3, <1>7
  <2>2. LiveAfter(h)[count + 1] = apply(LiveAfter(h)[(count + 1) - 1], h[count + 1].rec)
    BY <2>1, LiveAfterStep
  <2> QED
    BY <1>5, <1>7, <1>10, <2>1, <2>2, SMTT(30)
<1>12. cache' = h
  BY <1>2, <1>4, <1>6, SMTT(30)
<1>13. TypeInv'
  <2>1. WellFormed(cache)' /\ WellFormed(disk)' /\ WellFormed(old)'
    BY <1>2, <1>8, <1>12, SMTT(30) DEF IInv, TypeInv
  <2>2. SoundLen(cache)' = count + 1 /\ Len(cache') = count + 1 /\ count \in 0 .. count + 1
        /\ live = LiveAfter(cache')[count] /\ cache'[count + 1] = Record(count + 1, rec)
    BY <1>3, <1>4, <1>7, <1>8, <1>10, <1>12, SMTT(30)
  <2>3. Position'
    BY <1>2, <2>2, SMTT(30) DEF Position
  <2> QED
    BY <1>2, <2>1, <2>3, SMTT(30) DEF TypeInv, IInv
<1>14. ASSUME trust' = "Kept"
       PROVE  KeptInv'
  <2>1. live \in acked /\ entry = "Durable"
    BY <1>2, <1>14, SMTT(30) DEF IInv, KeptInv
  <2>2. PICK b \in Nat : Anchored(cache, disk, acked, b)
    BY <1>2, <1>14, SMTT(30) DEF IInv, KeptInv
  <2>3. PICK d \in Nat : Shape(disk, d)
    BY Shapes DEF IInv
  <2>4. LiveAfter(cache)[count] \in acked
    BY <1>3, <2>1, SMTT(30)
  <2>5. acked \subseteq acked' /\ LiveAfter(h)[count + 1] \in acked'
    BY <1>2, <1>11
  <2>6. count + 1 \in count .. count + 1
    BY <1>3, SMTT(30)
  <2>7. \E q \in Nat : Anchored(h, disk, acked', q)
    BY <1>1, <1>3, <1>7, <1>8, <2>2, <2>3, <2>4, <2>5, <2>6, RewrittenAnchored, SMTT(30)
  <2>8. (\E q \in Nat : Anchored(cache, disk, acked, q))'
    BY <1>2, <1>12, <2>7, Zenon
  <2> QED
    BY <1>2, <2>1, <2>5, <2>8, SMTT(30) DEF KeptInv
<1> QED
  BY <1>13, <1>14, SMTT(30) DEF IInv

\* While a record is being written, it is the last sound one of the file.
LEMMA WritingFacts ==
    ASSUME IInv, proc = "Writing"
    PROVE  /\ count \in Nat /\ Shape(cache, count + 1) /\ Len(cache) = count + 1
           /\ live = LiveAfter(cache)[count]
           /\ LiveAfter(cache)[count + 1] = apply(live, call)
<1>1. PICK n \in Nat : Shape(cache, n) /\ SoundLen(cache) = n
  BY Shapes DEF IInv
<1>2. /\ count \in 0 .. n /\ count \in Nat /\ live = LiveAfter(cache)[count]
      /\ call \in Rec /\ Len(cache) = count + 1 /\ cache[count + 1] = Record(count + 1, call)
  BY <1>1, SMTT(30) DEF IInv, TypeInv, Position
<1>3. cache[count + 1] \in Entry /\ cache[count + 1].rec = call
  BY <1>2 DEF Record, Entry
<1>4. n = count + 1
  <2>1. n <= Len(cache) /\ \A i \in 1 .. Len(cache) : i > n => cache[i] = Bad
    BY <1>1 DEF Shape
  <2>2. CASE n = count
    <3>1. count + 1 \in 1 .. Len(cache) /\ count + 1 > n
      BY <1>2, <2>2, SMTT(30)
    <3> QED
      BY <1>3, <2>1, <3>1, EntryIsNotBad, SMTT(30)
  <2> QED
    BY <1>2, <2>1, <2>2, SMTT(30)
<1>5. LiveAfter(cache)[count + 1] = apply(live, call)
  <2>1. count + 1 \in 1 .. Len(cache) /\ (count + 1) - 1 = count /\ Len(cache) \in Nat
    BY <1>2
  <2>2. LiveAfter(cache)[count + 1] = apply(LiveAfter(cache)[(count + 1) - 1], cache[count + 1].rec)
    BY <2>1, LiveAfterStep
  <2> QED
    BY <1>2, <1>3, <2>1, <2>2, SMTT(30)
<1> QED
  BY <1>1, <1>2, <1>4, <1>5, SMTT(30)

\* The record is on the platter.
LEMMA SyncStep ==
    ASSUME IInv, Sync
    PROVE  IInv'
<1>1. /\ proc = "Writing" /\ proc' = "Ready" /\ disk' = cache /\ count' = count + 1
      /\ live' = apply(live, call) /\ acked' = {live'} /\ cache' = cache
      /\ entry' = entry /\ old' = old /\ trust' = trust
  BY DEF Sync
<1>2. /\ count \in Nat /\ Shape(cache, count + 1) /\ Len(cache) = count + 1
      /\ LiveAfter(cache)[count + 1] = apply(live, call)
  BY <1>1, WritingFacts
<1>3. PICK n \in Nat : n = count + 1 /\ n \in 0 .. n
  BY <1>2
<1>4. WellFormed(cache) /\ SoundLen(cache) = n
  BY <1>2, <1>3, ShapeFacts, SMTT(30)
<1>5. live' \in Lives
  BY <1>1, <1>2, <1>3, LiveAfterType, SMTT(30)
<1>6. TypeInv'
  <2>1. WellFormed(cache)' /\ WellFormed(disk)' /\ WellFormed(old)'
    BY <1>1, <1>4, SMTT(30) DEF IInv, TypeInv
  <2>2. SoundLen(cache)' = n /\ count' = n /\ live' = LiveAfter(cache')[n]
    BY <1>1, <1>2, <1>3, <1>4, SMTT(30)
  <2>3. Position'
    BY <1>1, <1>3, <2>2, SMTT(30) DEF Position
  <2> QED
    BY <1>1, <1>3, <1>5, <2>1, <2>2, <2>3, SMTT(30) DEF TypeInv
<1>7. ASSUME trust' = "Kept"
      PROVE  KeptInv'
  <2>1. entry = "Durable"
    BY <1>1, <1>7, SMTT(30) DEF IInv, KeptInv
  <2>2. LiveAfter(cache)[n] \in acked'
    BY <1>1, <1>2, <1>3, SMTT(30)
  <2>3. Anchored(cache, cache, acked', n)
    BY <1>2, <1>3, <2>2, SelfAnchored, SMTT(30)
  <2>4. (\E b \in Nat : Anchored(cache, disk, acked, b))'
    BY <1>1, <2>3, SMTT(30)
  <2> QED
    BY <1>1, <2>1, <2>4, SMTT(30) DEF KeptInv
<1> QED
  BY <1>6, <1>7, SMTT(30) DEF IInv

\* What a write that fails, or is cut short by a kill, leaves of the file.
LEMMA LeftFacts ==
    ASSUME IInv, proc = "Writing",
           NEW left \in {SubSeq(cache, 1, count), Written(Bad), cache}
    PROVE  \E m \in Nat :
              /\ Shape(left, m) /\ m \in count .. count + 1 /\ count <= Len(left)
              /\ \A i \in 1 .. count : left[i] = cache[i]
              /\ m = count + 1 => left = cache
<1>1. count \in Nat /\ Shape(cache, count + 1) /\ Len(cache) = count + 1
  BY WritingFacts
<1>2. PICK n \in Nat : n = count + 1 /\ Shape(cache, n) /\ Len(cache) = n
  BY <1>1
<1>3. CASE left = cache
  BY <1>1, <1>2, <1>3, SMTT(30)
<1>4. CASE left = SubSeq(cache, 1, count)
  <2>1. count \in 0 .. Len(cache) /\ count <= n
    BY <1>1, <1>2
  <2>2. PICK k \in Nat : Shape(left, k) /\ k = count
    BY <1>2, <1>4, <2>1, PrefixShape, SMTT(30)
  <2>3. cache \in Seq(Entry \cup {Bad})
    BY <1>2 DEF Shape
  <2>4. Len(left) = count /\ \A i \in 1 .. count : left[i] = cache[i]
    BY <1>4, <2>1, <2>3, PrefixFacts, Zenon
  <2> QED
    BY <1>1, <2>2, <2>4, SMTT(30)
<1>5. CASE left = Written(Bad)
  <2>1. count \in 0 .. n
    BY <1>1, <1>2, SMTT(30)
  <2>2. Len(left) = count + 1 /\ Shape(left, count) /\ \A i \in 1 .. count : left[i] = cache[i]
    BY <1>2, <1>5, <2>1, WrittenShape, SMTT(30) DEF Written
  <2> QED
    BY <1>1, <2>2, SMTT(30)
<1> QED
  BY <1>3, <1>4, <1>5, SMTT(30)

\* What is left of the file is anchored, on any platter that the file was.
LEMMA LeftAnchored ==
    ASSUME IInv, proc = "Writing", trust = "Kept",
           NEW left, NEW m \in Nat, Shape(left, m), m \in count .. count + 1,
           \A i \in 1 .. count : left[i] = cache[i], m = count + 1 => left = cache,
           NEW d, NEW k \in Nat, Shape(d, k), NEW b \in Nat, Anchored(cache, d, acked, b)
    PROVE  \E q \in Nat : Anchored(left, d, acked, q)
<1>1. /\ count \in Nat /\ Shape(cache, count + 1) /\ live = LiveAfter(cache)[count]
  BY WritingFacts
<1>2. live \in acked
  BY DEF IInv, KeptInv
<1>3. PICK n \in Nat : n = count + 1 /\ Shape(cache, n) /\ count \in 0 .. n
  BY <1>1
<1>4. LiveAfter(cache)[n] \in acked
  <2>1. b <= n /\ \A j \in b .. n : LiveAfter(cache)[j] \in acked
    BY <1>3, AnchoredShape, SMTT(30)
  <2>2. n \in b .. n
    BY <2>1
  <2> QED
    BY <2>1, <2>2, SMTT(30)
<1>5. m = count + 1 => LiveAfter(left)[m] \in acked
  BY <1>3, <1>4, SMTT(30)
<1>6. LiveAfter(cache)[count] \in acked /\ acked \subseteq acked
  BY <1>1, <1>2, SMTT(30)
<1> QED
  BY <1>3, <1>5, <1>6, RewrittenAnchored, Zenon

\* A write that fails leaves the store open at the record it was to write.
LEMMA FailStep ==
    ASSUME IInv, Fail
    PROVE  IInv'
<1>1. /\ proc = "Writing" /\ proc' = "Ready" /\ live' = live /\ count' = count
      /\ entry' = entry /\ old' = old /\ acked' = acked /\ trust' = trust
  BY DEF Fail
<1>2. PICK left \in {SubSeq(cache, 1, count), Written(Bad), cache} :
            cache' = left /\ disk' \in Surviving \cup {left}
  BY DEF Fail
<1>3. PICK m \in Nat :
              /\ Shape(left, m) /\ m \in count .. count + 1 /\ count <= Len(left)
              /\ \A i \in 1 .. count : left[i] = cache[i]
              /\ m = count + 1 => left = cache
  BY <1>1, LeftFacts, Zenon
<1>4. /\ count \in Nat /\ Shape(cache, count + 1) /\ Len(cache) = count + 1
      /\ live = LiveAfter(cache)[count]
  BY <1>1, WritingFacts, SMTT(30)
<1>5. PICK n \in Nat : n = count + 1 /\ Shape(cache, n) /\ Len(cache) = n
  BY <1>4
<1>6. PICK d \in Nat : Shape(disk, d)
  BY Shapes DEF IInv
<1>7. WellFormed(left) /\ SoundLen(left) = m
  BY <1>3, ShapeFacts, SMTT(30)
<1>8. LiveAfter(left)[count] = live
  <2>0. Len(left) \in Nat
    BY <1>3 DEF Shape
  <2>1. Len(left) \in Nat /\ Len(cache) \in Nat /\ count <= Len(cache) /\ count \in 0 .. count
    <3>1. count \in Nat /\ n = count + 1
      BY <1>4, <1>5, SMTT(30)
    <3>2. count <= n /\ count \in 0 .. count
      BY <3>1
    <3> QED
      BY <1>5, <2>0, <3>2, SMTT(30)
  <2>2. \A k \in 0 .. count : LiveAfter(left)[k] = LiveAfter(cache)[k]
    <3>1. count \in Nat /\ count <= Len(left) /\ \A i \in 1 .. count : left[i] = cache[i]
      BY <1>3, <1>4
    <3> QED
      BY <2>1, <3>1, LiveAfterAgree, Zenon
  <2> QED
    BY <1>4, <2>1, <2>2, SMTT(30)
<1>9. TypeInv'
  <2>1. WellFormed(disk')
    <3>1. CASE disk' = left
      BY <1>7, <3>1
    <3>2. CASE disk' \in Surviving
      <4>1. 0 \in 0 .. n /\ 0 <= Len(disk) /\ \A i \in 1 .. 0 : disk[i] = cache[i]
        BY <1>6 DEF Shape
      <4>2. PICK k \in Nat : Shape(disk', k)
        BY <1>5, <1>6, <3>2, <4>1, SurvivorFacts, SMTT(30)
      <4> QED
        BY <4>2, ShapeFacts, SMTT(30)
    <3> QED
      BY <1>2, <3>1, <3>2, SMTT(30)
  <2>2. WellFormed(cache)' /\ WellFormed(disk)' /\ WellFormed(old)'
    BY <1>1, <1>2, <1>7, <2>1, SMTT(30) DEF IInv, TypeInv
  <2>3. SoundLen(cache)' = m /\ count \in 0 .. m /\ live = LiveAfter(cache')[count]
    BY <1>2, <1>3, <1>4, <1>7, <1>8, SMTT(30)
  <2>4. Position'
    BY <1>1, <2>3, SMTT(30) DEF Position
  <2> QED
    BY <1>1, <2>2, <2>4, SMTT(30) DEF TypeInv, IInv
<1>10. ASSUME trust' = "Kept"
       PROVE  KeptInv'
  <2>1. trust = "Kept" /\ live \in acked /\ entry = "Durable"
    BY <1>1, <1>10 DEF IInv, KeptInv
  <2>2. PICK b \in Nat : Anchored(cache, disk, acked, b)
    BY <2>1 DEF IInv, KeptInv
  <2>3. \E q \in Nat : Anchored(left, disk', acked, q)
    <3>1. CASE disk' \in Surviving
      <4>1. PICK k \in Nat : Shape(disk', k) /\ Anchored(cache, disk', acked, b)
        BY <1>5, <1>6, <2>2, <3>1, SurvivorAnchored, SMTT(30)
      <4> QED
        BY <1>1, <1>3, <2>1, <4>1, LeftAnchored, SMTT(30)
    <3>2. CASE disk' = left
      <4>1. PICK q \in Nat : Anchored(left, disk, acked, q)
        BY <1>1, <1>3, <1>6, <2>1, <2>2, LeftAnchored, SMTT(30)
      <4>2. q <= m /\ \A j \in q .. m : LiveAfter(left)[j] \in acked
        BY <1>3, <1>6, <4>1, AnchoredShape, SMTT(30)
      <4>3. m \in q .. m
        BY <4>2
      <4>4. Anchored(left, left, acked, m)
        BY <1>3, <4>2, <4>3, SelfAnchored, SMTT(30)
      <4> QED
        BY <3>2, <4>4, SMTT(30)
    <3> QED
      BY <1>2, <3>1, <3>2, SMTT(30)
  <2>4. (\E q \in Nat : Anchored(cache, disk, acked, q))'
    BY <1>1, <1>2, <2>3, SMTT(30)
  <2> QED
    BY <1>1, <2>1, <2>4, SMTT(30) DEF KeptInv
<1> QED
  BY <1>9, <1>10, SMTT(30) DEF IInv

\* A store that is closed.
LEMMA CloseStep ==
    ASSUME IInv, Close
    PROVE  IInv'
<1>1. /\ proc' = "Down" /\ live' = Nothing /\ count' = 0
      /\ UNCHANGED <<entry, cache, disk, old, acked, trust>>
  BY DEF Close, Stopped
<1>2. TypeInv'
  BY <1>1, NothingType, SMTT(30) DEF IInv, TypeInv, Position
<1>3. ASSUME trust' = "Kept"
      PROVE  KeptInv'
  BY <1>1, <1>3 DEF IInv, KeptInv
<1> QED
  BY <1>2, <1>3 DEF IInv

\* A process that is killed leaves the file as it is, or a record cut short.
LEMMA KillStep ==
    ASSUME IInv, Kill
    PROVE  IInv'
<1>1. /\ proc' = "Down" /\ live' = Nothing /\ count' = 0
      /\ UNCHANGED <<entry, disk, old, acked, trust>>
  BY DEF Kill, Stopped
<1>2. CASE cache' = cache
  <2>1. TypeInv'
    BY <1>1, <1>2, NothingType, SMTT(30) DEF IInv, TypeInv, Position
  <2>2. ASSUME trust' = "Kept"
        PROVE  KeptInv'
    BY <1>1, <1>2, <2>2, SMTT(30) DEF IInv, KeptInv
  <2> QED
    BY <2>1, <2>2, SMTT(30) DEF IInv
<1>3. CASE proc = "Writing" /\ cache' = Written(Bad)
  <2>1. PICK left \in {SubSeq(cache, 1, count), Written(Bad), cache} : left = Written(Bad)
    OBVIOUS
  <2>2. PICK m \in Nat :
              /\ Shape(left, m) /\ m \in count .. count + 1
              /\ \A i \in 1 .. count : left[i] = cache[i]
              /\ m = count + 1 => left = cache
    BY <1>3, LeftFacts, Zenon
  <2>3. WellFormed(left)
    BY <2>2, ShapeFacts, SMTT(30)
  <2>4. TypeInv'
    BY <1>1, <1>3, <2>1, <2>3, NothingType, SMTT(30) DEF IInv, TypeInv, Position
  <2>5. ASSUME trust' = "Kept"
        PROVE  KeptInv'
    <3>1. trust = "Kept" /\ entry = "Durable"
      BY <1>1, <1>3, <2>5, SMTT(30) DEF IInv, KeptInv
    <3>2. PICK b \in Nat : Anchored(cache, disk, acked, b)
      BY <3>1 DEF IInv, KeptInv
    <3>3. PICK d \in Nat : Shape(disk, d)
      BY Shapes, Zenon DEF IInv
    <3>4. \E q \in Nat : Anchored(left, disk, acked, q)
      BY <1>3, <2>2, <3>1, <3>2, <3>3, LeftAnchored, SMTT(30)
    <3>5. (\E q \in Nat : Anchored(cache, disk, acked, q))'
      BY <1>1, <1>3, <2>1, <3>4, SMTT(30)
    <3> QED
      BY <1>1, <3>1, <3>5, SMTT(30) DEF KeptInv
  <2> QED
    BY <2>4, <2>5, SMTT(30) DEF IInv
<1> QED
  BY <1>2, <1>3, SMTT(30) DEF Kill

\* A cut leaves nothing of nothing.
LEMMA EmptySurvivors ==
    ASSUME cache = <<>>, disk = <<>>
    PROVE  Surviving = {<<>>}
<1>1. /\ Len(cache) = 0 /\ Len(disk) = 0
      /\ cache \in Seq(Entry \cup {Bad}) /\ disk \in Seq(Entry \cup {Bad})
  BY EmptySeq
<1>2. PICK same \in 0 .. Len(cache) :
              Surviving = {disk} \cup {SubSeq(cache, 1, n) : n \in same .. Len(cache)}
                 \cup {Append(k, Bad) : k \in {SubSeq(cache, 1, n) : n \in same .. Len(cache)} \ {cache}}
  <2>1. 0 <= Len(cache) /\ 0 <= Len(disk) /\ 0 \in Nat /\ \A i \in 1 .. 0 : disk[i] = cache[i]
    BY <1>1
  <2> QED
    BY <1>1, <2>1, SameFacts, SMTT(30)
<1>3. same = 0
  BY <1>1
<1>4. SubSeq(cache, 1, 0) = <<>>
  <2>1. 0 \in 0 .. Len(cache)
    BY <1>1
  <2>2. SubSeq(cache, 1, 0) \in Seq(Entry \cup {Bad}) /\ Len(SubSeq(cache, 1, 0)) = 0
    BY <1>1, <2>1, PrefixFacts, SMTT(30)
  <2> QED
    BY <2>2, EmptySeq
<1>5. {SubSeq(cache, 1, n) : n \in same .. Len(cache)} = {<<>>}
  <2>1. \A n \in same .. Len(cache) : n = 0
    BY <1>1, <1>3
  <2>2. 0 \in same .. Len(cache)
    BY <1>1, <1>3
  <2>3. \A n \in same .. Len(cache) : SubSeq(cache, 1, n) = <<>>
    BY <1>4, <2>1, Zenon
  <2> QED
    BY <2>2, <2>3, Zenon
<1> QED
  BY <1>2, <1>5, Zenon

\* A power cut leaves what is on the platter, under the name it has there.
LEMMA PowerLossStep ==
    ASSUME IInv, PowerLoss
    PROVE  IInv'
<1>1. /\ proc' = "Down" /\ live' = Nothing /\ count' = 0 /\ old' = <<>> /\ disk' = cache'
      /\ acked' = acked /\ trust' = trust
  BY DEF PowerLoss, Stopped
<1>2. PICK n \in Nat : Shape(cache, n)
  BY Shapes DEF IInv
<1>3. PICK d \in Nat : Shape(disk, d)
  BY Shapes DEF IInv
<1>4. PICK o \in Nat : Shape(old, o)
  BY Shapes DEF IInv
<1>5. ASSUME NEW k \in Nat, Shape(cache', k), entry' \in {"None", "Durable"},
             trust = "Kept" => /\ LiveAfter(cache')[k] \in acked
                               /\ entry' = "None" => cache' = <<>> /\ Nothing \in acked
      PROVE  IInv'
  <2>1. WellFormed(cache')
    BY <1>5, ShapeFacts, SMTT(30)
  <2>2. TypeInv'
    BY <1>1, <2>1, NothingType, EmptyFacts, SMTT(30) DEF TypeInv, Position
  <2>3. ASSUME trust' = "Kept"
        PROVE  KeptInv'
    <3>1. Anchored(cache', cache', acked, k)
      BY <1>1, <1>5, <2>3, SelfAnchored, SMTT(30)
    <3>2. (\E q \in Nat : Anchored(cache, disk, acked, q))'
      BY <1>1, <3>1
    <3> QED
      BY <1>1, <1>5, <2>3, <3>2, SMTT(30) DEF KeptInv
  <2> QED
    BY <2>2, <2>3, SMTT(30) DEF IInv
<1>6. CASE cache' \in Surviving /\ entry' = IF entry = "None" THEN "None" ELSE "Durable"
  <2>1. CASE trust = "Kept"
    <3>1. PICK b \in Nat : Anchored(cache, disk, acked, b)
      BY <2>1 DEF IInv, KeptInv
    <3>2. PICK k \in Nat : Shape(cache', k) /\ LiveAfter(cache')[k] \in acked
      BY <1>2, <1>3, <1>6, <3>1, SurvivorAnchored, SMTT(30)
    <3>3. ASSUME entry' = "None"
          PROVE  cache' = <<>> /\ Nothing \in acked
      <4>1. entry = "None"
        BY <1>6, <3>3, ZenonT(30)
      <4>2. cache = <<>> /\ disk = <<>> /\ Nothing \in acked /\ proc # "Writing"
        BY <2>1, <4>1, ZenonT(30) DEF IInv, KeptInv
      <4>3. Surviving = {<<>>}
        BY <4>2, EmptySurvivors, SMTT(30)
      <4> QED
        BY <1>6, <4>2, <4>3, SMTT(30)
    <3>4. entry' \in {"None", "Durable"}
      BY <1>6
    <3> QED
      BY <1>5, <3>2, <3>3, <3>4, SMTT(30)
  <2>2. CASE trust # "Kept"
    <3>1. 0 \in 0 .. n /\ 0 <= Len(disk) /\ \A i \in 1 .. 0 : disk[i] = cache[i]
      BY <1>3 DEF Shape
    <3>2. PICK k \in Nat : Shape(cache', k)
      BY <1>2, <1>3, <1>6, <3>1, SurvivorFacts, SMTT(30)
    <3>3. entry' \in {"None", "Durable"}
      BY <1>6
    <3> QED
      BY <1>5, <2>2, <3>2, <3>3, SMTT(30)
  <2> QED
    BY <2>1, <2>2, SMTT(30)
<1>7. CASE entry = "Fresh" /\ entry' = "None" /\ cache' = <<>>
  <2>1. Shape(cache', 0)
    BY <1>7, EmptyShape
  <2>2. trust = "Kept" => Nothing \in acked
    BY <1>7 DEF IInv, KeptInv
  <2>3. LiveAfter(cache')[0] = Nothing
    BY <1>7, EmptyFacts, SMTT(30)
  <2> QED
    BY <1>5, <1>7, <2>1, <2>2, <2>3, SMTT(30)
<1>8. CASE entry = "Renamed" /\ entry' = "Durable" /\ cache' = old
  <2>1. Replayed(old) = LiveAfter(old)[o]
    BY <1>4, ShapeFacts, SMTT(30)
  <2>2. trust = "Kept" => Replayed(old) \in acked
    BY <1>8 DEF IInv, KeptInv
  <2> QED
    BY <1>4, <1>5, <1>8, <2>1, <2>2, SMTT(30)
<1> QED
  BY <1>6, <1>7, <1>8, SMTT(30) DEF PowerLoss

-----------------------------------------------------------------------------
(* The theorems. *)

\* The invariant holds throughout.
LEMMA StoreInvariant == Spec => []IInv
<1>1. Init => IInv
  BY InitStep
<1>2. IInv /\ [Next]_vars => IInv'
  <2> SUFFICES ASSUME IInv, [Next]_vars
               PROVE  IInv'
    OBVIOUS
  <2>1. CASE Create
    BY <2>1, CreateStep
  <2>2. CASE SyncCreated
    BY <2>2, SyncCreatedStep
  <2>3. CASE Replay
    BY <2>3, ReplayStep
  <2>4. CASE Rename
    BY <2>4, RenameStep
  <2>5. CASE SyncRenamed
    BY <2>5, SyncRenamedStep
  <2>6. CASE \E o \in Orders, s \in States : Write([order |-> o, state |-> s])
    <3>1. PICK o \in Orders, s \in States : Write([order |-> o, state |-> s])
      BY <2>6, Zenon
    <3>2. [order |-> o, state |-> s] \in Rec
      BY DEF Rec
    <3> QED
      BY <3>1, <3>2, WriteStep, Zenon
  <2>7. CASE Sync
    BY <2>7, SyncStep
  <2>8. CASE Fail
    BY <2>8, FailStep
  <2>9. CASE Close
    BY <2>9, CloseStep
  <2>10. CASE Kill
    BY <2>10, KillStep
  <2>11. CASE PowerLoss
    BY <2>11, PowerLossStep, SMTT(30)
  <2>12. CASE UNCHANGED vars
    BY <2>12 DEF vars, IInv, TypeInv, Position, KeptInv
  <2> QED
    BY <2>1, <2>2, <2>3, <2>4, <2>5, <2>6, <2>7, <2>8, <2>9, <2>10, <2>11, <2>12, Zenon DEF Next
<1> QED
  BY <1>1, <1>2, PTL DEF Spec

\* Whatever kills, power cuts, failed writes and failed repairs do, in whatever
\* order, open never refuses the log (orderstore.cpp, replay and record).
THEOREM StoreNeverRefused == Spec => []NeverRefused
<1>1. IInv => NeverRefused
  BY DEF IInv, TypeInv, NeverRefused
<1> QED
  BY <1>1, StoreInvariant, PTL

\* An open store has every record that was reported written, and beyond them
\* only one it was asked for (orderstore.cpp, open, record and compact).
THEOREM StoreKeepsItsWord == Spec => []OpensToAckedOrTried
<1>1. IInv => OpensToAckedOrTried
  BY DEF IInv, KeptInv, OpensToAckedOrTried
<1> QED
  BY <1>1, StoreInvariant, PTL

=============================================================================
