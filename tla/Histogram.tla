------------------------------ MODULE Histogram ------------------------------
(***************************************************************************)
(* The latency histogram the feed handler and the benchmarks report from   *)
(* (crates/bench-support/src/histogram.rs): buckets are powers of two,     *)
(* each cut into SUB_BUCKET_COUNT linear slots of which only the upper     *)
(* half is used past the first bucket.  Several histograms are recorded    *)
(* into, merged and cleared; `samples` remembers exactly what each stands  *)
(* for.  A quantile is a fraction here: the rounding of the code's f64     *)
(* product is not modelled.                                                *)
(***************************************************************************)
EXTENDS Integers, FiniteSets, FiniteSetsExt, Functions

CONSTANTS
  Width,             \* bits of a sample: 64
  SUB_BUCKET_BITS,
  Histograms,
  Highests,          \* what Histogram::new may be called with
  Values,            \* the samples
  MaxSamples         \* bound: samples one histogram stands for

VARIABLES
  hist,      \* the histograms
  samples    \* history: how often each value was recorded into, or merged into, each

vars == <<hist, samples>>

MAX == 2^Width - 1
SUB_BUCKET_COUNT == 2^SUB_BUCKET_BITS
SUB_BUCKET_HALF == SUB_BUCKET_COUNT \div 2

\* At the top of the range `new` stops doubling one bucket short, so a highest in
\* the upper half of u64 gets no slots for the values there.
ASSUME HighestAssumption ==
  /\ SUB_BUCKET_BITS \in 1 .. Width - 1
  /\ Highests \subseteq 0 .. MAX \div 2
  /\ Values \subseteq 0 .. MAX

------------------------------------------------------------------------------
\* The loop of `new`, as the number of doublings it takes.
buckets(highest) ==
  Min({n \in 1 .. Width : \/ SUB_BUCKET_COUNT * 2^(n - 1) > highest
                          \/ SUB_BUCKET_COUNT * 2^(n - 1) > MAX \div 2})

new(asked) ==
  LET highest == Max({asked, SUB_BUCKET_COUNT})
  IN  [counts |-> [i \in 0 .. (buckets(highest) + 1) * SUB_BUCKET_HALF - 1 |-> 0],
       highest |-> highest, total |-> 0, overflow |-> 0, min |-> MAX, max |-> 0, sum |-> 0,
       panicked |-> FALSE]

bucket_index(value) == Min({b \in 0 .. Width : value < SUB_BUCKET_COUNT * 2^b})

counts_index(value) ==
  LET bucket == bucket_index(value)
  IN  (bucket + 1) * SUB_BUCKET_HALF + value \div 2^bucket - SUB_BUCKET_HALF

value_from_index(i) ==
  IF i < SUB_BUCKET_COUNT THEN i
  ELSE ((i % SUB_BUCKET_HALF) + SUB_BUCKET_HALF) * 2^(i \div SUB_BUCKET_HALF - 1)

\* Mutant of highest_equivalent: a slot reads back as its lowest value, which
\* makes the system look faster than it was.
highest_equivalent_Lowest(value) ==
  LET unit == 2^bucket_index(value) IN (value \div unit) * unit

highest_equivalent(value) ==
  LET unit == 2^bucket_index(value) IN (value \div unit) * unit + unit - 1

\* The part of `record` that both of its paths do.
Counted(h, value) ==
  [h EXCEPT !.total = @ + 1, !.max = Max({@, value}), !.sum = @ + value]

\* A slot past the end of the array is a panic.
record(h, value) ==
  LET i == counts_index(value)
  IN  CASE value > h.highest -> [Counted(h, value) EXCEPT !.overflow = @ + 1]
        [] value <= h.highest /\ i \notin DOMAIN h.counts -> [h EXCEPT !.panicked = TRUE]
        [] OTHER -> [Counted(h, value) EXCEPT !.counts[i] = @ + 1, !.min = Min({@, value})]

\* The value at num / den.
quantile(h, num, den) ==
  LET rank == Max({1, (num * h.total + den - 1) \div den})
      seen(i) == MapThenSumSet(LAMBDA j : h.counts[j], 0 .. i)
      reached == {i \in DOMAIN h.counts : h.counts[i] # 0 /\ seen(i) >= rank}
  IN  CASE h.total = 0 -> 0
        [] h.total # 0 /\ reached # {} -> highest_equivalent(value_from_index(Min(reached)))
        [] OTHER -> h.max

\* The assertion of merge compares the lengths of the two arrays.
Mergeable(h, other) == DOMAIN h.counts = DOMAIN other.counts

merge(h, other) ==
  [h EXCEPT !.counts = [i \in DOMAIN @ |-> @[i] + other.counts[i]],
            !.total = @ + other.total, !.overflow = @ + other.overflow, !.sum = @ + other.sum,
            !.min = IF other.total > 0 THEN Min({@, other.min}) ELSE @,
            !.max = IF other.total > 0 THEN Max({@, other.max}) ELSE @]

cleared(h) ==
  [h EXCEPT !.counts = [i \in DOMAIN @ |-> 0],
            !.total = 0, !.overflow = 0, !.min = MAX, !.max = 0, !.sum = 0]

------------------------------------------------------------------------------
Init == /\ \E highest \in Highests : hist = [x \in Histograms |-> new(highest)]
        /\ samples = [x \in Histograms |-> [v \in Values |-> 0]]

Record(x, v) ==
  /\ hist[x].total < MaxSamples
  /\ hist' = [hist EXCEPT ![x] = record(@, v)]
  /\ samples' = [samples EXCEPT ![x][v] = @ + 1]

Merge(x, y) ==
  /\ hist[x].total + hist[y].total <= MaxSamples
  /\ Mergeable(hist[x], hist[y])
  /\ hist' = [hist EXCEPT ![x] = merge(@, hist[y])]
  /\ samples' = [samples EXCEPT ![x] = [v \in Values |-> @[v] + samples[y][v]]]

Clear(x) ==
  /\ hist' = [hist EXCEPT ![x] = cleared(@)]
  /\ samples' = [samples EXCEPT ![x] = [v \in Values |-> 0]]

Next ==
  \/ \E x \in Histograms, v \in Values : Record(x, v)
  \/ \E x \in Histograms, y \in Histograms : x # y /\ Merge(x, y)
  \/ \E x \in Histograms : Clear(x)

Spec == Init /\ [][Next]_vars

------------------------------------------------------------------------------
\* How many of the samples s are at most v, and the k-th smallest of them.
AtMost(s, v) == MapThenSumSet(LAMBDA w : s[w], {w \in Values : w <= v})
Exact(s, k) == Min({v \in Values : AtMost(s, v) >= k})

\* Histogram::quantile, however the samples came in and were merged: the value
\* reported at any rank is never below the sample at that rank ("it never claims
\* the system was faster") and above it by at most one part in SUB_BUCKET_HALF;
\* a sample below SUB_BUCKET_COUNT is read back exactly; a rank among the
\* samples that overflowed reads as the largest sample; and no record panics.
QuantilesConservative ==
  \A x \in Histograms :
    /\ ~hist[x].panicked
    /\ \A k \in 1 .. AtMost(samples[x], MAX) :
         LET exact == Exact(samples[x], k)
             read  == quantile(hist[x], k, hist[x].total)
         IN  IF exact > hist[x].highest
             THEN read = Max({v \in Values : samples[x][v] > 0})
             ELSE /\ exact <= read
                  /\ (read - exact) * SUB_BUCKET_HALF <= exact
                  /\ exact < SUB_BUCKET_COUNT => read = exact

=============================================================================
