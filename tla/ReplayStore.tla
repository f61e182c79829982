---------------------------- MODULE ReplayStore ----------------------------
(***************************************************************************)
(* The history the replay service answers from (DatagramStore,             *)
(* crates/replay-service/src/store.rs): a ring of the last datagrams the   *)
(* engine's uplink delivered.  Datagrams are lost before they get here and *)
(* come late, over a connection that has been replaced; the store must     *)
(* stay a history without a hole.                                          *)
(***************************************************************************)
EXTENDS Integers, FiniteSetsExt

CONSTANTS
    MaxSeq,         \* the highest sequence number of the stream
    StoreCapacity   \* slots of the store

End(d) == d.first + d.count

Seqs(d) == d.first .. (End(d) - 1)

ASSUME StoreAssumption ==
    /\ MaxSeq \in Nat
    /\ StoreCapacity \in Nat \ {0}

VARIABLES
    slots,           \* what each slot holds
    head,            \* the slot of the oldest datagram
    len,             \* how many slots are occupied
    first_sequence,  \* first message still held
    next_sequence    \* one past the last message held

storeVars == <<slots, head, len, first_sequence, next_sequence>>

Unused == [first |-> 0, count |-> 0, epoch |-> 0]

StoreInit ==
    /\ slots = [i \in 0 .. (StoreCapacity - 1) |-> Unused]
    /\ head = 0 /\ len = 0
    /\ first_sequence = 0 /\ next_sequence = 0

(***************************************************************************)
(* datagram_at(i): the i-th datagram held, oldest first, counting from 0.  *)
(***************************************************************************)
datagram_at(i) == slots[(head + i) % StoreCapacity]

-----------------------------------------------------------------------------
(***************************************************************************)
(* push: what becomes of the history, then room for the datagram.  It      *)
(* always fits: serve_uplink reads into a buffer of a slot's size.         *)
(***************************************************************************)
restarted(d) == len = 0 \/ d.first > next_sequence

evicts(d) == ~restarted(d) /\ len = StoreCapacity

Duplicate(d) ==
    /\ len > 0
    /\ d.first < next_sequence
    /\ UNCHANGED storeVars

\* Mutant of Push: a hole in the uplink goes unnoticed.
Push_KeepsHistory(d) ==
    /\ len = 0 \/ d.first >= next_sequence
    /\ LET evicted == len = StoreCapacity
           head1 == IF evicted THEN (head + 1) % StoreCapacity ELSE head
           len1 == IF evicted THEN len - 1 ELSE len
       IN  /\ head' = head1
           /\ first_sequence' = CASE len = 0 -> d.first
                                  [] len > 0 /\ evicted -> End(datagram_at(0))
                                  [] len > 0 /\ ~evicted -> first_sequence
           /\ slots' = [slots EXCEPT ![(head1 + len1) % StoreCapacity] = d]
           /\ len' = len1 + 1
           /\ next_sequence' = End(d)

\* At a hole the history starts over in slot 0; an empty store leaves head alone.
Push(d) ==
    /\ len = 0 \/ d.first >= next_sequence
    /\ LET head1 == CASE evicts(d) -> (head + 1) % StoreCapacity
                      [] len > 0 /\ restarted(d) -> 0
                      [] OTHER -> head
           len1 == CASE restarted(d) -> 0
                     [] evicts(d) -> len - 1
                     [] OTHER -> len
       IN  /\ head' = head1
           /\ first_sequence' = CASE restarted(d) -> d.first
                                  [] evicts(d) -> End(datagram_at(0))
                                  [] OTHER -> first_sequence
           /\ slots' = [slots EXCEPT ![(head1 + len1) % StoreCapacity] = d]
           /\ len' = len1 + 1
           /\ next_sequence' = End(d)

-----------------------------------------------------------------------------
(***************************************************************************)
(* locate: the indices [start, end) of the datagrams that cover a range.   *)
(* The scan starts at the first datagram that ends past from and stops at  *)
(* the first that ends past through.                                       *)
(***************************************************************************)
miss(status) == [status |-> status, start |-> 0, end |-> 0]

past(n) == {i \in 0 .. (len - 1) : End(datagram_at(i)) > n}

scan_end(from, through) ==
    IF past(from) \cap past(through) # {}
    THEN Min(past(from) \cap past(through)) + 1
    ELSE len

\* Mutant of locate: a range that ends at next_sequence is taken for complete.
locate_OneTooFar(from, through) ==
    CASE from > through -> miss("BadRequest")
      [] from <= through /\ (len = 0 \/ from < first_sequence) -> miss("TooOld")
      [] from <= through /\ len > 0 /\ from >= first_sequence /\ through > next_sequence ->
            miss("NotYet")
      [] from <= through /\ len > 0 /\ from >= first_sequence /\ through <= next_sequence ->
            IF past(from) = {}
            THEN miss("Incomplete")
            ELSE [status |-> "Ok", start |-> Min(past(from)), end |-> scan_end(from, through)]

locate(from, through) ==
    CASE from > through -> miss("BadRequest")
      [] from <= through /\ (len = 0 \/ from < first_sequence) -> miss("TooOld")
      [] from <= through /\ len > 0 /\ from >= first_sequence /\ through >= next_sequence ->
            miss("NotYet")
      [] from <= through /\ len > 0 /\ from >= first_sequence /\ through < next_sequence ->
            IF past(from) = {}
            THEN miss("Incomplete")
            ELSE [status |-> "Ok", start |-> Min(past(from)), end |-> scan_end(from, through)]

-----------------------------------------------------------------------------
(***************************************************************************)
(* The history has no "lie in the middle" (push): the occupied slots abut, *)
(* oldest first, and the two counters are exactly their ends, through      *)
(* wrap-around, eviction, a restart at a hole and late datagrams.          *)
(***************************************************************************)
HistoryHasNoHole ==
    len > 0 =>
        /\ datagram_at(0).first = first_sequence
        /\ End(datagram_at(len - 1)) = next_sequence
        /\ \A i \in 0 .. (len - 2) : End(datagram_at(i)) = datagram_at(i + 1).first

(***************************************************************************)
(* An answer is exact: a range is served if and only if all of it is held, *)
(* with exactly the datagrams that share a message with it, so it covers   *)
(* the range and nothing is sent in vain; and Incomplete, which "would     *)
(* mean the ring and the sequence counters disagree" (locate), is never    *)
(* the answer.                                                             *)
(***************************************************************************)
held == {datagram_at(i) : i \in 0 .. (len - 1)}

LocateIsExact ==
    \A from, through \in 1 .. (MaxSeq + 1) :
        LET found == locate(from, through)
            served == {datagram_at(i) : i \in found.start .. (found.end - 1)}
        IN  /\ found.status # "Incomplete"
            /\ found.status = "Ok" <=>
                  from <= through /\ from .. through \subseteq UNION {Seqs(d) : d \in held}
            /\ found.status = "Ok" =>
                  served = {d \in held : Seqs(d) \cap (from .. through) # {}}

=============================================================================
