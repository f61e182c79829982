----------------------------- MODULE OrderStore -----------------------------
(***************************************************************************)
(* The gateway's log of order state (cpp/gateway/src/orderstore.cpp): an   *)
(* append-only file of records, replayed and compacted when it is opened.  *)
(*                                                                         *)
(* A file is a sequence of records.  cache is the file as a read sees it,  *)
(* and survives a SIGKILL; disk is what an fsync has put on the platter.   *)
(* A compaction renames a new file over the old one, and until the         *)
(* directory is synced a power cut may bring the old one back.  A failed   *)
(* fsync of the directory, which the code ignores, is left out.            *)
(*                                                                         *)
(* Abstracted: the fields of a record but its order, state and number; a   *)
(* record cut short and one of full length that does not verify are both   *)
(* Bad, as replay treats a last record of either kind alike.               *)
(***************************************************************************)
EXTENDS Naturals, SequencesExt

CONSTANTS
  Orders,       \* client order ids
  MaxRecords,   \* bound: the records a log holds
  MaxFaults     \* bound: kills, power cuts and failed writes

\* An id is a u64.
ASSUME OrdersAssumption == IsFiniteSet(Orders)

VARIABLES
  proc,         \* where the process is
  live,         \* live_, the state of every working order
  count,        \* replayed_ + written_: the records up to the write position
  call,         \* the record being written
  entry,        \* what names the log: None, Fresh (not synced), Renamed (likewise), Durable
  cache, disk,  \* the log
  old,          \* the file a rename replaced, as it is on the platter
  faults,       \* faults so far
  acked,        \* history: the live sets an honest open may come back with
  trust         \* history: "Exposed" once opened under a name that was not synced

vars == <<proc, live, count, call, entry, cache, disk, old, faults, acked, trust>>

States == {"Pending", "Live", "Filled"}
Bad == [ok |-> FALSE]
Record(seq, rec) == [ok |-> TRUE, sequence |-> seq, rec |-> rec]
Nothing == [o \in {} |-> ""]
NoCall == [order |-> 0, state |-> ""]

Init ==
  /\ proc = "Down" /\ entry = "None"
  /\ live = Nothing /\ count = 0 /\ call = NoCall
  /\ cache = <<>> /\ disk = <<>> /\ old = <<>>
  /\ faults = 0 /\ acked = {Nothing} /\ trust = "Kept"

------------------------------------------------------------------------------
\* OrderStore::apply: a terminal record ends the order.
apply(l, rec) ==
  LET rest == DOMAIN l \ {rec.order}
  IN  IF rec.state \in {"Pending", "Live"}
      THEN [o \in rest \cup {rec.order} |-> IF o = rec.order THEN rec.state ELSE l[o]]
      ELSE [o \in rest |-> l[o]]

\* The records replay takes: all but a last one that does not verify.
Sound(log) == IF log # <<>> /\ ~Last(log).ok THEN Front(log) ELSE log

\* live_ as replay goes through the log, a record at a time.
LiveAfter(log) ==
  LET after[n \in 0 .. Len(log)] ==
        IF n = 0 THEN Nothing ELSE apply(after[n - 1], log[n].rec)
  IN  after

Replayed(log) == LiveAfter(log)[Len(Sound(log))]

\* Damage before the end, or numbers that do not count up from one.
Corrupt(log) ==
  \E i \in DOMAIN Sound(log) : ~log[i].ok \/ log[i].sequence # i

\* The log a compaction writes: the live set, numbered from one.
Compacted(l) ==
  LET os == SetToSeq(DOMAIN l)
  IN  [i \in 1 .. Len(os) |-> Record(i, [order |-> os[i], state |-> l[os[i]]])]

------------------------------------------------------------------------------
(* open. *)

Create ==
  /\ proc = "Down" /\ entry = "None"
  /\ proc' = "Created" /\ entry' = "Fresh"
  /\ cache' = <<>> /\ disk' = <<>>
  /\ UNCHANGED <<live, count, call, old, faults, acked, trust>>

SyncCreated ==
  /\ proc = "Created"
  /\ proc' = "Ready" /\ entry' = "Durable"
  /\ live' = Nothing /\ count' = 0
  /\ UNCHANGED <<call, cache, disk, old, faults, acked, trust>>

\* replay, and what compact decides: a log that is exactly its live set is
\* left alone.
Replay ==
  /\ proc = "Down" /\ entry # "None"
  /\ IF Corrupt(cache) THEN proc' = "Refused" /\ UNCHANGED <<live, count>>
     ELSE LET l == Replayed(cache)
          IN  /\ live' = l
              /\ count' = Len(Sound(cache))
              /\ proc' = IF count' = Cardinality(DOMAIN l) /\ Sound(cache) = cache
                         THEN "Ready" ELSE "Compacting"
  /\ trust' = IF entry = "Durable" THEN trust ELSE "Exposed"
  /\ UNCHANGED <<call, entry, cache, disk, old, faults, acked>>

\* Mutant of Rename: the new file takes the name before it is synced.
Rename_Unsynced ==
  /\ proc = "Compacting"
  /\ old' = disk
  /\ cache' = Compacted(live) /\ disk' = <<>>
  /\ entry' = "Renamed" /\ proc' = "Renamed"
  /\ UNCHANGED <<live, count, call, faults, acked, trust>>

\* compact up to the rename: the live set, written and synced beside the log.
Rename ==
  /\ proc = "Compacting"
  /\ old' = disk
  /\ cache' = Compacted(live) /\ disk' = cache'
  /\ entry' = "Renamed" /\ proc' = "Renamed"
  /\ UNCHANGED <<live, count, call, faults, acked, trust>>

\* The directory is synced and the new file opened at its end.
SyncRenamed ==
  /\ proc = "Renamed"
  /\ proc' = "Ready" /\ entry' = "Durable"
  /\ old' = <<>>
  /\ count' = Len(cache)
  /\ UNCHANGED <<live, call, cache, disk, faults, acked, trust>>

------------------------------------------------------------------------------
(* record. *)

\* Mutant of Written: the position is not taken back after a failure.
Written_AtEnd(what) == Append(cache, what)

\* The file with a record written at the write position: over whatever an
\* earlier failure left there.
Written(what) == Append(SubSeq(cache, 1, count), what)

Write(rec) ==
  /\ proc = "Ready" /\ count < MaxRecords
  /\ cache' = Written(Record(count + 1, rec))
  /\ call' = rec /\ proc' = "Writing"
  /\ acked' = acked \cup {apply(live, rec)}
  /\ UNCHANGED <<live, count, entry, disk, old, faults, trust>>

\* The fsync succeeds, and the caller may send.
Sync ==
  /\ proc = "Writing"
  /\ disk' = cache
  /\ count' = count + 1
  /\ live' = apply(live, call) /\ acked' = {live'}
  /\ call' = NoCall /\ proc' = "Ready"
  /\ UNCHANGED <<entry, cache, old, faults, trust>>

Fault == faults < MaxFaults /\ faults' = faults + 1

\* What a cut that catches part of a write-back can leave of the log.
Surviving ==
  LET same == CHOOSE n \in 0 .. Len(cache) :
                /\ IsPrefix(SubSeq(cache, 1, n), disk)
                /\ \A m \in n + 1 .. Len(cache) : ~IsPrefix(SubSeq(cache, 1, m), disk)
      kept == {SubSeq(cache, 1, n) : n \in same .. Len(cache)}
  IN  {disk} \cup kept \cup {Append(k, Bad) : k \in kept \ {cache}}

\* The write stops short or the fsync fails, and record undoes it: the file is
\* cut back, unless that fails too, and its end is where the record began.
Fail ==
  /\ proc = "Writing" /\ Fault
  /\ \E left \in {SubSeq(cache, 1, count), Written(Bad), cache} :
       /\ cache' = left
       /\ disk' \in Surviving \cup {left}
  /\ call' = NoCall /\ proc' = "Ready"
  /\ UNCHANGED <<live, count, entry, old, acked, trust>>

------------------------------------------------------------------------------
(* What ends a process. *)

Stopped == proc' = "Down" /\ live' = Nothing /\ count' = 0 /\ call' = NoCall

Close ==
  /\ proc = "Ready"
  /\ Stopped
  /\ UNCHANGED <<entry, cache, disk, old, faults, acked, trust>>

\* SIGKILL, or an error open returns; a write under way may be cut short.
Kill ==
  /\ proc \notin {"Down", "Refused"} /\ Fault
  /\ Stopped
  /\ \/ UNCHANGED cache
     \/ proc = "Writing" /\ cache' = Written(Bad)
  /\ UNCHANGED <<entry, disk, old, acked, trust>>

PowerLoss ==
  /\ proc # "Refused" /\ Fault
  /\ Stopped
  /\ \/ /\ cache' \in Surviving
        /\ entry' = IF entry = "None" THEN "None" ELSE "Durable"
     \/ entry = "Fresh" /\ entry' = "None" /\ cache' = <<>>
     \/ entry = "Renamed" /\ entry' = "Durable" /\ cache' = old
  /\ disk' = cache' /\ old' = <<>>
  /\ UNCHANGED <<acked, trust>>

Next ==
  \/ Create \/ SyncCreated \/ Replay \/ Rename \/ SyncRenamed
  \/ \E o \in Orders, s \in States : Write([order |-> o, state |-> s])
  \/ Sync \/ Fail \/ Close \/ Kill \/ PowerLoss

Spec == Init /\ [][Next]_vars

------------------------------------------------------------------------------
\* A store that is open has every record that record() ever reported written,
\* and nothing but a record it was asked for beyond them: the tail it discards
\* is never one that was acted on (orderstore.cpp, replay and record).
OpensToAckedOrTried ==
  proc \in {"Ready", "Writing"} /\ trust = "Kept" => live \in acked

\* No sequence of kills, power cuts, failed writes and failed repairs leaves a
\* log that open refuses for good, which is what record's rollback is for.
NeverRefused == proc # "Refused"

=============================================================================
