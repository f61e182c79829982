------------------------------ MODULE SeqStore ------------------------------
(***************************************************************************)
(* gateway.seq, the file that holds a FIX session's two sequence numbers:  *)
(* cpp/gateway/src/seqstore.cpp, with what the operating system may do to  *)
(* the file between two of its system calls.                               *)
(*                                                                         *)
(* Both slots lie in one page.  cache is that page as a read sees it, and  *)
(* survives a SIGKILL; disk is what is on the platter, and all that a      *)
(* power cut leaves.  The directory entry that names the file has a        *)
(* durability of its own.                                                  *)
(*                                                                         *)
(* Abstracted: magic, layout and checksum of a record (a slot is either a  *)
(* whole record or not one), and the two counters the class reports.       *)
(***************************************************************************)
EXTENDS Naturals

CONSTANTS MaxGeneration,  \* bound: store calls a file sees
          MaxSkip         \* bound: how far one accept_inbound moves beyond the next number

ASSUME StoreAssumption == MaxGeneration \in Nat /\ MaxSkip \in Nat

VARIABLES proc,        \* where the process is
          seq,         \* seq_: kept, though meaningless, while no process runs
          generation,  \* generation_, likewise
          call,        \* the store call in progress: its pair, and whether it claims
          entry,       \* the directory entry of the file
          cache, disk, \* the two slots
          acked,       \* history: the record of the last store call that succeeded
          tried,       \* history: pairs passed to store since then
          issued,      \* history: the numbers claim_outbound has returned
          trust        \* history: see Open and PowerLoss

vars == <<proc, seq, generation, call, entry, cache, disk, acked, tried, issued, trust>>

\* epoch counts the resets; the file does not record it.
SeqPair == [outbound : Nat \ {0}, inbound : Nat \ {0}, epoch : Nat]
FreshPair == [outbound |-> 1, inbound |-> 1, epoch |-> 0]

\* A slot past the end of the file, one that fails its checksum, a whole record.
Slot == [kind : {"Missing", "Damaged", "Valid"}, generation : Nat, pair : SeqPair]
Missing == [kind |-> "Missing", generation |-> 0, pair |-> FreshPair]
Damaged == [kind |-> "Damaged", generation |-> 0, pair |-> FreshPair]
Record(g, p) == [kind |-> "Valid", generation |-> g, pair |-> p]

NoCall == [pair |-> FreshPair, claims |-> FALSE]

Init ==
    /\ proc = "Down" /\ entry = "None" /\ call = NoCall
    /\ seq = FreshPair /\ generation = 0
    /\ cache = [i \in 0..1 |-> Missing] /\ disk = cache
    /\ acked = Missing /\ tried = {} /\ issued = {} /\ trust = "Kept"

-----------------------------------------------------------------------------
(* open. *)

Valid == {i \in 0..1 : cache[i].kind = "Valid"}

\* Mutant: the first whole slot is taken, whatever its generation.
best_First(i) == i \in Valid /\ \A j \in Valid : j >= i

\* The whole record with the highest generation; the first of two equal ones.
best(i) == i \in Valid /\ \A j \in Valid : /\ cache[j].generation <= cache[i].generation
                                           /\ cache[j].generation = cache[i].generation => j >= i

\* Both slots are read.  A file with none is new; one whose every slot is damaged is
\* refused.
read_slots ==
    \/ \E i \in 0..1 : /\ best(i)
                       /\ proc' = "Ready"
                       /\ seq' = cache[i].pair
                       /\ generation' = cache[i].generation
    \/ /\ Valid = {} /\ \E i \in 0..1 : cache[i].kind # "Missing"
       /\ proc' = "Corrupt"
       /\ UNCHANGED <<seq, generation>>
    \/ /\ \A i \in 0..1 : cache[i].kind = "Missing"
       /\ proc' = "Ready"
       /\ seq' = FreshPair /\ generation' = 0

\* What was read may still be taken away by a power cut: the directory entry, or the
\* record adopted, is not on disk.
Unsynced == entry' # "Durable" \/ \E i \in 0..1 : best(i) /\ disk[i] # cache[i]

Adopt == trust' = IF trust = "Kept" /\ Unsynced THEN "Exposed" ELSE trust

\* The file is there.
Open ==
    /\ proc \in {"Down", "Corrupt"} /\ entry # "None"
    /\ UNCHANGED entry
    /\ read_slots
    /\ Adopt
    /\ UNCHANGED <<call, cache, disk, acked, tried, issued>>

\* The file is not there, and is created ...
Create ==
    /\ proc \in {"Down", "Corrupt"} /\ entry = "None"
    /\ proc' = "Creating" /\ entry' = "Cached"
    /\ UNCHANGED <<seq, generation, call, cache, disk, acked, tried, issued, trust>>

\* ... and its directory synced, which may fail unnoticed, before the slots are read.
SyncDirectory ==
    /\ proc = "Creating"
    /\ entry' \in {"Cached", "Durable"}
    /\ read_slots
    /\ Adopt
    /\ UNCHANGED <<call, cache, disk, acked, tried, issued>>

-----------------------------------------------------------------------------
(* store. *)

\* Mutant: one slot serves for every record.
slot_Fixed == 1

slot == (generation + 1) % 2

\* A write to slot 1 leaves a hole of zeros where slot 0 was never written.
Written(content) ==
    [i \in 0..1 |-> IF i = slot THEN content
                    ELSE IF i < slot /\ cache[i] = Missing THEN Damaged ELSE cache[i]]

\* write_slot up to its pwrite, which may write all, a part, or nothing.
store(next, claims) ==
    /\ proc = "Ready" /\ generation < MaxGeneration
    /\ \/ /\ cache' = Written(Record(generation + 1, next))
          /\ proc' = "Syncing" /\ call' = [pair |-> next, claims |-> claims]
       \/ /\ cache' = Written(Damaged) \/ UNCHANGED cache
          /\ UNCHANGED <<proc, call>>
    /\ tried' = tried \cup {next}
    /\ UNCHANGED <<seq, generation, entry, disk, acked, issued, trust>>

\* Mutant: the number is returned and the pair stored as it was.
claim_outbound_Stale == store(seq, TRUE)

claim_outbound == store([seq EXCEPT !.outbound = @ + 1], TRUE)

accept_inbound == \E n \in seq.inbound..(seq.inbound + MaxSkip) :
                     store([seq EXCEPT !.inbound = n + 1], FALSE)

reset == store([outbound |-> 1, inbound |-> 1, epoch |-> seq.epoch + 1], FALSE)

\* fsync succeeds: the page is on disk, and only now is the pair the object's.
Sync ==
    /\ proc = "Syncing"
    /\ disk' = cache
    /\ proc' = "Ready" /\ call' = NoCall
    /\ seq' = call.pair /\ generation' = generation + 1
    /\ acked' = Record(generation + 1, call.pair) /\ tried' = {}
    /\ issued' = IF call.claims THEN issued \cup {[epoch |-> seq.epoch, n |-> seq.outbound]}
                 ELSE issued
    /\ trust' = IF trust = "Exposed" /\ entry = "Durable" THEN "Kept" ELSE trust
    /\ UNCHANGED <<entry, cache>>

\* What a write-back that gets only part of the way leaves on disk.
Surviving(d) ==
    \A i \in 0..1 : d[i] \in {disk[i], cache[i]} \cup {x \in {Damaged} : disk[i] # cache[i]}

\* fsync fails: how much was written back is anyone's guess.
SyncFails ==
    /\ proc = "Syncing"
    /\ disk' \in [0..1 -> {Damaged} \cup {disk[i] : i \in 0..1} \cup {cache[i] : i \in 0..1}]
    /\ Surviving(disk')
    /\ proc' = "Ready" /\ call' = NoCall
    /\ UNCHANGED <<seq, generation, entry, cache, acked, tried, issued, trust>>

-----------------------------------------------------------------------------
(* The machine. *)

\* The kernel writes the page back in its own time.
WriteBack ==
    /\ disk # cache
    /\ disk' = cache
    /\ UNCHANGED <<proc, seq, generation, call, entry, cache, acked, tried, issued, trust>>

Kill ==
    /\ proc # "Down"
    /\ proc' = "Down" /\ call' = NoCall
    /\ UNCHANGED <<seq, generation, entry, cache, disk, acked, tried, issued, trust>>

\* The page cache is gone, and with it a directory entry that was only there.
PowerLoss ==
    /\ proc' = "Down" /\ call' = NoCall
    /\ \/ /\ disk' \in [0..1 -> {Damaged} \cup {disk[i] : i \in 0..1} \cup {cache[i] : i \in 0..1}]
          /\ Surviving(disk')
          /\ entry' = IF entry = "Cached" THEN "Durable" ELSE entry
       \/ /\ entry = "Cached"
          /\ disk' = [i \in 0..1 |-> Missing] /\ entry' = "None"
    /\ cache' = disk'
    /\ trust' = IF trust = "Exposed" THEN "Taken" ELSE trust
    /\ UNCHANGED <<seq, generation, acked, tried, issued>>

Next ==
    \/ Open \/ Create \/ SyncDirectory
    \/ claim_outbound \/ accept_inbound \/ reset \/ Sync \/ SyncFails
    \/ WriteBack \/ Kill \/ PowerLoss

Spec == Init /\ [][Next]_vars

-----------------------------------------------------------------------------
(* Properties. *)

TypeOK ==
    /\ proc \in {"Down", "Creating", "Ready", "Syncing", "Corrupt"}
    /\ entry \in {"None", "Cached", "Durable"}
    /\ seq \in SeqPair /\ generation \in Nat
    /\ call \in [pair : SeqPair, claims : BOOLEAN]
    /\ cache \in [0..1 -> Slot] /\ disk \in [0..1 -> Slot]
    /\ acked \in Slot /\ tried \in SUBSET SeqPair
    /\ issued \in SUBSET [epoch : Nat, n : Nat \ {0}]
    /\ trust \in {"Kept", "Exposed", "Taken"}

\* i was issued before anything p will issue.
Precedes(i, p) == i.epoch < p.epoch \/ (i.epoch = p.epoch /\ i.n < p.outbound)

\* No number is handed out twice: whatever was killed, torn, failed or cut off, a store
\* that is open will next claim a number above all that claim_outbound has returned
\* since the last reset.  The exception is a power cut that takes away what an open
\* had adopted before it was on disk.
NumbersNeverReissued ==
    trust # "Taken" /\ proc = "Ready" => \A i \in issued : Precedes(i, seq)

\* open never makes a pair up: it is the one of the last store that succeeded, or one
\* that a store called since then was asked to record.
OpensToAckedOrTried ==
    trust # "Taken" /\ proc = "Ready" => seq \in tried \cup {acked.pair}

\* Once a store has succeeded, open never finds both slots damaged.
FallbackAlwaysThere ==
    trust # "Taken" /\ proc = "Corrupt" => acked = Missing

=============================================================================
