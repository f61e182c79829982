------------------------------ MODULE SpscRing ------------------------------
(***************************************************************************)
(* The shared-memory ring between two processes (crates/ring/src/lib.rs,   *)
(* and cpp/ring, which is the same protocol): one producer, one consumer,  *)
(* two indices that only grow, and on each side a cached copy of the other *)
(* side's index.  A step is one access to a word the other side uses; the  *)
(* release store of an index publishes the bytes written before it, so a   *)
(* slot holds a whole message or is Torn.                                  *)
(*                                                                         *)
(* A process may be killed at any point.  Its successor opens the ring,    *)
(* which is still there, and takes over the role with fresh caches.        *)
(***************************************************************************)
EXTENDS Integers, Sequences

CONSTANTS
    Capacity,   \* slots of the ring, a power of two (check_geometry)
    Messages,   \* what can be sent
    Torn,       \* the bytes of a slot that holds no whole message
    MaxIndex,   \* bound on the messages pushed
    MaxCrashes  \* bound on the processes killed

ASSUME RingAssumption ==
    /\ Capacity \in Nat \ {0}
    /\ MaxIndex \in Nat
    /\ MaxCrashes \in Nat
    /\ Torn \notin Messages

VARIABLES
    write_index,  \* header word, stored by the producer only
    read_index,   \* header word, stored by the consumer only
    slots,        \* the slots of the mapping
    prod,         \* the producer: where it is in push_with, cached_read, the message
    cons,         \* the consumer: where it is in pop_with, cached_write
    crashes       \* how many processes have been killed

vars == <<write_index, read_index, slots, prod, cons, crashes>>

Contents == Messages \cup {Torn}

\* slot_ptr: the index masked with capacity - 1.
slot_of(index) == index % Capacity

Init ==
    /\ write_index = 0
    /\ read_index = 0
    /\ slots = [n \in 0 .. (Capacity - 1) |-> Torn]
    /\ prod = [pc |-> "idle", cached_read |-> 0, msg |-> Torn]
    /\ cons = [pc |-> "idle", cached_write |-> 0]
    /\ crashes = 0

-----------------------------------------------------------------------------
(***************************************************************************)
(* push_with.  From the moment there is room, fill writes into the slot,   *)
(* which holds no whole message until it returns.                          *)
(***************************************************************************)
\* Mutant of has_room: one message more than there are slots.
has_room_OneTooMany(cached_read) == write_index - cached_read <= Capacity

has_room(cached_read) == write_index - cached_read < Capacity

StartFill(m, cached_read) ==
    /\ prod' = [pc |-> "fill", cached_read |-> cached_read, msg |-> m]
    /\ slots' = [slots EXCEPT ![slot_of(write_index)] = Torn]

PushBegin(m) ==
    /\ prod.pc = "idle"
    /\ write_index < MaxIndex
    /\ IF has_room(prod.cached_read)
       THEN StartFill(m, prod.cached_read)
       ELSE prod' = [prod EXCEPT !.pc = "reload", !.msg = m] /\ UNCHANGED slots
    /\ UNCHANGED <<write_index, read_index, cons, crashes>>

\* The acquire load of readIndex; PushError::Full when there is no room still.
PushReload ==
    /\ prod.pc = "reload"
    /\ IF has_room(read_index)
       THEN StartFill(prod.msg, read_index)
       ELSE prod' = [prod EXCEPT !.pc = "idle", !.cached_read = read_index] /\ UNCHANGED slots
    /\ UNCHANGED <<write_index, read_index, cons, crashes>>

\* fill gave up, or overran the slot: Abandoned or TooLarge, nothing published.
PushAbandon ==
    /\ prod.pc = "fill"
    /\ prod' = [prod EXCEPT !.pc = "idle"]
    /\ UNCHANGED <<write_index, read_index, slots, cons, crashes>>

PushFilled ==
    /\ prod.pc = "fill"
    /\ slots' = [slots EXCEPT ![slot_of(write_index)] = prod.msg]
    /\ prod' = [prod EXCEPT !.pc = "publish"]
    /\ UNCHANGED <<write_index, read_index, cons, crashes>>

PushPublish ==
    /\ prod.pc = "publish"
    /\ write_index' = write_index + 1
    /\ prod' = [prod EXCEPT !.pc = "idle"]
    /\ UNCHANGED <<read_index, slots, cons, crashes>>

-----------------------------------------------------------------------------
(***************************************************************************)
(* pop_with.  The visitor reads the slot in place, and the slot is given   *)
(* back by the store of readIndex after it returned.                       *)
(***************************************************************************)
PopBegin ==
    /\ cons.pc = "idle"
    /\ cons' = [cons EXCEPT !.pc =
                  IF read_index >= cons.cached_write THEN "reload" ELSE "visit"]
    /\ UNCHANGED <<write_index, read_index, slots, prod, crashes>>

\* Mutant of PopReload: an empty cache is taken for an empty ring.
PopReload_KeepsCache ==
    /\ cons.pc = "reload"
    /\ cons' = [cons EXCEPT !.pc = "idle"]
    /\ UNCHANGED <<write_index, read_index, slots, prod, crashes>>

\* The acquire load of writeIndex; None when the ring is empty still.
PopReload ==
    /\ cons.pc = "reload"
    /\ cons' = [pc |-> IF read_index >= write_index THEN "idle" ELSE "visit",
                cached_write |-> write_index]
    /\ UNCHANGED <<write_index, read_index, slots, prod, crashes>>

\* Mutant of PopRelease: everything the cache knows of is given back at once.
PopRelease_Batch ==
    /\ cons.pc = "visit"
    /\ read_index' = cons.cached_write
    /\ cons' = [cons EXCEPT !.pc = "idle"]
    /\ UNCHANGED <<write_index, slots, prod, crashes>>

PopRelease ==
    /\ cons.pc = "visit"
    /\ read_index' = read_index + 1
    /\ cons' = [cons EXCEPT !.pc = "idle"]
    /\ UNCHANGED <<write_index, slots, prod, crashes>>

-----------------------------------------------------------------------------
(***************************************************************************)
(* One end is killed and its successor attaches: open takes the ring as it *)
(* is, into_producer and into_consumer load the other side's index.        *)
(***************************************************************************)
ReattachProducer ==
    /\ crashes < MaxCrashes
    /\ crashes' = crashes + 1
    /\ prod' = [pc |-> "idle", cached_read |-> read_index, msg |-> Torn]
    /\ UNCHANGED <<write_index, read_index, slots, cons>>

ReattachConsumer ==
    /\ crashes < MaxCrashes
    /\ crashes' = crashes + 1
    /\ cons' = [pc |-> "idle", cached_write |-> write_index]
    /\ UNCHANGED <<write_index, read_index, slots, prod>>

Next ==
    \/ \E m \in Messages : PushBegin(m)
    \/ PushReload \/ PushAbandon \/ PushFilled \/ PushPublish
    \/ PopBegin \/ PopReload \/ PopRelease
    \/ ReattachProducer \/ ReattachConsumer

Spec == Init /\ [][Next]_vars

(***************************************************************************)
(* Every process that consumes a ring drains it on each pass of its loop.  *)
(* Nothing obliges a producer to push.                                     *)
(***************************************************************************)
FairSpec == Spec /\ WF_vars(PopBegin) /\ WF_vars(PopReload) /\ WF_vars(PopRelease)

-----------------------------------------------------------------------------
\* Type correctness of the mapping and of the two ends.
TypeOK ==
    /\ write_index \in 0 .. MaxIndex
    /\ read_index \in 0 .. MaxIndex
    /\ slots \in [0 .. (Capacity - 1) -> Contents]
    /\ prod \in [pc : {"idle", "reload", "fill", "publish"},
                 cached_read : 0 .. MaxIndex, msg : Contents]
    /\ cons \in [pc : {"idle", "reload", "visit"}, cached_write : 0 .. MaxIndex]
    /\ crashes \in 0 .. MaxCrashes

(***************************************************************************)
(* "The caches are hints, and a hint is only safe while it is stale low"   *)
(* (spsc.hpp): neither end ever believes the other further on than it is,  *)
(* also after a restart.                                                   *)
(***************************************************************************)
CachesStaleLow ==
    /\ prod.cached_read <= read_index
    /\ cons.cached_write <= write_index

(***************************************************************************)
(* What is published is whole and stays whole until it is given back: no   *)
(* fill, abandoned fill or killed producer touches a slot between the two  *)
(* indices, the one being visited included, and there are never more of    *)
(* them than slots.                                                        *)
(***************************************************************************)
PublishedIntact ==
    /\ read_index <= write_index
    /\ write_index <= read_index + Capacity
    /\ \A i \in read_index .. (write_index - 1) : slots[slot_of(i)] \in Messages
    /\ cons.pc = "visit" => read_index < write_index

(***************************************************************************)
(* The ring is a bounded queue: read through its two indices, the slots    *)
(* are a sequence of messages that only PushPublish extends and only       *)
(* PopRelease shortens, at opposite ends (push_with, pop_with).            *)
(***************************************************************************)
Queue == [i \in 1 .. (write_index - read_index) |-> slots[slot_of(read_index + i - 1)]]

Fifo == INSTANCE BoundedFifo WITH queue <- Queue

ImplementsFifo == Fifo!Spec

(***************************************************************************)
(* What is published is consumed, through any number of restarts that      *)
(* comes to an end: a stale cache delays a message, it never hides one.    *)
(***************************************************************************)
PublishedIsConsumed ==
    \A i \in 1 .. MaxIndex : write_index >= i ~> read_index >= i

=============================================================================
