----------------------------- MODULE ReplayPath -----------------------------
(***************************************************************************)
(* How published datagrams reach the replay service and how a range comes  *)
(* back: the engine's uplink (crates/matching-engine/src/uplink.rs), the   *)
(* service's threads (crates/replay-service/src/main.rs), the protocol     *)
(* between them (protocol.rs) and the consumer's request (client.rs).      *)
(*                                                                         *)
(* The engine never waits for the service: a bounded queue and a writer    *)
(* thread stand between them.  A connection that breaks loses what was in  *)
(* flight; the thread that served it may still be reading when the next    *)
(* connection is served.  Both processes may be restarted.                 *)
(***************************************************************************)
EXTENDS ReplayStore, Sequences

CONSTANTS
    Stream,        \* the datagrams an engine publishes, in order
    QueueDepth,    \* queue_depth
    Ranges,        \* ranges consumers ask for
    MaxConns,      \* bound: connections of the uplink that still carry something
    MaxFaults,     \* bound: breaks and restarts of the service
    MaxEpochs      \* bound: lives of the engine

ASSUME StreamAssumption ==
    /\ Stream \in Seq([first : 1 .. MaxSeq, count : 1 .. MaxSeq])
    /\ \A i \in DOMAIN Stream : End(Stream[i]) <= MaxSeq + 1

\* from and through are u64.
ASSUME RangesAssumption == Ranges \subseteq Nat \X Nat

VARIABLES
    epoch, published,  \* which life of the engine, and how much it has flushed
    queue,             \* between publisher and writer thread
    stream,            \* the writer's connection, 0 for none
    conns,             \* what each connection carries, and whether it still stands
    request,           \* the consumer's request and what has come back
    faults

uplinkVars == <<epoch, published, queue, stream, conns>>
vars == <<storeVars, uplinkVars, request, faults>>

NoConn == [alive |-> FALSE, data |-> <<>>]
NoRequest == [phase |-> "None", from |-> 0, through |-> 0, status |-> "", promised |-> 0,
              rest |-> <<>>, got |-> <<>>]

Init ==
    /\ StoreInit
    /\ epoch = 1 /\ published = 0 /\ queue = <<>> /\ stream = 0
    /\ conns = [c \in 1 .. MaxConns |-> NoConn]
    /\ request = NoRequest
    /\ faults = 0

Fault == faults < MaxFaults /\ faults' = faults + 1

-----------------------------------------------------------------------------
(* The engine's side of the uplink. *)

\* flush hands the datagram to Uplink::offer, which never waits.
Offer ==
    /\ published < Len(Stream)
    /\ published' = published + 1
    /\ LET d == [first |-> Stream[published + 1].first, count |-> Stream[published + 1].count,
                 epoch |-> epoch]
       IN  queue' = IF Len(queue) < QueueDepth THEN Append(queue, d) ELSE queue
    /\ UNCHANGED <<storeVars, epoch, stream, conns, request, faults>>

\* A connection nobody uses any more, for the next one.
Free == {c \in 1 .. MaxConns : conns[c] = NoConn}

Carrying(c, d) ==
    [conns EXCEPT ![c].data = IF conns[c].alive THEN Append(@, d) ELSE @]

\* The writer thread takes a datagram over the connection it has.  A connection
\* that broke may swallow a write before one fails.
Send ==
    /\ queue # <<>> /\ stream # 0
    /\ queue' = Tail(queue)
    /\ \/ conns' = Carrying(stream, Head(queue)) /\ UNCHANGED stream
       \/ ~conns[stream].alive /\ stream' = 0 /\ UNCHANGED conns
    /\ UNCHANGED <<storeVars, epoch, published, request, faults>>

\* It has none and connects first; the datagram that found no service, or whose
\* hello failed, is gone.
Connect ==
    /\ queue # <<>> /\ stream = 0
    /\ queue' = Tail(queue)
    /\ \/ /\ Free # {}
          /\ stream' = Min(Free)
          /\ conns' = [conns EXCEPT ![Min(Free)] = [alive |-> TRUE, data |-> <<Head(queue)>>]]
          /\ UNCHANGED faults
       \/ Fault /\ UNCHANGED <<stream, conns>>
    /\ UNCHANGED <<storeVars, epoch, published, request>>

\* The connection resets: the service may have read any part of what it carried,
\* the last datagram not cut short.
Break(c) ==
    /\ conns[c].alive
    /\ Fault
    /\ \E n \in 0 .. Len(conns[c].data) :
         conns' = [conns EXCEPT ![c] = [alive |-> FALSE, data |-> SubSeq(@.data, 1, n)]]
    /\ UNCHANGED <<storeVars, epoch, published, queue, stream, request>>

\* A new engine numbers from one again.
EngineRestart ==
    /\ epoch < MaxEpochs
    /\ epoch' = epoch + 1 /\ published' = 0 /\ queue' = <<>> /\ stream' = 0
    /\ conns' = [c \in DOMAIN conns |-> [conns[c] EXCEPT !.alive = FALSE]]
    /\ UNCHANGED <<storeVars, request, faults>>

-----------------------------------------------------------------------------
(* The service. *)

\* serve_uplink: each connection's thread files one datagram under the lock.
ServeUplink(c) ==
    /\ conns[c].data # <<>>
    /\ conns' = [conns EXCEPT ![c].data = Tail(@)]
    /\ \/ Duplicate(Head(conns[c].data))
       \/ Push(Head(conns[c].data))
    /\ UNCHANGED <<epoch, published, queue, stream, request, faults>>

\* serve_request: found and copied under one lock.
ServeRequest ==
    /\ request.phase = "Asked"
    /\ LET found == locate(request.from, request.through)
           n == found.end - found.start
       IN  request' = [request EXCEPT
             !.phase = "Answering", !.status = found.status, !.promised = n,
             !.rest = [i \in 1 .. n |-> datagram_at(found.start + i - 1)]]
    /\ UNCHANGED <<storeVars, uplinkVars, faults>>

ServiceRestart ==
    /\ Fault
    /\ slots' = [i \in 0 .. (StoreCapacity - 1) |-> Unused]
    /\ head' = 0 /\ len' = 0 /\ first_sequence' = 0 /\ next_sequence' = 0
    /\ conns' = [c \in DOMAIN conns |-> NoConn]
    /\ request' = IF request.phase \in {"Asked", "Answering"}
                  THEN [request EXCEPT !.phase = "Failed", !.rest = <<>>] ELSE request
    /\ UNCHANGED <<epoch, published, queue, stream>>

-----------------------------------------------------------------------------
(* The consumer. *)

\* request_in_background, one outstanding at a time.
Ask ==
    /\ request.phase = "None"
    /\ \E range \in Ranges :
         request' = [NoRequest EXCEPT !.phase = "Asked", !.from = range[1], !.through = range[2]]
    /\ UNCHANGED <<storeVars, uplinkVars, faults>>

\* Mutant of Receive: a response that ends early is taken for what it is.
Receive_Short ==
    /\ request.phase = "Answering"
    /\ request' = IF request.rest = <<>> THEN [request EXCEPT !.phase = "Returned"]
                  ELSE [request EXCEPT !.rest = Tail(@), !.got = Append(@, Head(request.rest))]
    /\ UNCHANGED <<storeVars, uplinkVars, faults>>

\* client.rs, request: as many datagrams as the header promised.
Receive ==
    /\ request.phase = "Answering"
    /\ request' = CASE Len(request.got) = request.promised -> [request EXCEPT !.phase = "Returned"]
                    [] Len(request.got) # request.promised /\ request.rest = <<>> ->
                          [request EXCEPT !.phase = "Failed"]
                    [] OTHER -> [request EXCEPT !.rest = Tail(@),
                                                !.got = Append(@, Head(request.rest))]
    /\ UNCHANGED <<storeVars, uplinkVars, faults>>

\* The connection is cut, and the reader sees what was sent and then the end;
\* or nothing comes and the read times out.
Cut ==
    /\ request.phase \in {"Asked", "Answering"}
    /\ Fault
    /\ \/ request' = [request EXCEPT !.phase = "Failed", !.rest = <<>>]
       \/ /\ request.phase = "Answering"
          /\ \E n \in 0 .. Len(request.rest) :
               request' = [request EXCEPT !.rest = SubSeq(@, 1, n)]
    /\ UNCHANGED <<storeVars, uplinkVars>>

\* The handler has taken the result.
Taken ==
    /\ request.phase \in {"Returned", "Failed"}
    /\ request' = NoRequest
    /\ UNCHANGED <<storeVars, uplinkVars, faults>>

Next ==
    \/ Offer \/ Send \/ Connect \/ EngineRestart
    \/ \E c \in 1 .. MaxConns : Break(c) \/ ServeUplink(c)
    \/ ServeRequest \/ ServiceRestart
    \/ Ask \/ Receive \/ Cut \/ Taken

Spec == Init /\ [][Next]_vars

-----------------------------------------------------------------------------
\* What a consumer is handed as a served range is that range, whole and in order,
\* whatever became of the store while it was being sent and however the connection
\* ended (serve_request copies under the lock, request counts).
AnswerIsWhole ==
    request.phase = "Returned" /\ request.status = "Ok" =>
        /\ request.got # <<>>
        /\ request.from \in Seqs(Head(request.got))
        /\ request.through \in Seqs(request.got[Len(request.got)])
        /\ \A i \in 1 .. Len(request.got) - 1 : End(request.got[i]) = request.got[i + 1].first

\* The history is one engine's: a store that outlives the engine does not serve
\* the datagrams of two lives as one stream ("a history with a lie in the middle",
\* store.rs push).
HistoryIsOneStream == \A d, f \in held : d.epoch = f.epoch

=============================================================================
