----------------------------- MODULE FixSession -----------------------------
(***************************************************************************)
(* Two FIX 4.4 gateways and the TCP connection between them:               *)
(* cpp/gateway/src/session.cpp at both ends, the connection loop of        *)
(* gateway_main.cpp, and the sequence store as the session sees it.        *)
(*                                                                         *)
(* One end, "I", initiates; the other, "A", accepts.  A handler of the     *)
(* session is an operator on a working record s: the end's fields, plus    *)
(* what the handler has put on the socket so far (s.out) and the result of *)
(* its last call (s.ok).  An action runs one whole handler.                *)
(*                                                                         *)
(* A process can die inside a handler, and a store call can fail.  Both    *)
(* are named by s.fault: the at-th store call of this handler cannot be    *)
(* written, cannot be synced, or is the last thing before or after which   *)
(* the process is killed.  s.cut then records what had left the process.   *)
(*                                                                         *)
(* Abstracted: the text of a message (its type, number and the fields the  *)
(* session reads are kept); the clock (a timer may be due whenever the     *)
(* session would look at it); TestReqID, since a second test request is    *)
(* never sent while one is outstanding; messages without MsgSeqNum or      *)
(* NewSeqNo, which neither end can produce, and with them Reject; and      *)
(* queued_, which the code fills and clears and never reads.               *)
(***************************************************************************)
EXTENDS Naturals, Sequences, SequencesExt, FiniteSets

CONSTANTS ResendRing,   \* messages kept for resending
          MaxApps,      \* [Ends -> application messages it sends]
          MaxConnects,  \* connections
          MaxEvents,    \* timers due, calls of logout, kills and failing store calls,
                        \* taken together
          FaultKinds,   \* what may befall a store call
          Resets        \* the values --reset-seq may take

Ends == {"I", "A"}
Peer(e) == CHOOSE p \in Ends : p # e

Killing == {"KilledBefore", "KilledAfter"}
Refusing == {"CannotWrite", "CannotSync"}
NoFault == [at |-> 0, kind |-> "None"]
\* No handler makes more than four store calls.
Fault == {NoFault} \cup [at : 1..4, kind : FaultKinds]

ASSUME FixAssumption ==
    /\ {ResendRing, MaxConnects, MaxEvents} \subseteq Nat
    /\ MaxApps \in [Ends -> Nat]
    /\ FaultKinds \subseteq Killing \cup Refusing
    /\ Resets \subseteq BOOLEAN

VARIABLES end,        \* [Ends -> the session object and its store]
          open,       \* [Ends -> whether this end holds its socket open]
          chan,       \* [Ends -> messages in flight to it]
          budget,     \* what the environment may still do
          delivered,  \* history: [Ends -> ids of the messages on_app was given]
          ledger,     \* history: [Ends -> its application messages, by number]
          excused,    \* history: [Ends -> ids declined to it, or cut off by a kill]
          store_failed, \* history: some store call has failed
          gapped      \* history: [Ends -> it saw a gap on this connection]

vars == <<end, open, chan, budget, delivered, ledger, excused, gapped, store_failed>>

-----------------------------------------------------------------------------
(* The store: seq is what the object holds, disk what a reopened file      *)
(* yields.  Neither knows its epoch: that is the specification's count of  *)
(* resets, which a Logon asking for one carries to the other end.          *)

store(s, next) ==
    LET at == s.calls + 1
        kind == IF at = s.fault.at THEN s.fault.kind ELSE "None"
        wrote == IF kind = "CannotWrite" THEN s.disk ELSE next
    IN  [s EXCEPT !.calls = at,
                  !.ok = kind \notin Refusing,
                  !.seq = IF kind \in Refusing THEN @ ELSE next,
                  !.disk = wrote,
                  !.cut = CASE kind = "KilledBefore" -> <<[disk |-> s.disk, out |-> s.out]>>
                            [] kind = "KilledAfter" -> <<[disk |-> next, out |-> s.out]>>
                            [] OTHER -> @]

accept_inbound(s, n) == store(s, [s.seq EXCEPT !.inbound = n + 1])

reset(s, epoch) == store(s, [outbound |-> 1, inbound |-> 1, epoch |-> epoch])

-----------------------------------------------------------------------------
(* Outbound. *)

Logon(flag, epoch) == [type |-> "Logon", seq |-> 0, reset |-> flag, epoch |-> epoch]
Heartbeat(answers) == [type |-> "Heartbeat", seq |-> 0, answers |-> answers]
TestRequest == [type |-> "TestRequest", seq |-> 0]
ResendRequest(from) == [type |-> "ResendRequest", seq |-> 0, begin |-> from]
Logout == [type |-> "Logout", seq |-> 0]
App(id) == [type |-> "App", seq |-> 0, id |-> id, possdup |-> FALSE]
GapFill(from, new) == [type |-> "SequenceReset", seq |-> from, new |-> new]

\* The ring keeps the last ResendRing messages, oldest overwritten first.
remember(s, m, administrative) ==
    LET r == Append(s.ring, [m |-> m, administrative |-> administrative])
    IN  [s EXCEPT !.ring = IF Len(r) > ResendRing THEN Tail(r) ELSE r]

\* Mutant: the message is on the socket before its number is on disk.
emit_SendsFirst(s, m, administrative) ==
    LET numbered == [m EXCEPT !.seq = s.seq.outbound]
        t == store([s EXCEPT !.out = Append(@, numbered)], [s.seq EXCEPT !.outbound = @ + 1])
    IN  IF ~t.ok
        THEN [t EXCEPT !.error = "StoreFailure", !.state = "LoggedOut", !.out = s.out]
        ELSE remember(t, numbered, administrative)

emit(s, m, administrative) ==
    LET t == store(s, [s.seq EXCEPT !.outbound = @ + 1])
        numbered == [m EXCEPT !.seq = s.seq.outbound]
    IN  IF ~t.ok
        THEN [t EXCEPT !.error = "StoreFailure", !.state = "LoggedOut"]
        ELSE [remember(t, numbered, administrative) EXCEPT !.out = Append(@, numbered)]

reset_for_new_connection(s) ==
    [s EXCEPT !.state = "Disconnected", !.error = "None", !.test_request_outstanding = FALSE,
              !.reset_requested = FALSE, !.ring = <<>>]

connect(s, reset_sequences) ==
    LET t == IF reset_sequences THEN reset(s, s.seq.epoch + 1) ELSE s
    IN  IF ~t.ok
        THEN [t EXCEPT !.error = "StoreFailure", !.state = "LoggedOut"]
        ELSE [emit([t EXCEPT !.reset_requested = reset_sequences],
                   Logon(reset_sequences, t.seq.epoch), TRUE)
                 EXCEPT !.state = "AwaitingLogon"]

send_test_request(s) ==
    [emit(s, TestRequest, TRUE) EXCEPT !.test_request_outstanding = TRUE]

logout(s) == [emit(s, Logout, TRUE) EXCEPT !.state = "AwaitingLogout"]

fail(s, e) == [emit([s EXCEPT !.error = e], Logout, TRUE) EXCEPT !.state = "LoggedOut"]

-----------------------------------------------------------------------------
(* Inbound. *)

\* What the sequence check answers for a message it keeps from its handler.
hold_back(s) == [s EXCEPT !.ok = FALSE]

\* Mutant: what arrives behind a gap is handed on.
gap_seen_HandedOn(s, m) ==
    IF s.state = "AwaitingResend"
    THEN s
    ELSE hold_back(emit([s EXCEPT !.state = "AwaitingResend"],
                        ResendRequest(s.seq.inbound), TRUE))

\* Mutant: a number above the expected one is taken for the expected one.
gap_seen_Tolerated(s, m) == accept_inbound(s, m.seq)

\* The number is above the expected one.
gap_seen(s, m) ==
    IF s.state = "AwaitingResend"
    THEN hold_back(s)
    ELSE hold_back(emit([s EXCEPT !.state = "AwaitingResend"],
                        ResendRequest(s.seq.inbound), TRUE))

check_sequence(s, m) ==
    LET possdup == m.type = "App" /\ m.possdup
        accepted == accept_inbound(s, m.seq)
    IN  CASE m.seq = s.seq.inbound ->
               IF accepted.ok THEN accepted ELSE hold_back(fail(accepted, "StoreFailure"))
          [] m.seq < s.seq.inbound ->
               IF possdup THEN hold_back(s) ELSE hold_back(fail(s, "SequenceReversal"))
          [] m.seq > s.seq.inbound -> gap_seen(s, m)

handle_logon(s, m, initiator) ==
    LET asked == s.reset_requested
        r == IF m.reset /\ ~asked
             THEN reset([s EXCEPT !.reset_requested = FALSE], m.epoch)
             ELSE [s EXCEPT !.reset_requested = FALSE]
        answered == IF ~initiator /\ r.state = "Disconnected"
                    THEN emit(r, Logon(m.reset, r.seq.epoch), TRUE)
                    ELSE r
        checked == check_sequence(answered, m)
    IN  IF ~r.ok THEN fail(r, "StoreFailure")
        ELSE IF checked.ok THEN [checked EXCEPT !.state = "Active"] ELSE checked

handle_logout(s) ==
    IF s.state = "AwaitingLogout"
    THEN [s EXCEPT !.state = "LoggedOut"]
    ELSE [emit(s, Logout, TRUE) EXCEPT !.state = "LoggedOut"]

\* recall, and the test that what it found may be resent.
held(s, n) == {r \in Range(s.ring) : r.m.seq = n /\ ~r.administrative}

handle_resend_request(s, m) ==
    LET to == s.seq.outbound - 1
        gap_filled(acc, upto) ==
            IF acc.gap_start = 0 THEN acc.out ELSE Append(acc.out, GapFill(acc.gap_start, upto))
        walk(acc, n) ==
            IF held(s, n) = {}
            THEN [acc EXCEPT !.gap_start = IF @ = 0 THEN n ELSE @]
            ELSE LET original == (CHOOSE r \in held(s, n) : TRUE).m
                 IN  [gap_start |-> 0,
                      out |-> Append(gap_filled(acc, n), [original EXCEPT !.possdup = TRUE])]
        done == FoldLeft(walk, [gap_start |-> 0, out |-> s.out],
                         [i \in 1..(to + 1 - m.begin) |-> m.begin + i - 1])
    IN  [s EXCEPT !.out = gap_filled(done, to + 1)]

\* Mutant: NewSeqNo is taken for the last number filled.
handle_sequence_reset_OneTooFar(s, m) ==
    LET t == accept_inbound(s, m.new)
    IN  [t EXCEPT !.state = IF @ = "AwaitingResend" THEN "Active" ELSE @]

\* Mutant: the gap fill moves the number and the session keeps waiting.
handle_sequence_reset_StaysWaiting(s, m) ==
    IF m.new < s.seq.inbound THEN fail(s, "BackwardsSequenceReset")
    ELSE accept_inbound(s, m.new - 1)

handle_sequence_reset(s, m) ==
    LET t == accept_inbound(s, m.new - 1)
    IN  IF m.new < s.seq.inbound THEN fail(s, "BackwardsSequenceReset")
        ELSE IF ~t.ok THEN fail(t, "StoreFailure")
        ELSE [t EXCEPT !.state = IF @ = "AwaitingResend" THEN "Active" ELSE @]

\* s.ok tells on_app whether the message got past the sequence check.
on_message(s, m, initiator) ==
    LET c == check_sequence(s, m)
    IN  CASE m.type = "Logon" -> handle_logon(s, m, initiator)
          [] m.type # "Logon" /\ s.state = "Disconnected" -> [s EXCEPT !.ok = FALSE]
          [] m.type = "SequenceReset" /\ s.state # "Disconnected" -> handle_sequence_reset(s, m)
          [] OTHER ->
               IF ~c.ok THEN c
               ELSE CASE m.type = "Heartbeat" ->
                           [c EXCEPT !.test_request_outstanding = @ /\ ~m.answers]
                      [] m.type = "TestRequest" -> emit(c, Heartbeat(TRUE), TRUE)
                      [] m.type = "ResendRequest" -> handle_resend_request(c, m)
                      [] m.type = "Logout" -> handle_logout(c)
                      [] m.type = "App" -> c

\* heartbeat: the interval has passed since the last send; quiet: since the last
\* message, the time this state allows has passed.
on_timer(s, heartbeat, quiet) ==
    LET b == IF heartbeat THEN emit(s, Heartbeat(FALSE), TRUE) ELSE s
    IN  IF ~quiet THEN b
        ELSE IF b.test_request_outstanding
        THEN [b EXCEPT !.error = "Unresponsive", !.state = "LoggedOut"]
        ELSE send_test_request(b)

-----------------------------------------------------------------------------
(* The process around the session. *)

Session(seq) ==
    [state |-> "Disconnected", error |-> "None", test_request_outstanding |-> FALSE,
     reset_requested |-> FALSE, ring |-> <<>>, seq |-> seq, disk |-> seq, draining |-> FALSE]

Begin(s, f) == s @@ [out |-> <<>>, ok |-> TRUE, calls |-> 0, fault |-> f, cut |-> <<>>]

Rest(s) == [f \in DOMAIN end["I"] |-> s[f]]

FirstUse == [outbound |-> 1, inbound |-> 1, epoch |-> 0]

Init ==
    /\ end = [e \in Ends |-> Session(FirstUse)]
    /\ open = [e \in Ends |-> FALSE]
    /\ chan = [e \in Ends |-> <<>>]
    /\ budget = [connects |-> MaxConnects, events |-> MaxEvents, apps |-> MaxApps]
    /\ delivered = [e \in Ends |-> <<>>]
    /\ ledger = [e \in Ends |-> {}]
    /\ excused = [e \in Ends |-> {}]
    /\ gapped = [e \in Ends |-> FALSE]
    /\ store_failed = FALSE

\* What is written to a socket whose other end is gone is lost.
InFlight(e, out) == IF open[Peer(e)] THEN chan[Peer(e)] \o out ELSE <<>>

\* e's socket closes: what it had not read is gone, and of what it had sent the
\* other end may still read any part from the front, what it holds in its inbox
\* at least.
Hangup(e, out) ==
    /\ open' = [open EXCEPT ![e] = FALSE]
    /\ \E n \in (IF end[Peer(e)].draining THEN 1 ELSE 0)..Len(InFlight(e, out)) :
          chan' = [x \in Ends |-> IF x = e THEN <<>> ELSE SubSeq(InFlight(e, out), 1, n)]

\* The handler that made s of end e, which has read its input up to inbox, is
\* over: it ran to its end, or was killed at the store call its fault names.
Finish(e, s, inbox) ==
    /\ s.fault.at <= s.calls
    /\ IF s.cut = <<>>
       THEN /\ end' = [end EXCEPT ![e] = Rest(s)]
            /\ chan' = [chan EXCEPT ![e] = inbox, ![Peer(e)] = InFlight(e, s.out)]
            /\ gapped' = [gapped EXCEPT ![e] = @ \/ s.state = "AwaitingResend"]
            /\ UNCHANGED open
       ELSE /\ end' = [end EXCEPT ![e] = Session(s.cut[1].disk)]
            /\ Hangup(e, s.cut[1].out)
            /\ UNCHANGED gapped

Spend(b, f) ==
    /\ f # NoFault => b.events > 0
    /\ budget' = IF f = NoFault THEN b ELSE [b EXCEPT !.events = @ - 1]
    /\ store_failed' = (store_failed \/ f.kind \in Refusing)

Usable == {f \in Fault : f = NoFault \/ budget.events > 0}

-----------------------------------------------------------------------------
(* The initiator starts, opens its store and connects; the acceptor, back  *)
(* from its last connection, accepts.                                      *)
Connect(reset_seq, f) ==
    LET i == Begin(reset_for_new_connection([end["I"] EXCEPT !.seq = end["I"].disk]), f)
        s == connect(i, reset_seq)
        a == Rest(reset_for_new_connection(end["A"]))
    IN  /\ budget.connects > 0
        /\ \A e \in Ends : ~open[e]
        /\ s.fault.at <= s.calls
        /\ IF s.cut = <<>>
           THEN /\ end' = [I |-> Rest(s), A |-> a]
                /\ open' = [e \in Ends |-> TRUE]
                /\ chan' = [I |-> <<>>, A |-> s.out]
           ELSE /\ end' = [I |-> Session(s.cut[1].disk), A |-> end["A"]]
                /\ UNCHANGED <<open, chan>>
        /\ gapped' = [e \in Ends |-> FALSE]
        /\ Spend([budget EXCEPT !.connects = @ - 1], f)
        /\ UNCHANGED <<delivered, ledger, excused>>

\* One message out of the inbox, through on_message and on_app.  drain goes through
\* all that one read brought (more: the next message came with it) before the loop
\* looks at finished() again, so a session that is LoggedOut may still be fed.
Receive(e, more, f) ==
    LET m == Head(chan[e])
        s == on_message(Begin([end[e] EXCEPT !.draining = more], f), m, e = "I")
        reached_app == m.type = "App" /\ s.ok
        declined == {a.id : a \in {x \in ledger[Peer(e)] :
                        m.type = "SequenceReset" /\ x.epoch = end[e].seq.epoch
                        /\ x.seq \in m.seq..(m.new - 1)}}
        cut_off == IF reached_app /\ f.kind = "KilledAfter" THEN {m.id} ELSE {}
    IN  /\ open[e] /\ chan[e] # <<>>
        /\ end[e].draining \/ end[e].state # "LoggedOut"
        /\ more => Len(chan[e]) > 1
        /\ Finish(e, s, Tail(chan[e]))
        /\ delivered' = IF reached_app /\ s.cut = <<>>
                        THEN [delivered EXCEPT ![e] = Append(@, m.id)] ELSE delivered
        /\ excused' = [excused EXCEPT ![e] = @ \cup declined \cup cut_off]
        /\ Spend(budget, f)
        /\ UNCHANGED ledger

Timer(e, heartbeat, quiet, f) ==
    /\ open[e] /\ ~end[e].draining /\ budget.events > 0
    /\ end[e].state \notin {"Disconnected", "LoggedOut"}
    /\ heartbeat \/ quiet
    /\ Finish(e, on_timer(Begin(end[e], f), heartbeat, quiet), chan[e])
    /\ Spend([budget EXCEPT !.events = @ - 1], f)
    /\ UNCHANGED <<delivered, ledger, excused>>

\* send_application, which refuses unless the session is Active.  The loop calls it,
\* and so does the router, from on_app.
SendApplication(e, f) ==
    LET id == MaxApps[e] + 1 - budget.apps[e]
        s == emit(Begin(end[e], f), App(id), FALSE)
    IN  /\ open[e] /\ budget.apps[e] > 0
        /\ end[e].state = "Active"
        /\ Finish(e, s, chan[e])
        /\ ledger' = IF ~s.ok \/ f.kind = "KilledBefore" THEN ledger
                     ELSE [ledger EXCEPT ![e] = @ \cup {[id |-> id, seq |-> end[e].seq.outbound,
                                                         epoch |-> end[e].seq.epoch]}]
        /\ Spend([budget EXCEPT !.apps[e] = @ - 1], f)
        /\ UNCHANGED <<delivered, excused>>

CallLogout(e, f) ==
    /\ open[e] /\ ~end[e].draining /\ budget.events > 0
    /\ end[e].state = "Active"
    /\ Finish(e, logout(Begin(end[e], f)), chan[e])
    /\ Spend([budget EXCEPT !.events = @ - 1], f)
    /\ UNCHANGED <<delivered, ledger, excused>>

\* The loop sees finished() and leaves, closing the socket.
LeaveFinished(e) ==
    /\ open[e] /\ ~end[e].draining /\ end[e].state = "LoggedOut"
    /\ Hangup(e, <<>>)
    /\ UNCHANGED <<end, budget, delivered, ledger, excused, gapped, store_failed>>

\* read_some finds the other end closed and nothing left to read.
PeerClosed(e) ==
    /\ open[e] /\ ~open[Peer(e)] /\ chan[e] = <<>>
    /\ open' = [open EXCEPT ![e] = FALSE]
    /\ UNCHANGED <<end, chan, budget, delivered, ledger, excused, gapped, store_failed>>

\* SIGKILL between two handlers.  The store is reopened from the file.
Kill(e) ==
    /\ open[e] \/ end[e].seq # end[e].disk
    /\ budget.events > 0
    /\ end' = [end EXCEPT ![e] = Session(end[e].disk)]
    /\ Hangup(e, <<>>)
    /\ budget' = [budget EXCEPT !.events = @ - 1]
    /\ UNCHANGED <<delivered, ledger, excused, gapped, store_failed>>

Next ==
    \/ \E f \in Usable :
          \/ \E r \in Resets : Connect(r, f)
          \/ \E e \in Ends :
                \/ \E more \in BOOLEAN : Receive(e, more, f)
                \/ \E heartbeat, quiet \in BOOLEAN : Timer(e, heartbeat, quiet, f)
                \/ SendApplication(e, f)
                \/ CallLogout(e, f)
    \/ \E e \in Ends : LeaveFinished(e) \/ PeerClosed(e) \/ Kill(e)

Spec == Init /\ [][Next]_vars

-----------------------------------------------------------------------------
(* Properties. *)

\* An application message is handed to on_app at most once and in the order it was
\* sent, whatever is resent, gap-filled, killed or reconnected (session.hpp: the
\* caller never sees "one out of sequence ... or a duplicate").
DeliveredInOrderOnce ==
    \A e \in Ends : \A i, j \in DOMAIN delivered[e] : i < j => delivered[e][i] < delivered[e][j]

\* The two ends have made the same resets, so a number means the same to both.
SameEpoch == end["I"].seq.epoch = end["A"].seq.epoch

\* The application messages end e's expected number has passed.
Passed(e) == {a.id : a \in {x \in ledger[Peer(e)] : /\ x.epoch = end[e].seq.epoch
                                                    /\ x.seq < end[e].seq.inbound}}

\* A number never just vanishes: once an end expects a number above an application
\* message's, it was given that message, or a gap fill named its number, or the
\* process was killed between accepting it and handing it on.  A store call that
\* fails is the exception.
NothingVanishes ==
    SameEpoch /\ ~store_failed
        => \A e \in Ends : Passed(e) \subseteq Range(delivered[e]) \cup excused[e]

\* Two gateways never accuse each other: neither a kill nor a lost tail leads to the
\* fatal reversal or a backwards reset, as long as the acceptor knows of every reset
\* the initiator made and no store call failed.
NoReversal ==
    SameEpoch /\ ~store_failed
        => \A e \in Ends : end[e].error \notin {"SequenceReversal", "BackwardsSequenceReset"}

Quiet == \A e \in Ends : open[e] /\ chan[e] = <<>>

\* When both ends are Active and nothing is in flight, each expects exactly the
\* number the other will send next.
AgreeWhenQuiet ==
    Quiet /\ (\A e \in Ends : end[e].state = "Active")
        => \A e \in Ends : end[e].seq.inbound = end[Peer(e)].seq.outbound

Waiting(e) == open[e] /\ end[e].state = "AwaitingResend"

\* A gap that only one side saw is closed: once everything in flight has been
\* handled, an end still waiting for a resend is one whose peer saw a gap as well.
OneGapCloses ==
    Quiet /\ ~store_failed => \A e \in Ends : Waiting(e) => gapped[Peer(e)]

\* A resend request arriving during a resend is queued, and so answered in the end:
\* with nothing in flight, nobody is still waiting for a resend.
CrossedRequestIsServed ==
    Quiet => \A e \in Ends : ~Waiting(e)

=============================================================================
