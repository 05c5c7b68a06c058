---------------------------- MODULE StreamTable ------------------------------
(* The stream tables of a client and a server: opening, counting, limiting   *)
(* and releasing the streams of one type that the client initiates.          *)
(* Streams of the four types share the code and not the state, so a stream   *)
(* is its number, stream_id >> 2.  The data of one direction of a stream is  *)
(* one STREAM frame with FIN; RESET_STREAM may take its place.  Frames are   *)
(* delayed, reordered and, as the out-queue retransmits, repeated.           *)
EXTENDS Integers, FiniteSets

CONSTANTS
    Kinds,          \* which streams to look at: unidirectional (TRUE), bidirectional (FALSE)
    max_streams,    \* initial_max_streams the server advertises
    Wanted,         \* the number of streams the client opens
    Jump,           \* the most streams the client opens in one call
    Resettable,     \* streams whose sending part an application may reset
    Repeated,       \* streams whose STREAM and RESET_STREAM frames may be repeated ...
    RepeatedTo,     \* ... to these endpoints
    MaxFail         \* how many allocations, of a MAX_STREAMS frame or a stream, may fail

ASSUME StreamAssumption ==
    /\ max_streams \in Nat \ {0} /\ Wanted \in Nat \ {0} /\ Jump \in Nat \ {0} /\ MaxFail \in Nat
    /\ Kinds \subseteq BOOLEAN /\ Resettable \subseteq Nat /\ Repeated \subseteq Nat
    /\ RepeatedTo \subseteq {"client", "server"}

VARIABLES
    tab,        \* tab[e][n]: stream n at endpoint e, or none
    next,       \* next[e]: the next stream to be opened (next_bidi/uni_stream_id)
    max,        \* max[e]: the highest stream allowed (max_bidi/uni_stream_id)
    streams,    \* streams[e]: the number of open streams (streams_bidi/uni)
    pending,    \* the server owes a MAX_STREAMS frame (bidi/uni_pending)
    wait,       \* the stream quic_wait_for_stream waits for, or nobody
    awake,      \* the waiter was woken since it last looked
    failed,     \* the number of allocations that failed
    net,        \* frames on their way
    uni         \* the streams are unidirectional; this does not change

vars == <<tab, next, max, streams, pending, wait, awake, failed, net, uni>>

\* What only packets change.
limits == <<max, pending, failed>>

nobody == -1
Ids == 0 .. Wanted - 1
Ends == {"client", "server"}
peer(e) == IF e = "client" THEN "server" ELSE "client"
none == [send |-> "NONE", recv |-> "NONE", done |-> FALSE]

SendStates == {"READY", "SENT", "RECVD", "RESET_SENT", "RESET_RECVD"}
RecvStates == {"RECV", "RECVD", "READ", "RESET_RECVD"}
Stream == [send : SendStates, recv : RecvStates, done : BOOLEAN]

Frame ==
    [t : {"fin", "fin_ack", "reset", "reset_ack"}, to : Ends, n : Ids]
    \cup [t : {"max_streams"}, v : 1 .. Wanted + max_streams]

\* Every variable has its type; no stream counter goes below zero and no frame names a
\* limit beyond the streams opened plus the window (the counters of stream.h:66-87).
TypeOK ==
    /\ tab \in [Ends -> [Ids -> Stream \cup {none}]]
    /\ next \in [Ends -> Nat] /\ max \in [Ends -> Int] /\ streams \in [Ends -> Nat]
    /\ {pending, awake, uni} \subseteq BOOLEAN
    /\ wait \in Ids \cup {nobody} /\ failed \in 0 .. MaxFail
    /\ net \subseteq Frame
-----------------------------------------------------------------------------
(* Opening: quic_stream_create opens every stream up to n. *)
fresh == [send |-> "READY", recv |-> "RECV", done |-> FALSE]

Opened(e, n) == [k \in Ids |-> IF next[e] <= k /\ k <= n THEN fresh ELSE tab[e][k]]

\* Faulty: only the open streams are counted.
ExceedsByCount(n) == n - next["client"] + 1 + streams["client"] > max_streams

\* quic_stream_id_exceeds for the client.
exceeds(n) == n > max["client"] \/ n - next["client"] + 1 + streams["client"] > max_streams

\* The opening thread looks for stream n: at the call, and each time it is woken.
Looks(n) ==
    /\ awake
    /\ wait = n \/ (wait = nobody /\ n \in next["client"] .. next["client"] + Jump - 1)

\* quic_sock_send_stream with MSG_QUIC_STREAM_NEW.
Open(n) ==
    /\ Looks(n) /\ ~exceeds(n)
    /\ wait' = nobody
    /\ tab' = [tab EXCEPT !["client"] = Opened("client", n)]
    /\ streams' = [streams EXCEPT !["client"] = @ + n - next["client"] + 1]
    /\ next' = [next EXCEPT !["client"] = n + 1]
    /\ UNCHANGED <<limits, awake, net, uni>>

\* The same at the limit: the thread sleeps.  quic_sock_stream_available would send
\* STREAMS_BLOCKED with MSG_QUIC_STREAM_SNDBLOCK, a flag that quic_msghdr_parse and
\* quic_sock_stream_open reject: the frame is never sent.
Block(n) ==
    /\ Looks(n) /\ exceeds(n)
    /\ wait' = n /\ awake' = FALSE
    /\ UNCHANGED <<tab, next, streams, limits, net, uni>>
-----------------------------------------------------------------------------
(* Releasing: quic_stream_put on stream st at endpoint e, for the sending    *)
(* or the receiving part.                                                    *)
ended(st) == st.send \in {"RECVD", "RESET_RECVD"}
received(st) == st.recv \in {"RECVD", "READ", "RESET_RECVD"}

\* Faulty: only the end of the receiving part releases a stream.
ReleasesOnRecv(st, send) ==
    IF uni THEN TRUE ELSE IF send THEN FALSE ELSE ended(st)

\* quic_stream_put goes past its early returns.
releases(st, send) ==
    IF uni THEN TRUE ELSE IF send THEN received(st) ELSE ended(st)

\* ... and counts the stream as closed.
counts(st, send) == releases(st, send) /\ ~st.done

\* Faulty: a released stream that is kept is not marked.
KeptUnmarked(st, send) ==
    IF releases(st, send) /\ ((uni /\ send) \/ st.recv \in {"READ", "RESET_RECVD"})
    THEN none
    ELSE st

\* The stream afterwards: kept, until the receiving part is read or reset, or deleted.
kept(st, send) ==
    IF ~releases(st, send) THEN st
    ELSE IF (uni /\ send) \/ st.recv \in {"READ", "RESET_RECVD"} THEN none
    ELSE [st EXCEPT !.done = TRUE]

Put(e, n, st, send) ==
    /\ tab' = [tab EXCEPT ![e][n] = kept(st, send)]
    /\ streams' = [streams EXCEPT ![e] = IF counts(st, send) THEN @ - 1 ELSE @]
-----------------------------------------------------------------------------
(* Applications *)

\* The sending part of a stream, unless it is the server's end of a client's uni stream.
Writable(e, n) == tab[e][n] # none /\ (uni => e = "client")

\* quic_sendmsg with MSG_QUIC_STREAM_FIN.
Finish(e, n) ==
    /\ Writable(e, n)
    /\ tab[e][n].send = "READY"
    /\ tab' = [tab EXCEPT ![e][n].send = "SENT"]
    /\ net' = net \cup {[t |-> "fin", to |-> peer(e), n |-> n]}
    /\ UNCHANGED <<next, streams, limits, wait, awake, uni>>

\* quic_sock_stream_reset.
Reset(e, n) ==
    /\ n \in Resettable /\ Writable(e, n)
    /\ tab[e][n].send \in {"READY", "SENT"}
    /\ tab' = [tab EXCEPT ![e][n].send = "RESET_SENT"]
    /\ net' = net \cup {[t |-> "reset", to |-> peer(e), n |-> n]}
    /\ UNCHANGED <<next, streams, limits, wait, awake, uni>>

\* quic_recvmsg reads the last frame of the stream.  It is the only release outside the
\* processing of a packet, and owes a MAX_STREAMS frame until the next packet.
Read(e, n) ==
    LET st == [tab[e][n] EXCEPT !.recv = "READ"]
    IN  /\ tab[e][n].recv = "RECVD"
        /\ Put(e, n, st, FALSE)
        /\ pending' = (pending \/ (e = "server" /\ counts(st, FALSE)))
        /\ UNCHANGED <<next, max, failed, wait, awake, net, uni>>
-----------------------------------------------------------------------------
(* Packets: each carries one frame or acknowledges one.  The server ends the *)
(* processing of every packet with quic_packet_app_process_done, which       *)
(* advances the limit if streams were released and sends MAX_STREAMS.        *)
MaxStreams(v) == [t |-> "max_streams", v |-> v]

\* quic_stream_max_streams_update: the limit for these next and open streams.
new_max(nxt, open) == nxt - 1 + max_streams - open

\* The end of a packet at e whose frame released a stream iff released, sent out and had
\* lost allocations fail.
Done(e, released, out, rest, lost) ==
    LET due == e = "server" /\ (pending \/ released)
        m   == new_max(next'["server"], streams'["server"])
    IN  /\ pending' = (pending /\ e = "client")
        /\ max' = IF due THEN [max EXCEPT !["server"] = m] ELSE max
        /\ \/ /\ net' = rest \cup out \cup (IF due THEN {MaxStreams(m + 1)} ELSE {})
              /\ failed' = failed + lost
           \/ /\ due /\ failed + lost < MaxFail
              /\ net' = rest \cup out
              /\ failed' = failed + lost + 1

\* The network once m, for stream n, was delivered: repeated or not.
taken(m) == {net \ {m}} \cup (IF m.n \in Repeated /\ m.to \in RepeatedTo THEN {net} ELSE {})

\* Faulty: a stream that was deleted is not recognised.
ClosedNever(e, n) == FALSE

\* quic_stream_get for a received frame of stream n at e: the stream is too high, is
\* closed, or is there (opened on the spot, with all below it, if e is the server).
limited(e, n) == e = "server" /\ n > max["server"]
closed(e, n) == n < next[e] /\ tab[e][n] = none
got(e, n) == IF n >= next[e] THEN fresh ELSE tab[e][n]

Ack(m) == [t |-> IF m.t = "fin" THEN "fin_ack" ELSE "reset_ack", to |-> peer(m.to), n |-> m.n]

\* A STREAM frame with FIN, or a RESET_STREAM frame: the receiving part becomes final.
DeliverEnd(m) ==
    LET e  == m.to
        n  == m.n
        st == [got(e, n) EXCEPT !.recv = IF m.t = "fin" THEN "RECVD" ELSE "RESET_RECVD"]
        skip == closed(e, n) \/ received(got(e, n))
        opened == IF n >= next[e] THEN n - next[e] + 1 ELSE 0
        released == ~skip /\ counts(st, FALSE)
    IN  /\ m.t \in {"fin", "reset"}
        /\ ~limited(e, n)
        /\ next' = [next EXCEPT ![e] = @ + opened]
        /\ tab' = IF skip THEN tab
                  ELSE [tab EXCEPT ![e] = [Opened(e, n) EXCEPT ![n] = kept(st, FALSE)]]
        /\ streams' = [streams EXCEPT ![e] = @ + opened - (IF released THEN 1 ELSE 0)]
        /\ awake' = (awake \/ (e = "client" /\ m.t = "fin" /\ ~skip))
        /\ \E rest \in taken(m) : Done(e, released, {Ack(m)}, rest, 0)
        /\ UNCHANGED <<wait, uni>>

\* The same when quic_stream_create fails: quic_frame_stream_error takes -ENOSTR for a closed
\* stream, so the frame is skipped and its packet acknowledged.
DeliverUncreated(m) ==
    /\ m.t \in {"fin", "reset"} /\ m.to = "server"
    /\ m.n >= next["server"] /\ ~limited("server", m.n)
    /\ failed < MaxFail
    /\ UNCHANGED <<tab, next, streams, wait, awake, uni>>
    /\ \E rest \in taken(m) : Done("server", FALSE, {Ack(m)}, rest, 1)

\* The acknowledgement of the FIN or the reset: the sending part becomes final.  Frames a
\* reset purged, and frames acknowledged before, are not looked at again.
DeliverEndAck(m) ==
    LET e  == m.to
        n  == m.n
        fin == m.t = "fin_ack"
        st == [tab[e][n] EXCEPT !.send = IF fin THEN "RECVD" ELSE "RESET_RECVD"]
        live == tab[e][n].send = (IF fin THEN "SENT" ELSE "RESET_SENT")
    IN  /\ m.t \in {"fin_ack", "reset_ack"}
        /\ \/ /\ live
              /\ Put(e, n, st, TRUE)
              /\ awake' = (awake \/ e = "client")
           \/ /\ ~live
              /\ UNCHANGED <<tab, streams, awake>>
        /\ UNCHANGED <<next, wait, uni>>
        /\ Done(e, live /\ counts(st, TRUE), {}, net \ {m}, 0)

\* quic_frame_max_streams_bidi/uni_process.
DeliverMaxStreams(m) ==
    /\ m.t = "max_streams"
    /\ \/ /\ m.v > max["client"] + 1
          /\ max' = [max EXCEPT !["client"] = m.v - 1]
          /\ awake' = TRUE
       \/ /\ m.v <= max["client"] + 1
          /\ UNCHANGED <<max, awake>>
    /\ net' = net \ {m}
    /\ UNCHANGED <<tab, next, streams, pending, failed, wait, uni>>

\* A FIN purged by a reset is not retransmitted if it is lost.
Lose(m) ==
    /\ m.t = "fin" /\ tab[peer(m.to)][m.n].send # "SENT"
    /\ net' = net \ {m}
    /\ UNCHANGED <<tab, next, streams, limits, wait, awake, uni>>

Deliver(m) ==
    \/ DeliverEnd(m) \/ DeliverUncreated(m) \/ DeliverEndAck(m) \/ DeliverMaxStreams(m)
-----------------------------------------------------------------------------
Init ==
    /\ tab = [e \in Ends |-> [n \in Ids |-> none]]
    /\ next = [e \in Ends |-> 0]
    /\ max = [e \in Ends |-> max_streams - 1]
    /\ streams = [e \in Ends |-> 0]
    /\ pending = FALSE /\ awake = TRUE
    /\ wait = nobody /\ failed = 0
    /\ uni \in Kinds
    /\ net = {}

Closed(e) == next[e] = Wanted /\ \A n \in Ids : tab[e][n] = none

\* Everything was opened, finished and read: the system may rest.
Rest ==
    /\ net = {} /\ \A e \in Ends : Closed(e)
    /\ UNCHANGED vars

Next ==
    \/ \E n \in Ids : Open(n) \/ Block(n)
    \/ \E e \in Ends, n \in Ids : Finish(e, n) \/ Reset(e, n) \/ Read(e, n)
    \/ \E m \in net : Deliver(m) \/ Lose(m)
    \/ Rest

Spec == Init /\ [][Next]_vars

\* The out-queue retransmits until acknowledged, the applications finish what they open
\* and read what they receive, and a thread that can run does.
Fairness ==
    /\ WF_vars(\E n \in Ids : Open(n) \/ Block(n))
    /\ \A e \in Ends, n \in Ids : WF_vars(Finish(e, n)) /\ WF_vars(Read(e, n))
    /\ \A m \in Frame : WF_vars(m \in net /\ (Deliver(m) \/ Lose(m)))

FairSpec == Spec /\ Fairness
-----------------------------------------------------------------------------
(* Properties *)

\* The server never closes the connection with STREAM_LIMIT_ERROR (quic_frame_stream_error)
\* on a client that honours quic_stream_id_exceeds, whatever the order of the frames: the
\* client's view of the limit is never ahead of the server's.
NoLimitError ==
    /\ max["client"] <= max["server"]
    /\ \A m \in net : m.t \in {"fin", "reset"} => ~limited(m.to, m.n)

\* streams_bidi/uni is the number of streams in the table that quic_stream_put has not
\* marked done: each is counted when it is opened, by quic_stream_create, and discounted
\* once, whichever of its two parts ends last and however often frames are repeated.
CountersExact ==
    \A e \in Ends : streams[e] = Cardinality({n \in Ids : tab[e][n] # none /\ ~tab[e][n].done})

\* The server's limit is the window plus one for every stream released so far, although
\* quic_stream_max_streams_update computes it from the next stream and the open ones: each
\* release is credited once, in the packet that caused it, and opening streams costs nothing.
LimitCurrent ==
    max["server"] + 1 =
        max_streams + Cardinality({n \in Ids : /\ n < next["server"]
                                               /\ tab["server"][n] = none \/ tab["server"][n].done})

\* Neither side has more than max_streams streams open at a time (stream.h:82).
Concurrency == \A e \in Ends : streams[e] <= max_streams

\* The three counts quic_stream_put and quic_stream_max_streams_update keep agree with the
\* table, with each other and with the limit.
Counts == TypeOK /\ CountersExact /\ LimitCurrent /\ Concurrency

\* A stream that was released and deleted stays closed: a late or repeated STREAM or
\* RESET_STREAM frame does not open it again (quic_stream_id_closed).
ClosedStays ==
    [][\A e \in Ends, n \in Ids : n < next[e] /\ tab[e][n] = none => tab'[e][n] = none]_vars

\* A client that wants more streams than the limit gets them all in the end, as the earlier
\* ones are finished and read: the thread in quic_wait_for_stream never sleeps through its
\* chance, no STREAMS_BLOCKED frame is needed to wake it, and both tables become empty.  Two
\* failed allocations can prevent it.  A MAX_STREAMS frame that cannot be made is not tried
\* again (quic_packet_app_process_done, packet.c:1657), and a stream that quic_stream_create
\* cannot make is acknowledged all the same (frame.c:972) and never ends at the server.
AllClosed == <>((Closed("client") /\ Closed("server")) \/ failed > 0)
=============================================================================
