---------------------------- MODULE FlowControl ------------------------------
(* Flow control of one direction of a connection: the sending endpoint's     *)
(* connection and stream limits (quic_outq_flow_control, quic_outq_wspace),  *)
(* the receiving endpoint's windows (quic_inq_flow_control and the limit     *)
(* checks of quic_inq_stream_recv) and the frames between them, which the    *)
(* network delays, reorders and may deliver twice.                           *)
(*                                                                           *)
(* A byte is its offset in the stream.  Reassembly keeps the set of bytes    *)
(* received; how the code stores them is the subject of InQueue.             *)
EXTENDS Integers, FiniteSets, FiniteSetsExt, Functions

CONSTANTS
    Streams,        \* the streams of this direction
    Total,          \* the bytes the application writes on each stream
    max_data,       \* the receiver's connection window (transport parameter)
    stream_window,  \* its window for each stream
    mss,            \* quic_packet_mss of the receiver
    MaxFrame,       \* the most bytes a STREAM frame carries
    Announces,      \* the sender may be another implementation, which sends BLOCKED frames
    Abandoned,      \* streams an application may reset or stop
    MayPress,       \* memory pressure may come and go
    MayFail,        \* allocation of a MAX_DATA or MAX_STREAM_DATA frame may fail
    Repeated,       \* bound: the types of frames that may be delivered more than once
    MaxInFlight     \* bound: applications act while fewer frames are on their way

ASSUME WindowAssumption ==
    /\ IsFiniteSet(Streams) /\ Abandoned \subseteq Streams
    /\ {Total, max_data, stream_window} \subseteq Nat /\ {mss, MaxFrame, MaxInFlight} \subseteq Nat \ {0}
    /\ {Announces, MayPress, MayFail} \subseteq BOOLEAN /\ Repeated \subseteq STRING

VARIABLES
    outq,       \* connection-level sending state
    send,       \* send[s]: the same for each stream
    inq,        \* connection-level receiving state
    recv,       \* recv[s]: the same for each stream, with the bytes received
    net,        \* frames on their way, in both directions
    pressure,   \* sk_under_memory_pressure at the receiver
    error       \* the connection was closed with FLOW_CONTROL_ERROR

vars == <<outq, send, inq, recv, net, pressure, error>>

Sender == [bytes : Nat, max_bytes : Nat, last_max_bytes : Nat, data_blocked : BOOLEAN]

Frame ==
    [t : {"data"}, s : Streams, off : Nat, len : Nat \ {0}]
    \cup [t : {"max_data"}, v : Nat]
    \cup [t : {"max_stream_data"}, s : Streams, v : Nat]
    \cup [t : {"data_blocked"}]
    \cup [t : {"stream_data_blocked", "reset", "stop"}, s : Streams]

\* Every variable has its type; in particular no limit or counter of quic_inq_flow_control
\* and quic_outq_flow_control drops below zero.
TypeOK ==
    /\ outq \in Sender
    /\ send \in [Streams -> [bytes : Nat, max_bytes : Nat, last_max_bytes : Nat,
                             data_blocked : BOOLEAN, reset : BOOLEAN]]
    /\ inq \in [bytes : Nat, max_bytes : Nat, highest : Nat]
    /\ recv \in [Streams -> [bytes : Nat, max_bytes : Nat, highest : Nat, got : SUBSET Nat,
                             state : {"RECV", "STOPPED", "RESET_RECVD"}]]
    /\ net \subseteq Frame
    /\ pressure \in BOOLEAN /\ error \in BOOLEAN
-----------------------------------------------------------------------------
(* Sender *)

min(a, b) == IF a < b THEN a ELSE b

\* quic_outq_wspace, without the socket's send buffer.
wspace(s) == min(outq.max_bytes - outq.bytes, send[s].max_bytes - send[s].bytes)

\* One level of quic_outq_flow_control for one byte, the least a caller asks for: is it
\* blocked, and what it then remembers.  Its argument sndblock is always false, because
\* quic_msghdr_parse refuses MSG_QUIC_STREAM_SNDBLOCK: the level is marked, no BLOCKED
\* frame is made, and with no frame to be acknowledged the mark stays.
blocked(l) == l.bytes + 1 > l.max_bytes

checked(l) ==
    IF blocked(l) /\ ~l.data_blocked /\ l.last_max_bytes < l.max_bytes
    THEN [l EXCEPT !.last_max_bytes = l.max_bytes, !.data_blocked = TRUE]
    ELSE l

\* quic_sendmsg queues a STREAM frame: flow control allows a byte, and
\* quic_frame_stream_create trims the frame to the space there is.
Send(s, n) ==
    /\ ~error /\ ~send[s].reset
    /\ ~blocked(outq) /\ ~blocked(send[s])
    /\ n \in 1 .. min(Total - send[s].bytes, min(wspace(s), MaxFrame))
    /\ net' = net \cup {[t |-> "data", s |-> s, off |-> send[s].bytes, len |-> n]}
    /\ send' = [send EXCEPT ![s].bytes = @ + n]
    /\ outq' = [outq EXCEPT !.bytes = @ + n]
    /\ UNCHANGED <<inq, recv, pressure, error>>

\* quic_sendmsg finds a level blocked and waits, or returns ENOSPC.
Block(s) ==
    /\ ~error /\ ~send[s].reset
    /\ send[s].bytes < Total
    /\ blocked(outq) \/ blocked(send[s])
    /\ send' = [send EXCEPT ![s] = checked(@)]
    /\ outq' = checked(outq)
    /\ UNCHANGED <<inq, recv, net, pressure, error>>

\* A sender of another implementation announces what blocks it.
Announce(s) ==
    /\ Announces /\ ~error /\ ~send[s].reset
    /\ send[s].bytes < Total
    /\ \/ blocked(outq) /\ net' = net \cup {[t |-> "data_blocked"]}
       \/ blocked(send[s]) /\ net' = net \cup {[t |-> "stream_data_blocked", s |-> s]}
    /\ UNCHANGED <<outq, send, inq, recv, pressure, error>>

\* Faulty variant: the stream forgets what it sent.
ResetClears(s) ==
    /\ send' = [send EXCEPT ![s].reset = TRUE, ![s].bytes = 0]
    /\ UNCHANGED <<outq, inq, recv, pressure, error>>

\* quic_sock_stream_reset, and the reaction to STOP_SENDING: the frames of the stream not
\* yet acknowledged are purged (those in packets already sent may still arrive).
Reset(s) ==
    /\ send' = [send EXCEPT ![s].reset = TRUE]
    /\ UNCHANGED <<outq, inq, recv, pressure, error>>

AppReset(s) ==
    /\ ~error /\ s \in Abandoned /\ ~send[s].reset
    /\ net' = net \cup {[t |-> "reset", s |-> s]}
    /\ Reset(s)

-----------------------------------------------------------------------------
(* Receiver *)

\* Faulty variant: the last byte in order is left for a read that never comes.
ReadableButLast(s) ==
    Cardinality({b \in recv[s].got : b >= recv[s].bytes /\ 0 .. b + 1 \subseteq recv[s].got})

\* Bytes in order and not yet read: what recv_list holds of the stream.
readable(s) ==
    Cardinality({b \in recv[s].got : b >= recv[s].bytes /\ 0 .. b \subseteq recv[s].got})

\* Faulty variants of the new limit: counted from the old limit, halved without memory
\* pressure.
LimitFromOld(l, window) == l.max_bytes + window
LimitHalved(l, window) == l.bytes + window \div 2

\* One level of quic_inq_flow_control: when enough was read the limit moves to the bytes
\* read plus the window, or half of it under memory pressure.
limit(l, window) == l.bytes + (IF pressure THEN window \div 2 ELSE window)

\* Faulty variant: the limit moves only when more than the window was read.
DueLate(l, window) == l.bytes + window - l.max_bytes > window

due(l, window) == l.bytes + window - l.max_bytes >= Max({mss, window \div 16})

raised(l, window) == IF due(l, window) THEN [l EXCEPT !.max_bytes = limit(l, window)] ELSE l

\* quic_recvmsg consumes n bytes of a stream; quic_inq_flow_control accounts for them at
\* both levels and announces the limits it moved.  A frame that cannot be allocated is
\* not sent, and the limit stays moved.
Read(s, n) ==
    LET conn == [inq EXCEPT !.bytes = @ + n]
        strm == [recv[s] EXCEPT !.bytes = @ + n]
        frames == (IF due(conn, max_data)
                   THEN {[t |-> "max_data", v |-> limit(conn, max_data)]} ELSE {})
                  \cup (IF due(strm, stream_window)
                        THEN {[t |-> "max_stream_data", s |-> s, v |-> limit(strm, stream_window)]}
                        ELSE {})
    IN  /\ ~error /\ recv[s].state = "RECV"
        /\ n \in 1 .. readable(s)
        /\ inq' = raised(conn, max_data)
        /\ recv' = [recv EXCEPT ![s] = raised(strm, stream_window)]
        /\ \E sent \in SUBSET frames :
             /\ MayFail \/ sent = frames
             /\ net' = net \cup sent
        /\ UNCHANGED <<outq, send, pressure, error>>

\* quic_sock_stream_stop_sending: what was received and not read is purged.
StopSending(s) ==
    /\ ~error /\ s \in Abandoned /\ recv[s].state = "RECV"
    /\ recv' = [recv EXCEPT ![s].state = "STOPPED"]
    /\ net' = net \cup {[t |-> "stop", s |-> s]}
    /\ UNCHANGED <<outq, send, inq, pressure, error>>

Pressure ==
    /\ MayPress /\ ~error
    /\ pressure' = ~pressure
    /\ UNCHANGED <<outq, send, inq, recv, net, error>>
-----------------------------------------------------------------------------
(* Delivery of a frame *)

\* The frame was acknowledged, or it is in the air a second time.
Consumed(m, new) ==
    \/ net' = (net \ {m}) \cup new
    \/ m.t \in Repeated /\ net' = net \cup new

\* quic_inq_stream_recv, after quic_frame_stream_process skipped streams that were
\* stopped or reset.
DeliverData(m) ==
    LET s == m.s
        off == m.off + m.len
        new == IF off > recv[s].highest THEN off - recv[s].highest ELSE 0
        over == \/ inq.highest + new > inq.max_bytes
                \/ recv[s].highest + new > recv[s].max_bytes
    IN  /\ m.t = "data"
        /\ Consumed(m, {})
        /\ IF recv[s].state # "RECV" THEN UNCHANGED <<inq, recv, error>>
           ELSE IF new > 0 /\ over THEN error' = TRUE /\ UNCHANGED <<inq, recv>>
           ELSE /\ inq' = [inq EXCEPT !.highest = @ + new]
                /\ recv' = [recv EXCEPT ![s].highest = @ + new,
                                        ![s].got = @ \cup m.off .. off - 1]
                /\ UNCHANGED error
        /\ UNCHANGED <<outq, send, pressure>>

\* quic_frame_max_data_process and quic_frame_max_stream_data_process.
DeliverMaxData(m) ==
    /\ m.t = "max_data"
    /\ Consumed(m, {})
    /\ outq' = [outq EXCEPT !.max_bytes = IF m.v > @ THEN m.v ELSE @]
    /\ UNCHANGED <<send, inq, recv, pressure, error>>

DeliverMaxStreamData(m) ==
    /\ m.t = "max_stream_data"
    /\ Consumed(m, {})
    /\ send' = [send EXCEPT ![m.s].max_bytes = IF m.v > @ THEN m.v ELSE @]
    /\ UNCHANGED <<outq, inq, recv, pressure, error>>

\* quic_frame_data_blocked_process: answered by MAX_DATA whatever was read since.
DeliverDataBlocked(m) ==
    /\ m.t = "data_blocked"
    /\ inq' = [inq EXCEPT !.max_bytes = limit(inq, max_data)]
    /\ Consumed(m, {[t |-> "max_data", v |-> inq'.max_bytes]})
    /\ UNCHANGED <<outq, send, recv, pressure, error>>

\* quic_frame_stream_data_blocked_process, skipped once the stream was reset.
DeliverStreamDataBlocked(m) ==
    LET max == limit(recv[m.s], stream_window)
    IN  /\ m.t = "stream_data_blocked"
        /\ IF recv[m.s].state = "RESET_RECVD" THEN Consumed(m, {}) /\ UNCHANGED recv
           ELSE /\ recv' = [recv EXCEPT ![m.s].max_bytes = max]
                /\ Consumed(m, {[t |-> "max_stream_data", s |-> m.s, v |-> max]})
        /\ UNCHANGED <<outq, send, inq, pressure, error>>

\* quic_frame_reset_stream_process: data received and not read is purged.
DeliverReset(m) ==
    /\ m.t = "reset"
    /\ Consumed(m, {})
    /\ recv' = [recv EXCEPT ![m.s].state = "RESET_RECVD"]
    /\ UNCHANGED <<outq, send, inq, pressure, error>>

\* quic_frame_stop_sending_process.
DeliverStop(m) ==
    /\ m.t = "stop"
    /\ Consumed(m, {[t |-> "reset", s |-> m.s]})
    /\ Reset(m.s)

Deliver(m) ==
    /\ ~error
    /\ \/ DeliverData(m) \/ DeliverMaxData(m) \/ DeliverMaxStreamData(m)
       \/ DeliverDataBlocked(m) \/ DeliverStreamDataBlocked(m)
       \/ DeliverReset(m) \/ DeliverStop(m)
-----------------------------------------------------------------------------
Init ==
    /\ outq = [bytes |-> 0, max_bytes |-> max_data, last_max_bytes |-> 0, data_blocked |-> FALSE]
    /\ send = [s \in Streams |-> [bytes |-> 0, max_bytes |-> stream_window, last_max_bytes |-> 0,
                                  data_blocked |-> FALSE, reset |-> FALSE]]
    /\ inq = [bytes |-> 0, max_bytes |-> max_data, highest |-> 0]
    /\ recv = [s \in Streams |-> [bytes |-> 0, max_bytes |-> stream_window, highest |-> 0,
                                  got |-> {}, state |-> "RECV"]]
    /\ net = {}
    /\ pressure = FALSE
    /\ error = FALSE

room == Cardinality(net) < MaxInFlight

Write == room /\ \E s \in Streams : \E n \in 1 .. MaxFrame : Send(s, n)
Wait == room /\ \E s \in Streams : Block(s) \/ Announce(s)
Consume == room /\ \E s \in Streams : \E n \in 1 .. readable(s) : Read(s, n)
Arrive == \E m \in net : Deliver(m)

Abandon == room /\ \E s \in Streams : AppReset(s) \/ StopSending(s)

Next == Write \/ Wait \/ Consume \/ Arrive \/ Pressure \/ Abandon

Spec == Init /\ [][Next]_vars

\* Applications keep writing and reading, and what is sent arrives in the end: the
\* out-queue retransmits a lost frame until it is acknowledged.
FairSpec == Spec /\ WF_vars(Write) /\ WF_vars(Consume) /\ WF_vars(Arrive)
-----------------------------------------------------------------------------
(* Properties *)

\* The sender never exceeds a limit it was given, so the unsigned subtractions of
\* quic_outq_wspace cannot wrap.
WithinLimits ==
    /\ outq.bytes <= outq.max_bytes
    /\ \A s \in Streams : send[s].bytes <= send[s].max_bytes

\* The receiver never holds more unread data than the windows it offered, however frames
\* are reordered and whatever memory pressure does to the window.
UnreadBounded ==
    /\ inq.highest - inq.bytes <= max_data
    /\ \A s \in Streams : recv[s].highest - recv[s].bytes <= stream_window

\* The sender keeps to its limits and the receiver's memory to its windows.
LimitsKept == WithinLimits /\ UnreadBounded

\* quic_inq_stream_recv never answers a sender that respects the limits it was sent
\* with FLOW_CONTROL_ERROR.
NoFlowError == ~error

\* The connection counters are the sums of the streams' counters at both ends: resets,
\* purges and duplicates do not make them drift apart.
CountersAgree ==
    /\ TypeOK
    /\ outq.bytes = FoldFunction(LAMBDA x, y : x.bytes + y, 0, send)
    /\ inq.bytes = FoldFunction(LAMBDA x, y : x.bytes + y, 0, recv)
    /\ inq.highest = FoldFunction(LAMBDA x, y : x.highest + y, 0, recv)

\* A sender that waits is never left waiting: when nothing is on the way and all it sent on
\* its streams was read, neither level blocks it.  quic_inq_flow_control raises a limit only
\* once max(mss, window >> 4) more bytes were read; what it holds back with that never adds
\* up to the whole window, with windows of at least mss and limit updates that are sent.
CreditReturns ==
    (net = {} /\ \A s \in Streams : recv[s].bytes = send[s].bytes)
    => ~blocked(outq) /\ \A s \in Streams : ~blocked(send[s])

\* Everything written is read in the end: no limit update is missing when the sender
\* waits for it.
AllRead == <>(\A s \in Streams : recv[s].bytes = Total)
=============================================================================
