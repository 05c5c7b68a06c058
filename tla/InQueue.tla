------------------------------- MODULE InQueue -------------------------------
(* Reassembly of received stream data (inqueue.c): frames are accepted in    *)
(* any order, buffered sorted by stream and offset in stream_list, moved to  *)
(* recv_list as soon as they continue the stream, and read from there.       *)
(* The peer sends the bytes 0 .. Size - 1 of each stream and then ends it,   *)
(* or resets it; it cuts the stream into frames as it likes, and repeats and *)
(* reorders them.  Limits of flow control are the matter of FlowControl.     *)
EXTENDS Integers, Sequences, FiniteSets, SequencesExt

CONSTANTS
    Streams,        \* stream ids
    Size,           \* the length of every stream
    Frames,         \* the frames [offset, len, fin] the peer cuts a stream into
    sk_rcvbuf,      \* memory for received data
    MsgLens,        \* the buffer lengths recvmsg is called with
    Abandoned,      \* streams that may be reset or stopped
    StopMayFail     \* the STOP_SENDING frame may fail to be allocated

ASSUME InQueueAssumption ==
    /\ Streams \subseteq Nat /\ Size \in Nat \ {0} /\ sk_rcvbuf \in Nat
    /\ Frames \subseteq {f \in [offset : 0 .. Size, len : 0 .. Size, fin : BOOLEAN] :
                            /\ f.offset + f.len <= Size
                            /\ f.fin => f.offset + f.len = Size
                            /\ f.len = 0 => f.fin}
    /\ MsgLens \subseteq Nat \ {0} /\ Abandoned \subseteq Streams
    /\ StopMayFail \in BOOLEAN

VARIABLES
    recv,           \* recv[s]: offset, highest, finalsz, frags, state, stop_sent of stream s
    stream_list,    \* frames that arrived ahead of their stream's offset
    recv_list,      \* frames to read: data is the first byte, offset what was read
    rmem,           \* sk_rmem_alloc
    accepted,       \* history: the frames of each stream that were acknowledged
    out,            \* history: the bytes of each stream handed to the reader
    purged          \* history: streams whose buffered data was discarded

vars == <<recv, stream_list, recv_list, rmem, accepted, out, purged>>

Bytes(f) == f.offset .. f.offset + f.len - 1
total(list) == FoldLeft(LAMBDA n, f : n + f.len, 0, list)
Of(s, list) == SelectSeq(list, LAMBDA f : f.s = s)

Without(s, list) == SelectSeq(list, LAMBDA f : f.s # s)

Buffered == [s : Streams, offset : 0 .. Size, len : 0 .. Size, fin : BOOLEAN]
Readable == [s : Streams, data : 0 .. Size, offset : 0 .. Size, len : 0 .. Size, fin : BOOLEAN]

\* Every variable has its type.
TypeOK ==
    /\ recv \in [Streams -> [offset : 0 .. Size, highest : 0 .. Size, finalsz : 0 .. Size,
                             frags : Nat, stop_sent : BOOLEAN,
                             state : {"RECV", "SIZE_KNOWN", "RECVD", "READ", "RESET_RECVD"}]]
    /\ stream_list \in Seq(Buffered) /\ recv_list \in Seq(Readable)
    /\ rmem \in Nat
    /\ accepted \in [Streams -> SUBSET Frames]
    /\ out \in [Streams -> Seq(0 .. Size)]
    /\ purged \subseteq Streams

final(s) == recv[s].state \in {"RECVD", "READ", "RESET_RECVD"}
-----------------------------------------------------------------------------
(* quic_inq_stream_recv *)

\* Faulty: a FIN that brings no data is dropped as a duplicate.
CoveredFin(r, f) == r.offset >= f.offset + f.len

\* A frame that tells nothing new: covered by what was delivered, and no first FIN.
covered(r, f) == r.offset >= f.offset + f.len /\ (r.state = "SIZE_KNOWN" \/ ~f.fin)

\* Faulty: frames that start alike are taken for duplicates.
SuperfluousStart(s, f, g) == g.s = s /\ g.offset = f.offset /\ (g.fin \/ ~f.fin)

\* A buffered frame g makes f superfluous.
superfluous(s, f, g) ==
    /\ g.s = s /\ g.offset <= f.offset
    /\ g.offset + g.len >= f.offset + f.len
    /\ g.fin \/ ~f.fin

\* Where f goes in stream_list: before the first frame that is to come after it.
after(s, f, g) == g.s > s \/ (g.s = s /\ g.offset > f.offset)
place(s, f) ==
    LET later == {i \in DOMAIN stream_list : after(s, f, stream_list[i])}
    IN  IF later = {} THEN Len(stream_list) + 1 ELSE CHOOSE i \in later : \A j \in later : i <= j

\* The sizes a frame announces disagree with what is known of the stream.
beyond(r, f) == r.finalsz # 0 /\ f.offset + f.len > r.finalsz

wrongEnd(r, f) ==
    f.fin /\ (f.offset + f.len < r.highest \/ (r.finalsz # 0 /\ r.finalsz # f.offset + f.len))

highest(r, f) == IF f.offset + f.len > r.highest THEN f.offset + f.len ELSE r.highest

\* Faulty: the overlap is delivered again, or stays charged.
TailUntrimmed(acc, s, f) ==
    [acc EXCEPT !.offset = f.offset + f.len,
                !.state = IF f.fin THEN "RECVD" ELSE @,
                !.list = Append(@, [s |-> s, data |-> f.offset, offset |-> 0,
                                    len |-> f.len, fin |-> f.fin])]
TailCharged(acc, s, f) ==
    LET overlap == acc.offset - f.offset
        len     == f.len - overlap
    IN  [acc EXCEPT !.offset = @ + len,
                    !.state = IF f.fin THEN "RECVD" ELSE @,
                    !.list = Append(@, [s |-> s, data |-> f.offset + overlap, offset |-> 0,
                                        len |-> len, fin |-> f.fin])]

\* quic_inq_stream_tail: f continues the stream; its overlap is cut off.
tail(acc, s, f) ==
    LET overlap == acc.offset - f.offset
        len     == f.len - overlap
    IN  [acc EXCEPT !.offset = @ + len,
                    !.state = IF f.fin THEN "RECVD" ELSE @,
                    !.rmem = @ - overlap,
                    !.list = Append(@, [s |-> s, data |-> f.offset + overlap, offset |-> 0,
                                        len |-> len, fin |-> f.fin])]

\* One step of the loop that merges buffered frames.
merge(acc, s, g) ==
    IF acc.stop \/ g.offset > acc.offset
    THEN [acc EXCEPT !.stop = TRUE, !.left = Append(@, g)]
    ELSE LET taken == [acc EXCEPT !.frags = @ - 1]
         IN  IF acc.offset >= g.offset + g.len /\ (acc.state = "RECVD" \/ ~g.fin)
             THEN [taken EXCEPT !.rmem = @ - g.len]
             ELSE tail(taken, s, g)

merged(s, f) ==
    LET r   == recv[s]
        acc == tail([offset |-> r.offset, state |-> r.state, frags |-> r.frags, stop |-> FALSE,
                     rmem |-> rmem + f.len, list |-> recv_list, left |-> <<>>], s, f)
    IN  IF r.frags = 0 THEN [acc EXCEPT !.left = Of(s, stream_list)]
        ELSE FoldLeft(LAMBDA a, g : merge(a, s, g), acc, Of(s, stream_list))

\* The frame is acknowledged, whether it was of use or not.
Accept(s, f) == accepted' = [accepted EXCEPT ![s] = @ \cup {f}]

\* quic_frame_stream_process for a stream that is complete, reset or stopped, and the
\* duplicates quic_inq_stream_recv drops.
Discard(s, f) ==
    /\ \/ final(s) \/ recv[s].stop_sent \/ covered(recv[s], f)
       \/ /\ recv[s].offset < f.offset
          /\ rmem + f.len <= sk_rcvbuf /\ ~beyond(recv[s], f)
          /\ \E i \in DOMAIN stream_list : superfluous(s, f, stream_list[i])
    /\ Accept(s, f)
    /\ UNCHANGED <<recv, stream_list, recv_list, rmem, out, purged>>

\* The frame is looked at: it is neither discarded at once nor refused for lack of memory,
\* which leaves its packet unacknowledged.
Considers(s, f) ==
    /\ ~final(s) /\ ~recv[s].stop_sent
    /\ ~covered(recv[s], f)
    /\ rmem + f.len <= sk_rcvbuf

\* quic_inq_stream_recv or quic_frame_reset_stream_process closes the connection.
refused(s, f) ==
    \/ beyond(recv[s], f)
    \/ recv[s].offset < f.offset /\ wrongEnd(recv[s], f)
resetRefused(s) == Size < recv[s].highest \/ (recv[s].finalsz # 0 /\ recv[s].finalsz # Size)

Buffer(s, f) ==
    /\ Considers(s, f) /\ ~refused(s, f)
    /\ recv[s].offset < f.offset
    /\ \A i \in DOMAIN stream_list : ~superfluous(s, f, stream_list[i])
    /\ stream_list' = InsertAt(stream_list, place(s, f),
                               [s |-> s, offset |-> f.offset, len |-> f.len, fin |-> f.fin])
    /\ recv' = [recv EXCEPT ![s].frags = @ + 1,
                            ![s].highest = highest(recv[s], f),
                            ![s].state = IF f.fin THEN "SIZE_KNOWN" ELSE @,
                            ![s].finalsz = IF f.fin THEN f.offset + f.len ELSE @]
    /\ rmem' = rmem + f.len
    /\ Accept(s, f)
    /\ UNCHANGED <<recv_list, out, purged>>

Continue(s, f) ==
    LET m == merged(s, f)
    IN  /\ Considers(s, f) /\ ~refused(s, f)
        /\ recv[s].offset >= f.offset
        /\ recv' = [recv EXCEPT ![s].offset = m.offset, ![s].state = m.state,
                                ![s].frags = m.frags, ![s].highest = highest(recv[s], f)]
        /\ stream_list' = SelectSeq(stream_list, LAMBDA g : g.s # s \/ Contains(m.left, g))
        /\ recv_list' = m.list
        /\ rmem' = m.rmem
        /\ Accept(s, f)
        /\ UNCHANGED <<out, purged>>
-----------------------------------------------------------------------------
(* quic_recvmsg with a buffer of msg_len bytes *)

left(i) == recv_list[i].len - recv_list[i].offset
upto(i) == MapThenSumSet(left, 1 .. i)

\* The loop gets to frame i: all before it are of the same stream, read to their end and not
\* the last of it, and the buffer is not full.
reaches(i, msg_len) ==
    \A j \in 1 .. i - 1 : /\ recv_list[j].s = recv_list[i].s
                          /\ ~recv_list[j].fin
                          /\ upto(j) < msg_len

Read(msg_len) ==
    LET s    == recv_list[1].s
        seen == {i \in DOMAIN recv_list : reaches(i, msg_len)}
        n    == Cardinality({i \in seen : upto(i) <= msg_len})
        part == msg_len - upto(n)
        rest == SubSeq(recv_list, n + 1, Len(recv_list))
        fin  == n > 0 /\ recv_list[n].fin
        given(i) == LET f == recv_list[i]
                        k == IF i <= n THEN left(i) ELSE part
                    IN  [j \in 1 .. k |-> f.data + f.offset + j - 1]
    IN  /\ recv_list # <<>>
        /\ recv_list' = IF n + 1 \in seen THEN [rest EXCEPT ![1].offset = @ + part] ELSE rest
        /\ out' = [out EXCEPT ![s] = @ \o FlattenSeq([i \in 1 .. Cardinality(seen) |-> given(i)])]
        /\ \/ /\ fin
              /\ recv' = [recv EXCEPT ![s].state = "READ"]
              /\ stream_list' = Without(s, stream_list)
           \/ /\ ~fin
              /\ UNCHANGED <<recv, stream_list>>
        /\ rmem' = rmem - total(SubSeq(recv_list, 1, n))
                        - (IF fin THEN total(Of(s, stream_list)) ELSE 0)
        /\ UNCHANGED <<accepted, purged>>
-----------------------------------------------------------------------------
(* Abandoned streams *)

\* quic_inq_list_purge of both lists.
Purge(s) ==
    /\ stream_list' = Without(s, stream_list)
    /\ recv_list' = Without(s, recv_list)
    /\ rmem' = rmem - total(Of(s, stream_list)) - total(Of(s, recv_list))

\* quic_frame_reset_stream_process.
Reset(s) ==
    /\ s \in Abandoned /\ ~final(s)
    /\ ~resetRefused(s)
    /\ recv' = [recv EXCEPT ![s].state = "RESET_RECVD", ![s].finalsz = Size]
    /\ Purge(s)
    /\ purged' = purged \cup {s}
    /\ UNCHANGED <<accepted, out>>

\* quic_sock_stream_stop_sending: the data is discarded first; the frame may then fail.
StopSending(s) ==
    /\ s \in Abandoned /\ ~final(s) /\ ~recv[s].stop_sent
    /\ Purge(s)
    /\ \/ /\ recv' = [recv EXCEPT ![s].stop_sent = TRUE]
          /\ purged' = purged \cup {s}
       \/ /\ StopMayFail
          /\ UNCHANGED <<recv, purged>>
    /\ UNCHANGED <<accepted, out>>
-----------------------------------------------------------------------------
Init ==
    /\ recv = [s \in Streams |-> [offset |-> 0, highest |-> 0, finalsz |-> 0, frags |-> 0,
                                  stop_sent |-> FALSE, state |-> "RECV"]]
    /\ stream_list = <<>> /\ recv_list = <<>>
    /\ rmem = 0
    /\ accepted = [s \in Streams |-> {}]
    /\ out = [s \in Streams |-> <<>>]
    /\ purged = {}

StreamRecv(s, f) == Discard(s, f) \/ Buffer(s, f) \/ Continue(s, f)

Next ==
    \/ \E s \in Streams, f \in Frames : StreamRecv(s, f)
    \/ \E msg_len \in MsgLens : Read(msg_len)
    \/ \E s \in Streams : Reset(s) \/ StopSending(s)

Spec == Init /\ [][Next]_vars
-----------------------------------------------------------------------------
(* Properties *)

\* sk_rmem_alloc is the memory of the frames in the two lists, and within sk_rcvbuf: what
\* is charged on arrival is given back when overlaps are cut off, duplicates dropped, data
\* read or purged (quic_inq_set_owner_r, quic_inq_rfree).
MemoryExact == TypeOK /\ rmem = total(stream_list) + total(recv_list) /\ rmem <= sk_rcvbuf

\* An acknowledged byte is not lost: of a stream that was not abandoned it was delivered or
\* is buffered, although the merge loop and the insertion drop whatever is covered.
NothingLost ==
    \A s \in Streams \ purged : \A f \in accepted[s] : \A b \in Bytes(f) :
        \/ b < recv[s].offset
        \/ \E i \in DOMAIN stream_list : stream_list[i].s = s /\ b \in Bytes(stream_list[i])

\* The merge loop leaves nothing behind that continues the stream, and the frames of a
\* stream are together, in the order of their offsets, and recv.frags in number.
BufferedAhead ==
    /\ \A i \in DOMAIN stream_list : stream_list[i].offset > recv[stream_list[i].s].offset
    /\ \A i, j \in DOMAIN stream_list :
          i < j => \/ stream_list[i].s < stream_list[j].s
                   \/ /\ stream_list[i].s = stream_list[j].s
                      /\ stream_list[i].offset <= stream_list[j].offset
    /\ \A s \in Streams \ purged : ~final(s) => recv[s].frags = Len(Of(s, stream_list))

\* A stream is complete (Data Recvd) exactly when all its bytes and its FIN were
\* acknowledged, however the FIN came: with data, without, ahead of it, or repeated.
EndRecognised ==
    \A s \in Streams \ purged :
        recv[s].state \in {"RECVD", "READ"}
            <=> /\ \E f \in accepted[s] : f.fin
                /\ UNION {Bytes(f) : f \in accepted[s]} = 0 .. Size - 1

\* A peer that sends one stream of one size is never accused of changing it: no frame of it
\* is refused with FINAL_SIZE_ERROR.
SizesAgree ==
    \A s \in Streams : ~final(s) => /\ \A f \in Frames : ~refused(s, f)
                                    /\ ~resetRefused(s)

\* What stream_list keeps is what is still needed, in order: everything acknowledged and not
\* delivered, and nothing that could have been delivered.
Reassembly == NothingLost /\ BufferedAhead

\* The end of a stream is taken for its end, and nothing else is.
EndExact == EndRecognised /\ SizesAgree

\* To the reader the queue is a byte stream, "to maintain ordered data delivery"
\* (inqueue.c:284): ByteStreams states it.
Reader == INSTANCE ByteStreams WITH
    arrived   <- [s \in Streams |-> UNION {Bytes(f) : f \in accepted[s]}],
    ended     <- [s \in Streams |-> recv[s].state = "READ"],
    abandoned <- [s \in Streams |-> s \in purged]
OrderedDelivery == Reader!Spec
=============================================================================
