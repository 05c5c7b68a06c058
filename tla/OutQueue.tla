------------------------------ MODULE OutQueue ------------------------------
(***************************************************************************)
(* The out-queue of an established connection (outqueue.c and the packet    *)
(* builder of packet.c): frames wait in control_list, datagram_list or      *)
(* stream_list, are packed into packets, stay in transmitted_list until     *)
(* they are acknowledged, and go back to a queue when a packet that carries *)
(* them is found lost.  A frame may be in several sent packets, and is in   *)
(* at most one list.                                                        *)
(*                                                                         *)
(* Frames have length one: writes are small, so that what is appended to a *)
(* frame fits into it, and no frame is marked nodelay.  Only packets with   *)
(* tracked frames are numbered; packets with just an ACK or a PING frame    *)
(* take numbers too, but leave no record: what they do is that the largest  *)
(* number an ACK frame reports may belong to no record, and that stream     *)
(* data may ride along with them.  Times are abstracted: which packets are  *)
(* older than loss_delay, and whether the pacing time has come, is a choice *)
(* of each step.                                                            *)
(***************************************************************************)
EXTENDS Integers, Sequences, FiniteSets, SequencesExt

CONSTANTS
    kinds,          \* what is sent, in this order: the kinds of frames
    corked,         \* what is sent with MSG_MORE
    mss,            \* frames in a packet
    Windows,        \* congestion windows
    MayPace,        \* whether pacing may hold stream data back
    MaxFaults       \* bound on lost packets, early timeouts, failed allocations, MTU changes

Frames == DOMAIN kinds
Handshake == 2
App == 0
Levels == {Handshake, App}
QUIC_KPACKET_THRESHOLD == 3

ASSUME OutQueueAssumption ==
    /\ kinds \in Seq({"crypto", "control", "reset", "datagram", "stream", "other"})
    /\ corked \subseteq Frames
    /\ mss \in Nat \ {0} /\ Windows \subseteq Nat \ {0} /\ Windows # {}
    /\ MayPace \in BOOLEAN /\ MaxFaults \in Nat

VARIABLES
    sk,         \* the sender: lists, frames, sent packets, counters and timers
    made,       \* how much of kinds was handed to the sender
    confirmed,  \* the HANDSHAKE_DONE frame has come
    lost,       \* for each level, the packets on record that the network lost
    faults

vars == <<sk, made, confirmed, lost, faults>>

level(f) == IF kinds[f] = "crypto" THEN Handshake ELSE App
rank(f) == IF level(f) = App THEN 3 ELSE level(f)

\* A STREAM frame: of the stream that RESET_STREAM resets, or of another one.
IsStream(f) == kinds[f] \in {"stream", "other"}

\* What is charged to the socket for the frames of F.
Bytes(s, F) == MapThenSumSet(LAMBDA f : s.bytes[f], F)

Init ==
    /\ \E w \in Windows :
         sk = [control_list |-> <<>>, datagram_list |-> <<>>, stream_list |-> <<>>,
               transmitted_list |-> <<>>, number |-> [f \in Frames |-> -1],
               bytes |-> [f \in Frames |-> 0],
               packet_sent |-> [l \in Levels |-> <<>>], next_pn |-> [l \in Levels |-> 1],
               inflight |-> 0, space_inflight |-> [l \in Levels |-> 0],
               max_pn_acked_seen |-> [l \in Levels |-> 0],
               loss_time |-> [l \in Levels |-> FALSE], stream_list_len |-> 0,
               window |-> w, wmem |-> 0, force_delay |-> FALSE, timer |-> FALSE,
               pacing |-> FALSE, pacing_time |-> FALSE, oom |-> FALSE]
    /\ made = 0 /\ confirmed = FALSE /\ lost = [l \in Levels |-> {}] /\ faults = 0
-----------------------------------------------------------------------------
(* Lists *)
\* Body(v).  The value of v is computed once.
With(v, Body(_)) == CHOOSE r \in {Body(x) : x \in {v}} : TRUE

Listed(s) == ToSet(s.control_list) \cup ToSet(s.datagram_list)
               \cup ToSet(s.stream_list) \cup ToSet(s.transmitted_list)

\* The lists of s without the frames of F.
Unlist(s, F) ==
    LET Drop(q) == SelectSeq(q, LAMBDA f : f \notin F)
    IN  [s EXCEPT !.control_list = Drop(@), !.datagram_list = Drop(@),
                  !.stream_list = Drop(@), !.transmitted_list = Drop(@)]

\* f inserted in q before the first frame that it precedes.
Insert(q, f, Precedes(_)) ==
    LET i == SelectInSeq(q, Precedes)
    IN  IF i = 0 THEN Append(q, f) ELSE InsertAt(q, i, f)

\* quic_outq_retransmit_frame: by level, then by first packet number, new frames last.
retransmit_frame(s, f) ==
    LET Precedes(g) == \/ rank(f) < rank(g)
                       \/ rank(f) = rank(g) /\ (s.number[g] < 0 \/ s.number[f] < s.number[g])
    IN  IF IsStream(f)
        THEN [s EXCEPT !.stream_list = Insert(@, f, Precedes), !.stream_list_len = @ + 1]
        ELSE [s EXCEPT !.control_list = Insert(@, f, Precedes)]

\* quic_outq_list_purge for a stream that is reset: F are the stream's frames.
list_purge(s, F) ==
    LET gone == F \cap (ToSet(s.stream_list) \cup ToSet(s.transmitted_list))
    IN  [Unlist(s, gone) EXCEPT
            !.stream_list_len = @ - Cardinality(F \cap ToSet(s.stream_list)),
            !.wmem = @ - Bytes(s, gone)]
-----------------------------------------------------------------------------
(* Building packets *)

\* quic_packet_pack_frames for the packets that the frames fs of level l fill: records, frame
\* numbers, transmitted_list, and the loss timer.
pack_frames(s, l, fs) ==
    LET n == s.next_pn[l]
        k == (Len(fs) + mss - 1) \div mss
        num == [f \in Frames |-> IF s.number[f] < 0 /\ Contains(fs, f)
                                 THEN n + (SelectInSeq(fs, LAMBDA g : g = f) - 1) \div mss
                                 ELSE s.number[f]]
        Tailed(q, f) ==
            Insert(q, f, LAMBDA g : rank(f) < rank(g) \/ (rank(f) = rank(g) /\ num[f] < num[g]))
    IN  [s EXCEPT
            !.number = num,
            !.transmitted_list = FoldLeft(Tailed, @, fs),
            !.packet_sent[l] = [i \in DOMAIN @ \cup n .. n + k - 1 |->
                                   IF i < n THEN @[i]
                                   ELSE SubSeq(fs, (i - n) * mss + 1,
                                               Min({(i - n + 1) * mss, Len(fs)}))],
            !.next_pn[l] = n + k,
            !.inflight = @ + Len(fs), !.space_inflight[l] = @ + Len(fs),
            !.timer = TRUE, !.pacing_time = MayPace]

\* The frames fs of level l leave their lists (quic_packet_tail) and are sent
\* (quic_packet_create_and_xmit).  If packets cannot be allocated they are put back.
Send(s, l, fs, ok) ==
    LET streams == Cardinality(ToSet(fs) \cap ToSet(s.stream_list))
        t == [Unlist(s, ToSet(fs)) EXCEPT !.stream_list_len = @ - streams]
    IN  IF fs = <<>> THEN s
        ELSE IF ok THEN With(t, LAMBDA u : pack_frames(u, l, fs))
        ELSE FoldLeft(retransmit_frame, [t EXCEPT !.oom = TRUE], fs)

Take(q, n) == SubSeq(q, 1, Min({n, Len(q)}))

\* Control frames of a level.  The loop for the Handshake level stops at the first frame of
\* the application level.
control(s, l) ==
    LET i == SelectInSeq(s.control_list, LAMBDA f : level(f) = App)
        q == IF l = App \/ i = 0 THEN s.control_list ELSE SubSeq(s.control_list, 1, i - 1)
    IN  SelectSeq(q, LAMBDA f : level(f) = l)

\* quic_outq_delay_check without pacing: the frame after j frames of stream_list waits for more
\* data.  before frames are packed ahead of stream_list; in the packet that starts after shared
\* of them there is another frame (-1: in none); sent tells that data is in flight by then.
delay_check(s, j, before, shared, sent) ==
    /\ (before + j) % mss = 0 /\ before + j # shared
    /\ sent \/ before + j > 0 \/ s.force_delay
    /\ s.stream_list_len - j <= mss

\* The frames of stream_list that quic_outq_transmit_stream packs, up to room.  Pacing may hold
\* back the first frame, or one before which a packet was sent.
stream(s, room, before, shared, sent, o) ==
    LET held == {j \in 0 .. Len(s.stream_list) - 1 : delay_check(s, j, before, shared, sent)}
        pace == {j \in {o.hold} : j = 0 \/ (j > 0 /\ (before + j) % mss = 0)}
    IN  Take(s.stream_list, Min(held \cup pace \cup {room}))

\* quic_outq_limit_check: what the congestion window leaves.  Nothing is in flight after an
\* allocation failure, so that the loops go on if a packet fits into the window.
room(s, o) ==
    IF ~o.ok /\ s.window - s.inflight > mss THEN Len(kinds) ELSE Max({0, s.window - s.inflight})

\* quic_outq_transmit, with an ACK frame before or a PING frame after the control frames of the
\* application level.  o holds the choices: allocation and pacing.
transmit(s, ack, ping, o) ==
    With(Take(control(s, Handshake), room(s, o)), LAMBDA hs :
    With(Take(control(s, App), room(s, o) - Len(hs)), LAMBDA ctl :
    With(Take(s.datagram_list, room(s, o) - Len(hs) - Len(ctl)), LAMBDA dgram :
        LET before == Len(ctl) + Len(dgram)
            left   == room(s, o) - Len(hs) - before
            shared == IF ack THEN 0
                      ELSE IF ping /\ ctl = control(s, App) THEN Len(ctl) - (Len(ctl) % mss)
                      ELSE -1
            paced(data) == Len(data) = o.hold /\ Len(data) < left
        IN  With(stream(s, left, before, shared, s.inflight + Len(hs) > 0, o), LAMBDA data :
            With(Send([s EXCEPT !.pacing = @ \/ paced(data)], Handshake, hs, o.ok), LAMBDA t :
                 Send(t, App, ctl \o dgram \o data, o.ok))))))

\* Faulty: frames that were sent are not sent again.
SingleOnlyNew(s, l, o) ==
    LET new == control(s, l) \o (IF l = App THEN s.datagram_list ELSE <<>>)
    IN  Send(s, l, Take(new, mss), o.ok)

\* quic_outq_transmit_single: one packet of the level's new frames, then of its old ones,
\* whatever the window.
transmit_single(s, l, o) ==
    LET new == IF l # App THEN control(s, l)
               ELSE control(s, l) \o s.datagram_list
        data == IF l # App THEN <<>> ELSE stream(s, mss, Len(new), -1, s.inflight > 0, o)
        old == SelectSeq(s.transmitted_list,
                         LAMBDA f : level(f) = l /\ kinds[f] # "datagram")
        paced == o.hold = 0 /\ l = App /\ Len(new) < mss
    IN  With(<<[s EXCEPT !.pacing = @ \/ paced], Take(new \o data \o old, mss)>>, LAMBDA p :
        Send(p[1], l, p[2], o.ok))
-----------------------------------------------------------------------------
(* Acknowledgement and loss *)
Length(s, l, S) == MapThenSumSet(LAMBDA n : Len(s.packet_sent[l][n]), S)

\* The records of S leave packet_sent_list.
Unsent(s, l, S) ==
    [s EXCEPT !.packet_sent[l] = [n \in DOMAIN @ \ S |-> @[n]],
              !.inflight = @ - Length(s, l, S), !.space_inflight[l] = @ - Length(s, l, S)]

\* quic_outq_transmitted_sack and _psent_sack_frames.  largest: the largest number that the
\* ACK frame reports is the last record of S.
transmitted_sack(s, l, S, largest) ==
    LET fs == UNION {ToSet(s.packet_sent[l][n]) : n \in S} \cap Listed(s)
    IN  [Unsent(Unlist(s, fs), l, S) EXCEPT
            !.wmem = @ - Bytes(s, fs),
            !.max_pn_acked_seen[l] = IF largest /\ Max(S) > @ THEN Max(S) ELSE @]

\* Faulty: the frame stays in transmitted_list.
LostListed(s, f) ==
    IF ~Contains(s.transmitted_list, f) THEN s ELSE retransmit_frame(s, f)

\* Faulty: the memory of a DATAGRAM frame is not released.
LostCharged(s, f) ==
    IF ~Contains(s.transmitted_list, f) THEN s
    ELSE IF kinds[f] = "datagram" THEN Unlist(s, {f})
    ELSE retransmit_frame(Unlist(s, {f}), f)

\* Faulty: a frame that another packet's acknowledgement has freed is queued again.
LostAgain(s, f) == retransmit_frame(Unlist(s, {f}), f)

\* quic_outq_psent_retransmit_frames for one frame.
lost_frame(s, f) ==
    IF ~Contains(s.transmitted_list, f) THEN s
    ELSE IF kinds[f] = "datagram" THEN [Unlist(s, {f}) EXCEPT !.wmem = @ - s.bytes[f]]
    ELSE retransmit_frame(Unlist(s, {f}), f)

\* quic_outq_retransmit_mark: the packets up to old were sent loss_delay ago.
retransmit_mark(s, l, old, immediate) ==
    LET top == s.max_pn_acked_seen[l]
        Late(n) == n <= top /\ (n <= old \/ n + QUIC_KPACKET_THRESHOLD <= top)
        L == {n \in DOMAIN s.packet_sent[l] :
                 immediate \/ \A k \in DOMAIN s.packet_sent[l] : k <= n => Late(k)}
        order == SetToSortSeq(L, <)
        fs == FlattenSeq([i \in DOMAIN order |-> s.packet_sent[l][order[i]]])
    IN  [Unsent(FoldLeft(lost_frame, s, fs), l, L) EXCEPT
            !.loss_time[l] = \E n \in DOMAIN s.packet_sent[l] \ L : n <= top]

\* Faulty: the timer runs only for a loss time.
LossTimeOnly(s) == [s EXCEPT !.timer = \E l \in Levels : s.loss_time[l]]

\* quic_outq_update_loss_timer, which looks at the loss times first and then for a probe time.
update_loss_timer(s) ==
    [s EXCEPT !.timer = (\E l \in Levels : s.loss_time[l]) \/ s.inflight > 0]
-----------------------------------------------------------------------------
(* Steps.  cost is the number of faults the step stands for.               *)
\* How many packets of level l were sent loss_delay ago: up to which number.
Ages(l) == {0} \cup DOMAIN sk.packet_sent[l]

Options == [ok : BOOLEAN, hold : IF MayPace THEN -1 .. Len(kinds) - 1 ELSE {-1}]

\* From base, the sender becomes Result(base, o) for some choices o.
Becomes(base, Result(_, _), cost) ==
    \E s \in {base}, o \in Options :
        /\ faults' = faults + cost + (IF o.ok THEN 0 ELSE 1)
        /\ faults' <= MaxFaults
        /\ o.hold < Len(s.stream_list) /\ (o.hold = 0 => s.pacing_time)
        /\ sk' = Result(s, o)
        /\ o.ok \/ sk'.oom
        /\ lost' = [l \in Levels |-> lost[l] \cap DOMAIN sk'.packet_sent[l]]

\* quic_outq_stream_append: the last frame of stream_list has not been sent and is of the same
\* stream, so that it takes the data of the write f.
Appendable(s, f) ==
    /\ IsStream(f) /\ s.stream_list # <<>>
    /\ LET last == Last(s.stream_list) IN kinds[last] = kinds[f] /\ s.number[last] < 0

\* A frame for f enters its list (quic_outq_stream_tail, _dgram_tail, _ctrl_tail); for a
\* RESET_STREAM frame the stream's frames are purged first (quic_sock_stream_reset).
Enqueue(s, f) ==
    LET b == IF kinds[f] \in {"control", "reset"} THEN 0 ELSE 1
        t == [s EXCEPT !.bytes[f] = b, !.wmem = @ + b]
    IN  CASE IsStream(f) ->
               [t EXCEPT !.stream_list = Append(@, f), !.stream_list_len = @ + 1]
          [] kinds[f] = "datagram" -> [t EXCEPT !.datagram_list = Append(@, f)]
          [] kinds[f] = "reset" ->
               [list_purge(t, {g \in Frames : kinds[g] = "stream"}) EXCEPT
                   !.control_list = Append(@, f)]
          [] OTHER ->
               [t EXCEPT !.control_list = Insert(@, f, LAMBDA g : rank(f) < rank(g))]

\* sendmsg, a frame handler or quic_sock_stream_reset, when a frame is created for what is sent
\* next: unless it comes with MSG_MORE everything that may be sent is sent.
Queue ==
    LET f == made + 1
        cork == f \in corked
        t == [Enqueue(sk, f) EXCEPT
                 !.force_delay = IF kinds[f] \in {"control", "reset"} THEN @ ELSE cork]
    IN  /\ made < Len(kinds) /\ ~Appendable(sk, f)
        /\ made' = f /\ UNCHANGED confirmed
        /\ Becomes(t, LAMBDA u, o : IF cork THEN u ELSE transmit(u, FALSE, FALSE, o), 0)

\* sendmsg when the data is appended to a waiting frame: nothing is sent, with or without
\* MSG_MORE, and force_delay stays as the write that created the frame left it.
QueueAppended ==
    LET f == made + 1
        last == Last(sk.stream_list)
    IN  /\ made < Len(kinds) /\ Appendable(sk, f)
        /\ made' = f
        /\ sk' = [sk EXCEPT !.bytes[last] = @ + 1, !.wmem = @ + 1]
        /\ UNCHANGED <<confirmed, lost, faults>>

\* An ACK frame of level l: the records of S, which may be older than the largest number it
\* reports.  Afterwards losses are marked; only the application level transmits at once.
Ack(l) ==
    /\ UNCHANGED <<made, confirmed>>
    /\ \E S \in SUBSET (DOMAIN sk.packet_sent[l] \ lost[l]) \ {{}}, w \in Windows,
          largest \in BOOLEAN, ack \in {FALSE, l = App} :
         \E s \in {transmitted_sack([sk EXCEPT !.window = w], l, S, largest)},
            old \in Ages(l) \ S :
             Becomes(update_loss_timer(retransmit_mark(s, l, old, FALSE)),
                     LAMBDA t, o : IF l = App THEN transmit(t, ack, FALSE, o) ELSE t, 0)

\* A HANDSHAKE_DONE frame, once the server has the client's handshake data: it acknowledges
\* everything of the Handshake level.
HandshakeDone ==
    LET S == DOMAIN sk.packet_sent[Handshake]
        Arrived(f) == \/ f \notin Listed(sk)
                      \/ \E n \in S \ lost[Handshake] : Contains(sk.packet_sent[Handshake][n], f)
    IN  /\ ~confirmed /\ confirmed' = TRUE
        /\ \A f \in Frames : kinds[f] = "crypto" => f <= made /\ Arrived(f)
        /\ \E w \in Windows, ack \in BOOLEAN :
             Becomes(transmitted_sack([sk EXCEPT !.window = w], Handshake, S, FALSE),
                     LAMBDA s, o : transmit(s, ack, FALSE, o), 0)
        /\ UNCHANGED made

\* A packet that must be acknowledged, or the delayed-ACK timer: an ACK frame is sent.
Receive ==
    /\ UNCHANGED <<made, confirmed>>
    /\ Becomes(sk, LAMBDA s, o : transmit(s, TRUE, FALSE, o), 0)

\* quic_outq_transmit_pto when a loss time is set: it has come for the level's first packet.
LossTime ==
    /\ sk.timer
    /\ UNCHANGED <<made, confirmed>>
    /\ \E l \in {k \in Levels : sk.loss_time[k]}, w \in Windows : \E old \in Ages(l) :
         /\ old = 0 => sk.packet_sent[l] = <<>>
         /\ Becomes(update_loss_timer(retransmit_mark([sk EXCEPT !.window = w], l, old, FALSE)),
                    LAMBDA s, o : transmit(s, FALSE, FALSE, o), 0)

\* quic_outq_transmit_pto otherwise: one packet, or a PING frame.
Probe ==
    LET l == IF sk.inflight = 0 \/ sk.space_inflight[Handshake] > 0 THEN Handshake ELSE App
        Result(t, o) ==
            With(transmit_single(t, l, o), LAMBDA s :
                 With(IF s.next_pn # t.next_pn THEN s ELSE transmit(s, FALSE, l = App, o),
                      update_loss_timer))
        early == \E k \in Levels : DOMAIN sk.packet_sent[k] \ lost[k] # {}
    IN  /\ sk.timer /\ \A k \in Levels : ~sk.loss_time[k]
        /\ UNCHANGED <<made, confirmed>>
        /\ Becomes(sk, Result, IF early THEN 1 ELSE 0)

\* quic_timer_pace_handler: the pacing time has come.
Pace ==
    /\ sk.pacing
    /\ UNCHANGED <<made, confirmed>>
    /\ Becomes([sk EXCEPT !.pacing = FALSE, !.pacing_time = FALSE],
               LAMBDA s, o : transmit(s, FALSE, FALSE, o), 0)

\* quic_packet_rcv_err_pmtu without PLPMTUD: everything outstanding is sent again.
MtuChange ==
    /\ UNCHANGED <<made, confirmed>>
    /\ \E w \in Windows :
         Becomes(update_loss_timer(retransmit_mark([sk EXCEPT !.window = w], App, 0, TRUE)),
                 LAMBDA s, o : transmit(s, FALSE, FALSE, o), 1)

\* The network loses a packet.
Lose(l) ==
    /\ faults < MaxFaults
    /\ faults' = faults + 1
    /\ \E n \in DOMAIN sk.packet_sent[l] \ lost[l] : lost' = [lost EXCEPT ![l] = @ \cup {n}]
    /\ UNCHANGED <<sk, made, confirmed>>

Next ==
    \/ Queue \/ QueueAppended \/ HandshakeDone \/ Receive \/ LossTime \/ Probe \/ Pace \/ MtuChange
    \/ \E l \in Levels : Ack(l) \/ Lose(l)

Spec == Init /\ [][Next]_vars

\* The application sends what it has; packets that are not lost are acknowledged; the server
\* sends HANDSHAKE_DONE until it is acknowledged; timers fire: one of these happens while any
\* can.
Progress ==
    \/ Queue \/ QueueAppended \/ HandshakeDone \/ LossTime \/ Probe \/ Pace
    \/ \E l \in Levels : Ack(l)

FairSpec == Spec /\ WF_vars(Progress)
-----------------------------------------------------------------------------
(* Properties *)
\* Every variable has its type, and records name packets and frames that exist.
TypeOK ==
    /\ made \in 0 .. Len(kinds) /\ faults \in 0 .. MaxFaults
    /\ Listed(sk) \subseteq 1 .. made
    /\ sk.window \in Windows /\ sk.stream_list_len \in Nat /\ sk.wmem \in Nat
    /\ \A l \in Levels :
        /\ DOMAIN sk.packet_sent[l] \subseteq 1 .. sk.next_pn[l] - 1
        /\ sk.max_pn_acked_seen[l] < sk.next_pn[l]
        /\ \A n \in DOMAIN sk.packet_sent[l] : sk.packet_sent[l][n] \in Seq(1 .. made)

\* Every frame is in at most one list, and a frame that waits for its acknowledgement is in a
\* packet on record, so that it will be acknowledged or found lost (outqueue.h:13).
Tracked ==
    LET Size == Len(sk.control_list) + Len(sk.datagram_list) + Len(sk.stream_list)
                  + Len(sk.transmitted_list)
    IN  /\ Size = Cardinality(Listed(sk))
        /\ \A f \in ToSet(sk.transmitted_list) :
             \E n \in DOMAIN sk.packet_sent[level(f)] : Contains(sk.packet_sent[level(f)][n], f)

\* The bytes in flight of the connection and of each packet number space are those of the
\* packets on record (quic_packet_pack_frames, _transmitted_sack, _retransmit_mark).
InflightExact ==
    /\ \A l \in Levels : sk.space_inflight[l] = Length(sk, l, DOMAIN sk.packet_sent[l])
    /\ sk.inflight = sk.space_inflight[App] + sk.space_inflight[Handshake]

\* Send memory is charged exactly for the frames still in a list, whichever way frames leave.
WmemExact == sk.wmem = Bytes(sk, Listed(sk))

\* While a packet is outstanding the loss timer runs (quic_outq_update_loss_timer).
TimerRuns == sk.inflight > 0 => sk.timer

\* Queues hold frames by level; at a level the frames that were sent come first, by the first
\* packet number used, then those that were not (the comment at outqueue.c:889).
QueueOrder ==
    \A q \in {sk.control_list, sk.stream_list} : \A i, j \in DOMAIN q :
        i < j => \/ rank(q[i]) < rank(q[j])
                 \/ /\ rank(q[i]) = rank(q[j])
                    /\ \/ sk.number[q[j]] < 0
                       \/ sk.number[q[i]] > 0 /\ sk.number[q[i]] <= sk.number[q[j]]

\* Unless a packet could not be allocated, frames wait in that order, whatever interleaving of
\* losses, probes and new frames.
QueueOrderUnlessOom == sk.oom \/ QueueOrder

\* Frames are where they belong, in the order they are to be sent.
Queued == TypeOK /\ Tracked /\ QueueOrderUnlessOom

\* What the congestion window and the socket's send buffer are charged is what is owed.
Charged == InflightExact /\ WmemExact

\* A frame that was acknowledged, dropped or purged is never queued again, whatever becomes
\* of other packets that carry it.
DoneStays == [][\A f \in 1 .. made : f \notin Listed(sk) => f \notin Listed(sk')]_vars

\* Everything but DATAGRAM frames is acknowledged or purged in the end, although packets are
\* lost and small writes wait for acknowledgements, if packets can be allocated.  It is not so
\* when the last stream write is appended to a frame that waits since a write with MSG_MORE.
AllSent == <>(\/ made = Len(kinds) /\ \A f \in Listed(sk) : kinds[f] = "datagram"
             \/ sk.oom)

\* Everything is acknowledged or purged in the end, but DATAGRAM frames and stream data that
\* was never sent and that force_delay, left set by a write with MSG_MORE, holds back.
AllDone ==
    <>(\/ /\ made = Len(kinds)
          /\ \A f \in Listed(sk) :
               \/ kinds[f] = "datagram"
               \/ IsStream(f) /\ sk.number[f] < 0 /\ sk.force_delay
       \/ sk.oom)
=============================================================================
