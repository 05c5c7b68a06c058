----------------------------- MODULE Handshake -----------------------------
(***************************************************************************)
(* A connection from connect() and accept() to ESTABLISHED: the client,    *)
(* the listening socket with its request socks, the sockets accept()       *)
(* creates, and libquic's steps that carry TLS messages and secrets        *)
(* between the socket and the TLS library.                                 *)
(*                                                                         *)
(* A socket of the server is named by the Destination Connection ID of the *)
(* Initial packet it was created for: "orig", chosen by connect(), or one  *)
(* of Retries, chosen by a Retry packet.  The same name stands for the     *)
(* Initial keys derived from that ID and for the TLS session of the        *)
(* socket.  <<"first", s>> is that ID and <<"own", s>> the Source          *)
(* Connection ID the accepted socket chose itself.                         *)
(*                                                                         *)
(* A packet holds at most one frame that elicits an ACK, every packet is a *)
(* datagram of its own, and the congestion window never fills.             *)
(***************************************************************************)
EXTENDS Naturals, Sequences, FiniteSets, FiniteSetsExt

CONSTANTS
  Retries,    \* the connection IDs Retry packets may choose
  Validate,   \* values validate_peer_address may have
  Credit,     \* full datagrams that three times 1200 bytes pay for
  MaxCredit,  \* a bound on the credit counted
  BacklogMax, \* QUIC_INQ_BACKLOG_MAX
  MaxFaults   \* how many packets are lost and timers fire early

ASSUME CreditAssumption == Credit \in Nat \ {0}
ASSUME BoundsAssumption == MaxCredit \in Nat /\ MaxFaults \in Nat

None == "none"
ASSUME RetryAssumption == {"client", None} \cap Retries = {}

Servers == {"orig"} \cup Retries
Socks == {"client"} \cup Servers
Levels == <<"initial", "handshake", "app">>
Names == {"CH", "SH", "CERT", "SFIN", "FIN", "DONE", "CIDS"}

VARIABLES
  sk,         \* the sockets, a record each
  reqs,       \* the listener's request socks in order: [dcid, backlog]
  accepting,  \* what accept() is doing while it owns the listener
  waiting,    \* the listener's sk_backlog and deferred packets
  net,        \* packets in the network
  faults,     \* losses and early timeouts left
  validate_peer_address

vars == <<sk, reqs, accepting, waiting, net, faults, validate_peer_address>>
listener == <<reqs, accepting, waiting, validate_peer_address>>

(* The level a frame is sent at; PINGs are named by theirs. *)
LevelOf(f) ==
  IF f \in {"CH", "SH", "PING1"} THEN "initial"
  ELSE IF f \in {"CERT", "SFIN", "FIN", "PING2"} THEN "handshake" ELSE "app"
At(F, l) == {f \in F : LevelOf(f) = l}
Ping(l) == IF l = "initial" THEN "PING1" ELSE IF l = "handshake" THEN "PING2" ELSE "PING3"
Without(q, F) ==
  LET left[n \in 0..Len(q)] ==
        IF n = 0 THEN <<>> ELSE IF q[n] \in F THEN left[n - 1] ELSE Append(left[n - 1], q[n])
  IN  left[Len(q)]

(* The order of control_list: by level, then by first packet number, PINGs  *)
(* last.  A socket's queue is the set of the frames in it, sent in order.   *)
Order == <<"CH", "SH", "PING1", "CERT", "SFIN", "FIN", "PING2", "DONE", "CIDS", "PING3">>
Place == [f \in Range(Order) |-> CHOOSE i \in DOMAIN Order : Order[i] = f]
Ahead(F, f) == {g \in F : Place[g] < Place[f]}
InOrder(F) ==
  LET If(f) == IF f \in F THEN <<f>> ELSE <<>>
  IN  If("CH") \o If("SH") \o If("CERT") \o If("SFIN") \o If("FIN") \o If("DONE") \o If("CIDS")
First(F, n) == {f \in F : Cardinality(Ahead(F, f)) < n}

-----------------------------------------------------------------------------
(* connect() at the client: the first steps of libquic are to have TLS make *)
(* a ClientHello and to send it.                                            *)
NewSock == [state |-> "establishing", dest |-> None, ikey |-> None, token |-> None,
            tx |-> {"initial"}, rx |-> {"initial"}, queue |-> {}, sent |-> <<>>,
            lost |-> {}, recent |-> "initial", got |-> {}, read |-> 0, todo |-> <<>>,
            backlog |-> <<>>, need_sack |-> {}, sack_flag |-> FALSE,
            validated |-> FALSE, credit |-> 0, blocked |-> FALSE, timer |-> FALSE,
            peer |-> None]
NoSock == [NewSock EXCEPT !.state = "closed"]

Key(l, d) == [op |-> "key", level |-> l, dir |-> d]
Msg(f) == [op |-> "msg", frame |-> f]

Init ==
  /\ sk = [s \in Socks |->
             IF s = "client"
             THEN [NewSock EXCEPT !.dest = <<"first", "orig">>, !.ikey = "orig",
                                  !.todo = <<Msg("CH")>>]
             ELSE NoSock]
  /\ reqs = <<>> /\ accepting = "idle" /\ waiting = <<>>
  /\ net = {} /\ faults = MaxFaults
  /\ validate_peer_address \in Validate

-----------------------------------------------------------------------------
(* The loss timer after quic_outq_update_loss_timer: stopped when nothing   *)
(* is in flight on an established connection and when the path is blocked.  *)
update_loss_timer(s) ==
  [s EXCEPT !.timer = \/ s.lost # {}
                      \/ ~(s.sent = <<>> /\ s.state = "established") /\ ~s.blocked]

(* Whether the limit can be met, and whether an ACK can find a packet old   *)
(* enough to be lost: choices only where they make a difference.            *)
Filling(e) == IF e = "client" \/ sk[e].validated THEN {FALSE} ELSE BOOLEAN
Aged(ps) == IF \A p \in ps : p.acks = {} THEN {FALSE} ELSE BOOLEAN

(* A slip: the amplification limit is not applied.                          *)
AllowedAlways(e, s, n) == n

(* quic_outq_limit_check for the server: how many of n datagrams may go.    *)
Allowed(e, s, n) ==
  IF e # "client" /\ ~s.validated /\ s.credit < n THEN s.credit ELSE n

(* The packet that carries frame f, or none, at level l, with an ACK of     *)
(* the frames acks.                                                         *)
Packet(e, s, l, f, acks) ==
  [to |-> IF e = "client" THEN "server" ELSE "client", level |-> l,
   dcid |-> s.dest, from |-> e,
   key |-> IF l = "initial" THEN s.ikey ELSE s.peer,
   token |-> IF l = "initial" THEN s.token ELSE None, frame |-> f, acks |-> acks]

(* Sends the frames F, each in a packet; the first packet of a level that   *)
(* owes an ACK carries it, and goes alone if no frame does.                 *)
Sent(e, s, F, owed) ==
  LET Ack(l) == IF l \in owed THEN {[level |-> l, frames |-> At(s.got, l)]} ELSE {}
      Leads(f) == \A g \in Ahead(F, f) : LevelOf(g) # LevelOf(f)
  IN  {Packet(e, s, LevelOf(f), f, IF Leads(f) THEN Ack(LevelOf(f)) ELSE {}) : f \in F}
      \cup {Packet(e, s, l, None, Ack(l)) : l \in {l \in owed : At(F, l) = {}}}

(* quic_packet_pack_frames: frames other than PINGs are tracked until they  *)
(* are acknowledged, and tracking a packet sets the loss timer.             *)
Packed(e, s, F, owed) ==
  LET tracked == F \cap Names
      long == {f \in F : LevelOf(f) # "app"}
      p == [s EXCEPT !.sent = Without(@, tracked) \o InOrder(tracked),
                     !.lost = @ \ tracked,
                     !.queue = @ \ F,
                     !.need_sack = @ \ owed,
                     !.recent = IF long = {} THEN @
                                ELSE IF At(long, "handshake") = {} THEN "initial" ELSE "handshake",
                     !.credit = IF e # "client" /\ ~s.validated THEN @ - Cardinality(F) ELSE @]
  IN  IF tracked = {} THEN p ELSE update_loss_timer(p)

(* quic_outq_transmit: every frame whose level has a send key, Initial      *)
(* first, up to the amplification limit.  When the limit is met while a     *)
(* packet is still being filled, that packet stops the loss timer.          *)
Ready(s) == {f \in s.queue : LevelOf(f) \in s.tx}
transmit(e, s, filling) ==
  LET n == Allowed(e, s, Cardinality(Ready(s)))
      F == First(Ready(s), n)
      owed == s.need_sack \cap s.tx
      hit == n < Cardinality(Ready(s))
      b == [s EXCEPT !.blocked = @ \/ (hit /\ filling)]
      p == Packed(e, b, F, owed)
  IN  [s |-> [p EXCEPT !.blocked = @ \/ hit], out |-> Sent(e, s, F, owed)]

(* quic_outq_transmit_single: one packet at level l, with the first frame   *)
(* queued there or else the first one of transmitted_list.                  *)
Single(s, l) ==
  LET new == At(Ready(s), l)
  IN  First(IF new # {} THEN new ELSE At(Range(s.sent), l), 1)
transmit_single(e, s, l) ==
  LET F == Single(s, l)
      n == Allowed(e, s, Cardinality(F))
      owed == s.need_sack \cap s.tx \cap {l}
      p == Packed(e, s, First(F, n), owed)
  IN  [s |-> [p EXCEPT !.blocked = @ \/ n < Cardinality(F)],
       out |-> Sent(e, s, First(F, n), owed)]

-----------------------------------------------------------------------------
(* quic_outq_retransmit_mark: the packets of level l sent before the last   *)
(* one acknowledged are lost once loss_delay has passed (aged), and until   *)
(* then loss_time is set for them.                                          *)
retransmit_mark(s, F, aged) ==
  IF aged
  THEN [s EXCEPT !.sent = Without(@, F), !.lost = @ \ F, !.queue = @ \cup F]
  ELSE [s EXCEPT !.lost = @ \cup F]

(* quic_outq_transmitted_sack for a whole level. *)
Discard(s, l) ==
  LET F == At(Range(s.sent), l)
  IN  [s EXCEPT !.sent = Without(@, F), !.lost = @ \ F]

(* The ACK frame in a packet: the frames it covers are done with, and those *)
(* of its level sent earlier than one of them are examined for loss.        *)
Acked(s, a, aged) ==
  LET hit == {i \in DOMAIN s.sent : s.sent[i] \in a.frames}
      older == {s.sent[j] : j \in {j \in DOMAIN s.sent :
                  /\ LevelOf(s.sent[j]) = a.level /\ s.sent[j] \notin a.frames
                  /\ \E i \in hit : j < i}}
      d == [s EXCEPT !.sent = Without(@, a.frames), !.lost = @ \ a.frames]
  IN  retransmit_mark(d, older \cup At(d.lost, a.level), aged)

(* quic_outq_get_pto_time: the level to probe.                              *)
pto_level(s) ==
  LET flying == {LevelOf(f) : f \in Range(s.sent)}
  IN  IF flying = {} THEN IF "handshake" \in s.tx THEN "handshake" ELSE "initial"
      ELSE IF {"initial", "handshake"} \subseteq flying
           THEN IF s.recent = "initial" THEN "handshake" ELSE "initial"
      ELSE IF "initial" \in flying THEN "initial"
      ELSE IF "handshake" \in flying THEN "handshake" ELSE "app"

-----------------------------------------------------------------------------
(* What processing one packet does to a socket                              *)

(* The keys that open a packet of level l.                                  *)
KeyOf(s, l) == IF l = "initial" THEN s.ikey ELSE s.peer

(* quic_frame_process for the packet's ACK, CRYPTO and other frames.        *)
frame_process(s, p, aged) ==
  LET a == IF p.acks = {} THEN s ELSE Acked(s, CHOOSE x \in p.acks : TRUE, aged)
      g == IF p.frame \in Names THEN [a EXCEPT !.got = @ \cup {p.frame}] ELSE a
      f == IF p.frame = "SH" /\ "SH" \notin s.got THEN [g EXCEPT !.peer = p.from]
           ELSE IF p.frame = "DONE" THEN Discard(g, "handshake") ELSE g
  IN  IF p.acks = {} THEN f ELSE update_loss_timer(f)

(* A slip: any packet validates the path.                                   *)
ValidatedByAny(e, s, p) ==
  IF p.level = "app" THEN s ELSE Discard([s EXCEPT !.validated = TRUE], "initial")

(* Until the path is validated an Initial packet adds credit and the first  *)
(* Handshake packet validates it and ends the Initial packets in flight.    *)
Validation(e, s, p) ==
  IF s.validated \/ p.level = "app" THEN s
  ELSE IF p.level = "handshake" THEN Discard([s EXCEPT !.validated = TRUE], "initial")
  ELSE [s EXCEPT !.credit = IF e = "client" THEN @ ELSE Min({@ + Credit, MaxCredit})]

(* An ACK is owed for an ack-eliciting packet; only the server waits for    *)
(* its TLS messages to carry the ACK of an Initial packet.                  *)
Owing(e, s, p) ==
  IF p.frame = None THEN s
  ELSE [s EXCEPT !.need_sack = @ \cup {p.level},
                 !.sack_flag = @ \/ p.level # "initial" \/ e = "client" \/ p.frame \notin Names,
                 !.dest = IF e = "client" /\ p.level = "initial"
                          THEN <<"own", p.from>> ELSE @]

(* A slip: a path once blocked stays so.                                    *)
BlockedForGood(s, p) == s

(* A slip: the timer is not set again.                                      *)
UnblockedOnly(s, p) == IF p.level # "app" THEN [s EXCEPT !.blocked = FALSE] ELSE s

(* After a long-header packet a path that was blocked may send again.       *)
Unblocked(s, p) ==
  IF s.blocked /\ p.level # "app" THEN update_loss_timer([s EXCEPT !.blocked = FALSE]) ELSE s

(* quic_packet_process of a packet that is neither Retry nor for the        *)
(* listener: put off until its keys are installed, dropped if they do not   *)
(* open it, processed otherwise.                                            *)
process(e, s, p, aged) ==
  IF p.level \notin s.rx
  THEN [s EXCEPT !.backlog = IF Len(@) < BacklogMax THEN Append(@, p) ELSE @]
  ELSE IF p.key # KeyOf(s, p.level) THEN s
  ELSE Unblocked(Owing(e, Validation(e, frame_process(s, p, aged), p), p), p)

processAll(e, s, ps, aged) ==
  LET done[n \in 0..Len(ps)] == IF n = 0 THEN s ELSE process(e, done[n - 1], ps[n], aged)
  IN  done[Len(ps)]

Emit(e, r, n) ==
  \E x \in {r} : /\ net' = n \cup x.out
                 /\ sk' = [sk EXCEPT ![e] = x.s]

-----------------------------------------------------------------------------
(* libquic and TLS                                                          *)

(* What TLS does with a message, as the callbacks quic_set_secret and       *)
(* quic_msg_read see it: secrets are set during gnutls_handshake, messages  *)
(* are collected and sent after it.                                         *)
Response(f) ==
  IF f = "CH" THEN <<Key("handshake", "tx"), Key("handshake", "rx"), Key("app", "tx"),
                     Msg("SH"), Msg("CERT"), Msg("SFIN")>>
  ELSE IF f = "SH" THEN <<Key("handshake", "tx"), Key("handshake", "rx")>>
  ELSE IF f = "SFIN" THEN <<Key("app", "tx"), Key("app", "rx"), Msg("FIN")>>
  ELSE IF f = "FIN" THEN <<Key("app", "rx")>> ELSE <<>>
Script(e) == IF e = "client" THEN <<"SH", "CERT", "SFIN">> ELSE <<"CH", "FIN">>

(* quic_handshake_recvmsg_process: the next message in CRYPTO order.        *)
Readable(e) == LET s == sk[e] IN
  s.state # "closed" /\ s.todo = <<>> /\ s.read < Len(Script(e))
  /\ Script(e)[s.read + 1] \in s.got
RecvMsg(e) ==
  /\ Readable(e)
  /\ sk' = [sk EXCEPT ![e].read = @ + 1, ![e].todo = Response(Script(e)[sk[e].read + 1])]
  /\ UNCHANGED <<listener, net, faults>>

(* quic_handshake_sendmsg_process: all messages but the last have MSG_MORE  *)
(* and are only queued.                                                     *)
SendMsg(e) ==
  /\ sk[e].todo # <<>> /\ Head(sk[e].todo).op = "msg"
  /\ LET s == [sk[e] EXCEPT !.queue = @ \cup {Head(sk[e].todo).frame}, !.todo = Tail(@)]
     IN  IF s.todo # <<>> THEN Emit(e, [s |-> s, out |-> {}], net)
         ELSE \E filling \in Filling(e) : Emit(e, transmit(e, s, filling), net)
  /\ UNCHANGED <<listener, faults>>

(* Both 1-RTT keys are set: the server ends its Handshake packets in flight *)
(* and sends HANDSHAKE_DONE, both send NEW_CONNECTION_ID.                   *)
Completed(e, s, filling) ==
  LET d == IF e = "client" THEN s ELSE Discard(s, "handshake")
      q == [d EXCEPT !.queue = @ \cup {IF e = "client" THEN "CIDS" ELSE "DONE"}]
      r == transmit(e, q, filling)
  IN  [r EXCEPT !.s.state = "established"]

(* A slip: what waited for the key is left where it is.                     *)
InstalledOnly(e, s, k, aged) ==
  IF k.dir = "tx" THEN [s EXCEPT !.tx = @ \cup {k.level}]
  ELSE [s EXCEPT !.rx = @ \cup {k.level}]

(* quic_sock_set_crypto_secret: a receive key lets the packets that waited  *)
(* for it be processed, in the order they came.                             *)
Installed(e, s, k, aged) ==
  IF k.dir = "tx" THEN [s EXCEPT !.tx = @ \cup {k.level}]
  ELSE processAll(e, [s EXCEPT !.rx = @ \cup {k.level}, !.backlog = <<>>,
                               !.token = IF k.level = "app" THEN None ELSE @],
                  s.backlog, aged)
SetSecret(e) ==
  /\ sk[e].todo # <<>> /\ Head(sk[e].todo).op = "key"
  /\ \E aged \in Aged(Range(sk[e].backlog)), filling \in Filling(e) :
       \E s \in {Installed(e, [sk[e] EXCEPT !.todo = Tail(@)], Head(sk[e].todo), aged)} :
         IF "app" \in s.tx \cap s.rx
         THEN Emit(e, Completed(e, s, filling), net)
         ELSE Emit(e, [s |-> s, out |-> {}], net)
  /\ UNCHANGED <<listener, faults>>

-----------------------------------------------------------------------------
(* The listener                                                             *)

Hashed(s) == sk[s].state # "closed"
Requested(p) == {i \in DOMAIN reqs : <<"first", reqs[i].dcid>> = p.dcid}

(* A slip: the check for a socket accepted meanwhile is left out.           *)
AcceptSockUnseen(p) == FALSE

(* quic_accept_sock_exists: a socket accepted after the packet was queued.  *)
accept_sock_exists(p) == p.dcid[1] = "first" /\ Hashed(p.dcid[2])

(* A Retry chooses an ID nobody knows; one whose Retry was lost serves      *)
(* again.                                                                   *)
InUse(r) ==
  \/ r \in {sk["client"].ikey, sk["client"].peer} \/ Hashed(r)
  \/ \E p \in net \cup Range(waiting) : p.from = r \/ p.dcid[2] = r
  \/ \E i \in DOMAIN reqs : reqs[i].dcid = r

RetryPacket(r) == [to |-> "client", level |-> "retry", dcid |-> <<"own", "client">>,
                   from |-> r, key |-> None, token |-> r, frame |-> None, acks |-> {}]

(* quic_packet_listen_process: queue the packet to its request, hand it to  *)
(* the socket accepted meanwhile, answer with a Retry, or make a request.   *)
(* The Stateless Reset sent for anything but an Initial packet matches no   *)
(* token the client knows, and is left out.                                 *)
QueueToRequest(p, n) ==
  /\ Requested(p) # {}
  /\ reqs' = [i \in DOMAIN reqs |->
                IF i \in Requested(p) THEN [reqs[i] EXCEPT !.backlog = Append(@, p)]
                ELSE reqs[i]]
  /\ net' = n /\ UNCHANGED sk
ProcessAccepted(p, n) ==
  /\ Requested(p) = {} /\ accept_sock_exists(p)
  /\ \E aged \in Aged({p}) :
       sk' = [sk EXCEPT ![p.dcid[2]] = process(p.dcid[2], @, p, aged)]
  /\ net' = n /\ UNCHANGED reqs
Ignore(p, n) ==
  /\ Requested(p) = {} /\ ~accept_sock_exists(p)
  /\ \/ p.level # "initial"
     \/ validate_peer_address /\ p.token = None /\ \A r \in Retries : InUse(r)
  /\ net' = n /\ UNCHANGED <<sk, reqs>>
SendRetry(p, n) ==
  /\ Requested(p) = {} /\ ~accept_sock_exists(p)
  /\ p.level = "initial" /\ validate_peer_address /\ p.token = None
  /\ \E r \in Retries : ~InUse(r) /\ net' = n \cup {RetryPacket(r)}
  /\ UNCHANGED <<sk, reqs>>
MakeRequest(p, n) ==
  /\ Requested(p) = {} /\ ~accept_sock_exists(p)
  /\ p.level = "initial" /\ (validate_peer_address => p.token # None)
  /\ reqs' = Append(reqs, [dcid |-> p.dcid[2], backlog |-> <<p>>])
  /\ net' = n /\ UNCHANGED sk
Listen(p, n) ==
  \/ QueueToRequest(p, n) \/ ProcessAccepted(p, n) \/ Ignore(p, n)
  \/ SendRetry(p, n) \/ MakeRequest(p, n)

(* accept() takes the first request and owns the listener ... *)
Accept ==
  /\ accepting = "idle" /\ reqs # <<>>
  /\ accepting' = "setup"
  /\ UNCHANGED <<sk, reqs, waiting, net, faults, validate_peer_address>>

(* ... sets up and hashes the socket, which processes the packets of the    *)
(* request, and frees the request ...                                       *)
AcceptSetup ==
  /\ accepting = "setup"
  /\ \E aged \in Aged(Range(Head(reqs).backlog)), s \in {Head(reqs).dcid} :
       sk' = [sk EXCEPT ![s] =
                processAll(s, [NewSock EXCEPT !.dest = <<"own", "client">>, !.ikey = s,
                                              !.peer = s], Head(reqs).backlog, aged)]
  /\ reqs' = Tail(reqs)
  /\ accepting' = "release"
  /\ UNCHANGED <<waiting, net, faults, validate_peer_address>>

(* ... and processes what came in the meantime before it lets go.           *)
Release ==
  /\ accepting = "release" /\ waiting = <<>>
  /\ accepting' = "idle"
  /\ UNCHANGED <<sk, reqs, waiting, net, faults, validate_peer_address>>

(* Packets put off to sk_backlog, or to the workqueue for address           *)
(* validation, are processed by the listener they were queued to.           *)
ListenerBacklog ==
  /\ accepting \in {"idle", "release"} /\ waiting # <<>>
  /\ Listen(Head(waiting), net)
  /\ waiting' = Tail(waiting)
  /\ UNCHANGED <<accepting, faults, validate_peer_address>>

-----------------------------------------------------------------------------
(* Receiving, timers, the network                                           *)

(* quic_packet_get_sock: by Source Connection ID, else by the ID the socket *)
(* was created for, else the listener.                                      *)
Lookup(p) == IF p.to = "client" THEN {"client"} ELSE {s \in Servers : Hashed(s) /\ s = p.dcid[2]}

Receive(p) ==
  /\ p.level # "retry" /\ Lookup(p) # {}
  /\ net' = net \ {p}
  /\ UNCHANGED <<listener, faults>>
  /\ \E e \in Lookup(p), aged \in Aged({p}) : sk' = [sk EXCEPT ![e] = process(e, @, p, aged)]

ReceiveListen(p) ==
  /\ Lookup(p) = {}
  /\ IF accepting # "idle" \/ (validate_peer_address /\ Requested(p) = {})
     THEN /\ waiting' = Append(waiting, p)
          /\ net' = net \ {p}
          /\ UNCHANGED <<sk, reqs>>
     ELSE Listen(p, net \ {p}) /\ UNCHANGED waiting
  /\ UNCHANGED <<accepting, faults, validate_peer_address>>

(* quic_packet_retry_process: the client takes the token, the Initial keys  *)
(* and the Destination Connection ID of the Retry and sends its Initial     *)
(* frames again.  Nothing asks whether this was done before.                *)
RetryAccepted(s) == TRUE
ReceiveRetry(p) ==
  /\ p.level = "retry"
  /\ LET s == sk["client"]
         r == [s EXCEPT !.token = p.token, !.ikey = p.from, !.dest = <<"first", p.from>>]
         m == update_loss_timer(retransmit_mark(r, At(Range(s.sent), "initial"), TRUE))
     IN  IF RetryAccepted(s)
         THEN Emit("client", transmit("client", m, FALSE), net \ {p})
         ELSE sk' = sk /\ net' = net \ {p}
  /\ UNCHANGED <<listener, faults>>

(* quic_timer_sack_handler *)
SackTimer(e) ==
  /\ sk[e].sack_flag
  /\ UNCHANGED <<listener, faults>>
  /\ \E filling \in Filling(e) :
       Emit(e, transmit(e, [sk[e] EXCEPT !.sack_flag = FALSE], filling), net)

(* The loss timer runs out before anything else can happen only as a fault. *)
Quiet ==
  /\ net = {} /\ waiting = <<>> /\ reqs = <<>> /\ accepting = "idle"
  /\ \A e \in Socks : sk[e].todo = <<>> /\ ~Readable(e) /\ ~sk[e].sack_flag
                       /\ ~(sk[e].timer /\ sk[e].lost # {})

(* quic_outq_transmit_pto with loss_time set *)
LossTimer(e) ==
  /\ sk[e].timer /\ sk[e].lost # {}
  /\ \E l \in {LevelOf(f) : f \in sk[e].lost}, filling \in Filling(e) :
       \E s \in {update_loss_timer(retransmit_mark(sk[e], At(sk[e].lost, l), TRUE))} :
         Emit(e, transmit(e, s, filling), net)
  /\ UNCHANGED <<listener, faults>>

(* quic_outq_transmit_pto without: one packet with a frame to be repeated,  *)
(* or else, after an ACK that was owed, a PING.                             *)
Pto(e) ==
  /\ sk[e].timer /\ sk[e].lost = {}
  /\ IF Quiet THEN faults' = faults ELSE faults > 0 /\ faults' = faults - 1
  /\ UNCHANGED listener
  /\ \E l \in {pto_level(sk[e])} : \E r \in {transmit_single(e, sk[e], l)} :
       \E s \in {[r.s EXCEPT !.queue = @ \cup {Ping(l)}]}, filling \in Filling(e) :
         \E o \in {IF \E p \in r.out : p.frame \in Names THEN r
                   ELSE [transmit(e, s, filling) EXCEPT !.out = @ \cup r.out]} :
           Emit(e, [o EXCEPT !.s = update_loss_timer(@)], net)

Lose(p) ==
  /\ faults > 0 /\ faults' = faults - 1
  /\ net' = net \ {p}
  /\ UNCHANGED <<sk, listener>>

User == \E e \in Socks : RecvMsg(e) \/ SendMsg(e) \/ SetSecret(e)
Listener == Accept \/ AcceptSetup \/ Release \/ ListenerBacklog
Deliver == \E p \in net : Receive(p) \/ ReceiveListen(p) \/ ReceiveRetry(p)
Timers == \E e \in Socks : SackTimer(e) \/ LossTimer(e)
Progress == Deliver \/ Timers \/ User \/ Listener

Next == Progress \/ (\E e \in Socks : Pto(e)) \/ (\E p \in net : Lose(p))

Spec == Init /\ [][Next]_vars

(* Threads run, packets that are not lost arrive and timers fire: one of    *)
(* these happens while any can.  The probe timer of each end is strongly    *)
(* fair because Quiet, which stands for the time it takes, comes and goes   *)
(* with the other end's probes while the timer keeps running.               *)
FairSpec ==
  /\ Spec
  /\ WF_vars(Progress)
  /\ SF_vars(Pto("client"))
  /\ SF_vars(\E s \in Servers : Pto(s))

-----------------------------------------------------------------------------
Packets == [to : {"client", "server"}, level : {"initial", "handshake", "app", "retry"},
            dcid : {"first", "own"} \X Socks, from : Socks, key : Socks \cup {None},
            token : Retries \cup {None}, frame : Range(Order) \cup {None},
            acks : SUBSET [level : Range(Levels), frames : SUBSET Names]]

(* The type of every variable; in particular nothing is tracked twice, a    *)
(* frame marked lost is in flight, and the listener owns at most one        *)
(* request per connection ID.                                               *)
TypeOK ==
  /\ \A e \in Socks :
       /\ sk[e].state \in {"closed", "establishing", "established"}
       /\ sk[e].queue \subseteq Range(Order) /\ Range(sk[e].sent) \subseteq Names
       /\ Cardinality(Range(sk[e].sent)) = Len(sk[e].sent)
       /\ sk[e].lost \subseteq Range(sk[e].sent)
       /\ sk[e].credit \in 0..MaxCredit
       /\ \A i \in DOMAIN sk[e].backlog : sk[e].backlog[i] \in Packets
  /\ \A i, j \in DOMAIN reqs : reqs[i].dcid = reqs[j].dcid => i = j
  /\ accepting \in {"idle", "setup", "release"}
  /\ net \subseteq Packets /\ \A i \in DOMAIN waiting : waiting[i] \in Packets
  /\ faults \in 0..MaxFaults

(* A connection ID never has both a request and an accepted socket once     *)
(* accept() is done with it: a packet queued to the listener while accept() *)
(* ran goes to the new socket and does not ask for a second one             *)
(* (quic_accept_sock_exists).                                               *)
OneSocket == \A i \in DOMAIN reqs : ~Hashed(reqs[i].dcid)

(* No packet is left in the backlog whose keys are installed: whatever came *)
(* too early is processed when the receive key arrives, and a packet of a   *)
(* later level stays for its own key (quic_sock_set_crypto_secret).         *)
NothingStranded ==
  \A e \in Socks : \A i \in DOMAIN sk[e].backlog : sk[e].backlog[i].level \notin sk[e].rx

(* The server believes only what the client proved: a path is validated     *)
(* when the client has read this socket's ServerHello, and the server's     *)
(* socket is established only after the client's end of the same session.   *)
ProvenByClient ==
  \A s \in Servers :
    /\ sk[s].validated => sk["client"].peer = s /\ "handshake" \in sk["client"].tx
    /\ sk[s].state = "established" => /\ sk["client"].peer = s
                                     /\ sk["client"].state = "established"
                                     /\ sk[s].validated

(* A server socket that is owed or owes something is never left without a   *)
(* timer unless it waits for the client to give it credit: what is queued   *)
(* or in flight is covered by the loss timer, the blocked mark or a step of *)
(* libquic still to come (quic_outq_update_loss_timer).                     *)
NeverForgotten ==
  \A e \in Socks :
    sk[e].state # "closed" /\ (sk[e].queue # {} \/ sk[e].sent # <<>>)
      => sk[e].timer \/ sk[e].blocked \/ sk[e].todo # <<>>

(* Whatever is lost, delayed or sent again within the bounds, both ends     *)
(* become established on the same session, and every frame of the           *)
(* handshake is acknowledged or given up.                                   *)
Completes ==
  <>[](/\ sk["client"].state = "established"
       /\ \E s \in Servers : /\ sk["client"].peer = s /\ sk[s].state = "established"
                             /\ sk[s].sent = <<>> /\ sk["client"].sent = <<>>)

(* After the client has processed an Initial packet of the server it sends  *)
(* to the Source Connection ID of that packet (the comment in               *)
(* quic_packet_handshake_process).                                          *)
DestinationFollows ==
  "SH" \in sk["client"].got => sk["client"].dest = <<"own", sk["client"].peer>>

=============================================================================
