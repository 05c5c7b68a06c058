----------------------------- MODULE Migration ------------------------------
(***************************************************************************)
(* Connection migration between a client and a server: path validation     *)
(* (path.c, the PATH_CHALLENGE and PATH_RESPONSE handlers, the path        *)
(* timer), the detection of a new path on receive (packet.c), and the      *)
(* exchange of connection IDs it depends on (NEW_CONNECTION_ID and         *)
(* RETIRE_CONNECTION_ID).                                                  *)
(*                                                                         *)
(* A path is named by the client's address on it: the client's own         *)
(* (saddr) at the client, the one its packets arrive from (daddr) at the   *)
(* server.  A packet carries one frame.  Packets to an endpoint are kept   *)
(* in the order of their numbers and arrive in any order; one is late when *)
(* a packet with a higher number was received before it, which is all the  *)
(* code asks of the number.                                                *)
(***************************************************************************)
EXTENDS ConnId, Sequences, SequencesExt

CONSTANTS
    max_count,    \* active_connection_id_limit of both endpoints
    MaxAltProbes, \* QUIC_MAX_ALT_PROBES
    Addresses,    \* the addresses the client can bind
    AckAtOnce,    \* the data asks for an immediate ACK (a stream's end, a datagram)
    Retires,      \* the ID sets ("source", "dest") the applications shrink
    MaxMoves,     \* bound on migrations and other application calls
    MaxFaults     \* bound on packets lost or overtaken, premature timeouts, rebinding

E == {"client", "server"}
Peer(e) == IF e = "client" THEN "server" ELSE "client"
Home == "a"
NatAddr == "n"

ASSUME BoundsAssumption ==
    /\ max_count \in Nat /\ max_count >= 2
    /\ {MaxAltProbes, MaxMoves, MaxFaults} \subseteq Nat
    /\ Home \in Addresses /\ NatAddr \notin Addresses

VARIABLES
    ep,     \* the endpoints: ID sets, paths, migration state, control list
    net,    \* the packets in flight to each endpoint
    nat,    \* the NAT has rebound the client's first path
    moves,  \* migrations and other application calls so far
    faults, \* packets lost or overtaken, premature timeouts, rebinding so far
    reached \* the addresses at which the client received a challenge

vars == <<ep, net, nat, moves, faults, reached>>

AltStates == {"NONE", "PENDING", "PROBING", "SWAPPED"}

Frame(type, path, seqno, prior) ==
    [type |-> type, path |-> path, seqno |-> seqno, prior |-> prior]

Probing(f) == f.type \in {"challenge", "response", "new", "ack"}
AckEliciting(f) == f.type \in {"new", "retire", "data"}

(* quic_outq_ctrl_tail at the application level: what elicits no           *)
(* acknowledgement goes to the front, everything else to the back.         *)
CtrlTail(q, f) == IF AckEliciting(f) THEN Append(q, f) ELSE <<f>> \o q

TransmitFrame(s, f) == [s EXCEPT !.ctrl = CtrlTail(@, f)]

(* Each challenge draws new entropy, so of all the challenges and answers  *)
(* under way only those of the last one still count.  Entropy is kept as   *)
(* their age: Newest until the handler is done, then Current, then Stale.  *)
Newest == 2
Current == 1
Stale == 0

Challenge(s, path) == TransmitFrame(s, Frame("challenge", path, Newest, 0))

Age(f, type) == IF f.type = type /\ f.seqno > Stale THEN [f EXCEPT !.seqno = @ - 1] ELSE f

(* The frames of quic_outq_transmit_new_conn_id and of its counterpart,    *)
(* with what creating them does to the ID set.                             *)
TransmitNewConnIdMutant(s, prior, path) ==
    LET from == LastNumber(s.source) + 1
        to == max_count + prior
        number == FoldSet(LAMBDA n, set : Add(set, n), s.source, from..to)
    IN  [s EXCEPT !.source = number,
                  !.ctrl = @ \o [i \in 1..(to - from + 1) |->
                                     Frame("new", path, from + i - 1, prior)]]

TransmitNewConnId(s, prior, path) ==
    LET from == LastNumber(s.source) + 1
        to == max_count + prior - 1
        number == FoldSet(LAMBDA n, set : Add(set, n), s.source, from..to)
    IN  [s EXCEPT !.source = number,
                  !.ctrl = @ \o [i \in 1..(to - from + 1) |->
                                     Frame("new", path, from + i - 1, prior)]]

TransmitRetireConnId(s, prior, path) ==
    LET from == FirstNumber(s.dest)
    IN  [s EXCEPT !.dest = RemoveUpTo(@, prior - 1),
                  !.ctrl = @ \o [i \in 1..(prior - from) |->
                                     Frame("retire", path, from + i - 1, 0)]]

(* quic_outq_probe_path_alt *)
ProbePathAlt(s) ==
    LET alt == SelectAlt(s.dest, FALSE)
    IN  IF alt = None
        THEN IF s.alt_state = "PENDING"
             THEN s
             ELSE [TransmitRetireConnId(s, FirstNumber(s.dest) + 1, 0)
                       EXCEPT !.alt_state = "PENDING"]
        ELSE Challenge([s EXCEPT !.dest.alt = alt, !.alt_state = "PROBING"], 1)

UnbindMutant(s) == [s EXCEPT !.alt_probes = 0, !.path[1] = "none"]

Unbind(s) == [s EXCEPT !.alt_probes = 0, !.alt_state = "NONE", !.path[1] = "none"]
-----------------------------------------------------------------------------
(* The network.  The client's address on the wire, and where a packet of   *)
(* the server for an address arrives: at a local address the client has    *)
(* bound, unless the NAT has forgotten it.                                 *)
Wire(a) == IF nat /\ a = Home THEN NatAddr ELSE a

Local(a) == IF nat /\ a = NatAddr THEN Home ELSE a

Arrives(e, p) ==
    \/ e = "server" /\ p.addr # "none"
    \/ /\ e = "client"
       /\ ~(nat /\ p.addr = Home)
       /\ Local(p.addr) \in {ep["client"].path[0], ep["client"].path[1]} \ {"none"}

Packet(e, s, f) ==
    [addr |-> IF e = "client" THEN Wire(s.path[f.path]) ELSE s.path[f.path],
     dcid |-> Choose(s.dest, f.path), frame |-> f, late |-> FALSE]

(* The end of a handler of e that leaves its endpoint at s and the packets *)
(* flight on their way: quic_outq_transmit empties the control list.  New  *)
(* entropy makes the challenges of before stale, and a swap of the paths   *)
(* puts what is yet to be acknowledged on path 0.                          *)
Aged(q, renewed, type) ==
    [i \in DOMAIN q |-> IF renewed THEN [q[i] EXCEPT !.frame = Age(@, type)] ELSE q[i]]

Moved(q, swapped) ==
    [i \in DOMAIN q |-> IF swapped THEN [q[i] EXCEPT !.frame.path = 0] ELSE q[i]]

Transmit(e, s, flight) ==
    \E renewed \in {\E f \in Range(s.ctrl) : f.type = "challenge"} :
    \E swapped \in {s.alt_state = "SWAPPED" /\ ep[e].alt_state = "PROBING"} :
    \E sent \in {Moved(flight[Peer(e)], swapped) \o
                     [i \in DOMAIN s.ctrl |-> Packet(e, s, s.ctrl[i])]} :
        /\ ep' = [ep EXCEPT ![e] = [s EXCEPT !.ctrl = <<>>]]
        /\ net' = [x \in E |-> IF x = e
                               THEN Aged(flight[e], renewed, "response")
                               ELSE Aged(sent, renewed, "challenge")]

(* The i-th packet leaves the network, and those before it are late if it  *)
(* was received.                                                           *)
Taken(e, i) ==
    [net EXCEPT ![e] = [j \in 1..(Len(net[e]) - 1) |->
        IF j < i THEN [net[e][j] EXCEPT !.late = TRUE] ELSE net[e][j + 1]]]

Lost(e, i) == [net EXCEPT ![e] = RemoveAt(@, i)]

(* A packet that went astray: loss detection sends the frame again if it   *)
(* is one that is retransmitted.                                           *)
Resend(e, f, flight) ==
    Transmit(e, IF f.type \in {"new", "retire"} THEN TransmitFrame(ep[e], f) ELSE ep[e], flight)

Lose(e, i) ==
    /\ faults < MaxFaults
    /\ Arrives(e, net[e][i])
    /\ Resend(Peer(e), net[e][i].frame, Lost(e, i))
    /\ faults' = faults + 1
    /\ UNCHANGED <<nat, moves, reached>>

(* No socket at the address, or no such connection ID any more. *)
Drop(e, i) ==
    /\ ~Arrives(e, net[e][i]) \/ net[e][i].dcid \notin ep[e].source.ids
    /\ Resend(Peer(e), net[e][i].frame, Lost(e, i))
    /\ UNCHANGED <<nat, moves, faults, reached>>

(* Application data on the path in use, one packet of it at a time. *)
SendData(e) ==
    /\ \A p \in Range(net[Peer(e)]) : p.frame.type # "data"
    /\ \E s \in {TransmitFrame(ep[e], Frame("data", 0, 0, 0))} : Transmit(e, s, net)
    /\ UNCHANGED <<nat, moves, faults, reached>>
-----------------------------------------------------------------------------
(* quic_path_detect_alt: the path of a packet, 1 if it is the alternate    *)
(* one, and the endpoint with a new path noted.                            *)
NotePath(s, a) ==
    IF s.path[0] # a /\ s.path[1] = "none" THEN [s EXCEPT !.path[1] = a] ELSE s

PathOf(s, a) == IF s.path[0] # a /\ s.path[1] = a THEN 1 ELSE 0

(* quic_packet_path_alt_detect: the latest packet came on an alternate     *)
(* path and there is no ID for it.                                         *)
DetectAlt(s, p, a) ==
    LET t == NotePath(s, a)
        alt == SelectAlt(s.dest, p.dcid = s.source.active)
    IN  IF p.late
        THEN [st |-> s, path |-> 0, failed |-> FALSE]
        ELSE IF PathOf(t, a) = 0
        THEN [st |-> t, path |-> 0, failed |-> FALSE]
        ELSE IF alt # None
        THEN [st |-> [t EXCEPT !.dest.alt = alt], path |-> 1, failed |-> FALSE]
        ELSE [st |-> TransmitRetireConnId(t, FirstNumber(s.dest) + 1, 0),
              path |-> 1, failed |-> TRUE]

NewConnIdProcessMutant(s, f, path) ==
    LET first == FirstNumber(s.dest)
        prior == IF f.prior < first THEN first ELSE f.prior
        added == [s EXCEPT !.dest = Add(@, f.seqno)]
    IN  IF f.seqno < first
        THEN s
        ELSE IF f.seqno - prior + 1 > max_count
        THEN [s EXCEPT !.error = TRUE]
        ELSE IF prior > first THEN TransmitRetireConnId(added, prior, path) ELSE added

(* quic_frame_new_conn_id_process *)
NewConnIdProcess(s, f, path) ==
    LET first == FirstNumber(s.dest)
        prior == IF f.prior < first THEN first ELSE f.prior
        added == [s EXCEPT !.dest = Add(@, f.seqno)]
        known == IF added.alt_state = "PENDING" THEN ProbePathAlt(added) ELSE added
    IN  IF f.seqno < first
        THEN s
        ELSE IF f.seqno - prior + 1 > max_count
        THEN [s EXCEPT !.error = TRUE]
        ELSE IF prior > first THEN TransmitRetireConnId(known, prior, path) ELSE known

(* quic_frame_retire_conn_id_process *)
RetireConnIdProcess(s, f, path) ==
    LET left == [s EXCEPT !.source = RemoveUpTo(@, f.seqno)]
    IN  IF f.seqno < FirstNumber(s.source)
        THEN TransmitNewConnId(s, FirstNumber(s.source), path)
        ELSE IF f.seqno >= LastNumber(s.source)
        THEN [s EXCEPT !.error = TRUE]
        ELSE TransmitNewConnId(left, FirstNumber(left.source), path)

PathResponseProcessMutant(s, f) ==
    IF s.alt_state # "PROBING"
    THEN s
    ELSE [s EXCEPT !.alt_probes = 0,
                   !.alt_state = "SWAPPED",
                   !.path = [k \in 0..1 |-> s.path[1 - k]],
                   !.ctrl = [j \in DOMAIN @ |-> [@[j] EXCEPT !.path = 0]],
                   !.dest = SwapActive(@)]

(* quic_frame_path_response_process, with quic_path_swap,                  *)
(* quic_outq_update_path and quic_conn_id_swap_active.                     *)
PathResponseProcess(s, f) ==
    IF f.seqno # Current \/ s.alt_state # "PROBING"
    THEN s
    ELSE [s EXCEPT !.alt_probes = 0,
                   !.alt_state = "SWAPPED",
                   !.path = [k \in 0..1 |-> s.path[1 - k]],
                   !.ctrl = [j \in DOMAIN @ |-> [@[j] EXCEPT !.path = 0]],
                   !.dest = SwapActive(@)]

FrameProcess(s, f, path) ==
    CASE f.type \in {"data", "ack"} -> s
      [] f.type = "challenge" -> TransmitFrame(s, Frame("response", path, f.seqno, 0))
      [] f.type = "response" -> PathResponseProcess(s, f)
      [] f.type = "new" -> NewConnIdProcess(s, f, path)
      [] f.type = "retire" -> RetireConnIdProcess(s, f, path)

(* quic_packet_path_alt_process, for the packet with the highest number. *)
AltProcess(s, p, path) ==
    IF path = 1
    THEN IF s.alt_state = "NONE" THEN ProbePathAlt(s) ELSE s
    ELSE IF Probing(p.frame) \/ s.alt_state # "SWAPPED"
    THEN s
    ELSE [Unbind(s) EXCEPT !.dest.alt = None, !.source = UpdateActive(@, p.dcid)]

(* quic_packet_app_process and quic_packet_app_process_done: what asks for *)
(* it is acknowledged at once on the path it came on, other data later on  *)
(* path 0 (ACKs there change nothing and are left out).  A packet that     *)
(* finds no ID for its path is dropped before its number is marked: for    *)
(* the sender it is lost.                                                  *)
Detected(e, p) == DetectAlt(ep[e], p, IF e = "client" THEN Local(p.addr) ELSE p.addr)

AppProcess(s, p, path) ==
    LET t == FrameProcess(s, p.frame, path)
        u == IF p.late \/ t.error THEN t ELSE AltProcess(t, p, path)
        immediate == p.frame.type \in {"new", "retire"} \cup (IF AckAtOnce THEN {"data"} ELSE {})
    IN  IF immediate /\ path = 1 THEN TransmitFrame(u, Frame("ack", path, 0, 0)) ELSE u

Receive(e, i) ==
    LET p == net[e][i]
    IN  /\ Arrives(e, p) /\ p.dcid \in ep[e].source.ids
        /\ ~ep[e].error
        /\ \E d \in {Detected(e, p)} :
              IF d.failed
              THEN Transmit(e, d.st, [net EXCEPT ![e][i].addr = "none"])
              ELSE \E s \in {AppProcess(d.st, p, d.path)} : Transmit(e, s, Taken(e, i))
        /\ reached' = IF e = "client" /\ p.frame.type = "challenge"
                      THEN reached \cup {p.addr}
                      ELSE reached
        /\ \/ i = 1 /\ UNCHANGED faults
           \/ i > 1 /\ faults < MaxFaults /\ faults' = faults + 1
        /\ UNCHANGED <<nat, moves>>
-----------------------------------------------------------------------------
PathExpiredMutant(s) ==
    IF s.alt_state # "PROBING"
    THEN Challenge(s, 0)
    ELSE IF s.alt_probes <= MaxAltProbes
    THEN Challenge([s EXCEPT !.alt_probes = @ + 1], 1)
    ELSE Challenge(Unbind(s), 0)

PathExpired(s) ==
    IF s.alt_state # "PROBING"
    THEN Challenge(s, 0)
    ELSE IF s.alt_probes < MaxAltProbes
    THEN Challenge([s EXCEPT !.alt_probes = @ + 1], 1)
    ELSE Challenge(Unbind(s), 0)

(* quic_timer_path_handler.  The timer runs for at least twice the probe   *)
(* timeout, so while it probes it normally finds its challenge answered or *)
(* lost; otherwise every packet sent restarts it, and it finds the         *)
(* connection idle.                                                        *)
Idle == \A e \in E : net[e] = <<>>

Outstanding(e) ==
    \/ \E p \in Range(net[Peer(e)]) : p.frame.type = "challenge"
    \/ \E p \in Range(net[e]) : p.frame.type = "response"

PathTimer(e) ==
    /\ ~ep[e].error
    /\ IF ep[e].alt_state = "PROBING"
       THEN \/ ~Outstanding(e) /\ UNCHANGED faults
            \/ Outstanding(e) /\ faults < MaxFaults /\ faults' = faults + 1
       ELSE Idle /\ UNCHANGED faults
    /\ \E s \in {PathExpired(ep[e])} : Transmit(e, s, net)
    /\ UNCHANGED <<nat, moves, reached>>

(* quic_sock_connection_migrate on an established connection. *)
ConnectionMigrate(a) ==
    /\ moves < MaxMoves
    /\ a # ep["client"].path[0]
    /\ ep["client"].alt_state = "NONE"
    /\ Transmit("client", ProbePathAlt([ep["client"] EXCEPT !.path[1] = a]), net)
    /\ moves' = moves + 1
    /\ UNCHANGED <<nat, faults, reached>>

Rebind ==
    /\ ~nat /\ faults < MaxFaults
    /\ nat' = TRUE
    /\ faults' = faults + 1
    /\ UNCHANGED <<ep, net, moves, reached>>

(* quic_sock_set_connection_id, for the calls it accepts: a later active   *)
(* ID, or none to leave it, and the number below which IDs are retired, or *)
(* none to retire nothing.                                                 *)
SetConnectionId(e, set) ==
    /\ moves < MaxMoves
    /\ set = "dest" => ep[e].dest.alt = None
    /\ \E active \in {m \in ep[e][set].ids : m >= ep[e][set].active} :
          LET s == [ep[e] EXCEPT ![set].active = active]
          IN  \/ Transmit(e, s, net)
              \/ \E prior \in (FirstNumber(ep[e][set]) + 1)..LastNumber(ep[e][set]) :
                    Transmit(e, IF set = "dest"
                                THEN TransmitRetireConnId(s, prior, 0)
                                ELSE TransmitNewConnId(s, prior, 0), net)
    /\ moves' = moves + 1
    /\ UNCHANGED <<nat, faults, reached>>
-----------------------------------------------------------------------------
(* Both endpoints have just entered the established state, and each has    *)
(* sent the other the rest of its IDs; or these have arrived and both      *)
(* applications have moved on to the last one.                             *)
InitEndpoint ==
    TransmitNewConnId(
        [source |-> Add(EmptySet, 0), dest |-> Add(EmptySet, 0),
         path |-> [k \in 0..1 |-> IF k = 0 THEN Home ELSE "none"],
         alt_state |-> "NONE", alt_probes |-> 0, ctrl |-> <<>>, error |-> FALSE], 0, 0)

Fresh ==
    /\ ep = [e \in E |-> [InitEndpoint EXCEPT !.ctrl = <<>>]]
    /\ net = [e \in E |-> [i \in DOMAIN InitEndpoint.ctrl |->
                  [addr |-> Home, dcid |-> 0, frame |-> InitEndpoint.ctrl[i], late |-> FALSE]]]

AtLastId ==
    /\ ep = [e \in E |-> [InitEndpoint EXCEPT
                 !.ctrl = <<>>,
                 !.dest = [InitEndpoint.source EXCEPT !.active = max_count - 1]]]
    /\ net = [e \in E |-> <<>>]

Init ==
    /\ Fresh \/ AtLastId
    /\ nat = FALSE
    /\ moves = 0
    /\ faults = 0
    /\ reached = {}

Next ==
    \/ \E e \in E : \/ SendData(e)
                    \/ \E i \in 1..Len(net[e]) : Receive(e, i) \/ Drop(e, i) \/ Lose(e, i)
                    \/ PathTimer(e)
                    \/ \E set \in Retires : SetConnectionId(e, set)
    \/ \E a \in Addresses : ConnectionMigrate(a)
    \/ Rebind

Spec == Init /\ [][Next]_vars

(* The oldest packet in flight is received or dropped in the end, the      *)
(* applications have something to send, the timers run.                    *)
Oldest(e) == net[e] # <<>> /\ (Receive(e, 1) \/ Drop(e, 1))

FairSpec ==
    /\ Spec
    /\ \A e \in E : /\ WF_vars(SendData(e))
                    /\ WF_vars(Oldest(e))
                    /\ WF_vars(PathTimer(e))
-----------------------------------------------------------------------------
TypeOK ==
    /\ \A e \in E : /\ ep[e].source \in IdSet /\ ep[e].dest \in IdSet
                    /\ ep[e].path \in [0..1 -> Addresses \cup {NatAddr, "none"}]
                    /\ ep[e].alt_state \in AltStates
                    /\ ep[e].alt_probes \in 0..MaxAltProbes
    /\ reached \subseteq Addresses \cup {NatAddr}

(* No endpoint sends what makes its peer close the connection with a       *)
(* CONNECTION_ID_LIMIT or a PROTOCOL_VIOLATION error, in whatever order    *)
(* the NEW_CONNECTION_ID and RETIRE_CONNECTION_ID frames arrive.           *)
NoConnIdError == \A e \in E : ~ep[e].error

(* Whatever IDs were retired meanwhile, the ones an endpoint sends with,   *)
(* on the path in use and on the one it probes, are still known to the     *)
(* peer.                                                                   *)
UsableIds ==
    \A e \in E : {ep[e].dest.active, ep[e].dest.alt} \ {None} \subseteq
                     ep[Peer(e)].source.ids

(* The server makes an address its path only after the client answered a   *)
(* challenge that was sent there.                                          *)
ValidatedPath == ep["server"].path[0] \in {Home} \cup reached

(* While a path is validated, and until the old one is given up, an ID is  *)
(* set aside, and the path under validation has an address.                *)
AltKept ==
    \A e \in E :
        /\ ep[e].alt_state \in {"PROBING", "SWAPPED"} => ep[e].dest.alt # None
        /\ ep[e].alt_state \in {"PENDING", "PROBING"} => ep[e].path[1] # "none"

(* A path under validation is either taken up or given up: a missing ID    *)
(* arrives, an answer arrives or the probes run out.                       *)
ProbingEnds ==
    \A e \in E : ep[e].alt_state \in {"PENDING", "PROBING"} ~>
                     ep[e].alt_state \in {"NONE", "SWAPPED"}

(* The state after a swap ends when a non-probing packet arrives, and the  *)
(* applications keep sending them.                                         *)
SwappedEnds ==
    \A e \in E : ep[e].alt_state = "SWAPPED" ~> ep[e].alt_state # "SWAPPED"
=============================================================================
