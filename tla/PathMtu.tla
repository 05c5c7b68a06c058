------------------------------ MODULE PathMtu -------------------------------
(***************************************************************************)
(* Path MTU discovery by probing (PLPMTUD: the second half of path.c, the  *)
(* probe and its confirmation in outqueue.c, the ICMP handler and the      *)
(* route set-up in packet.c).  Sizes are net of headers and AEAD tag.      *)
(*                                                                         *)
(* A probe is a padded PING frame; the code remembers the number that the  *)
(* packet sent next will have, and takes an ACK of that number for an ACK  *)
(* of the probe.  Of all the packets under way only the one with that      *)
(* number matters here: carrier.                                           *)
(***************************************************************************)
EXTENDS Integers, FiniteSetsExt

CONSTANTS
    BASE_PLPMTU, MIN_PLPMTU, MAX_PLPMTU, MAX_PROBES, PL_BIG_STEP, PL_MIN_STEP,
    RouteMtu,   \* what the route allows, the first MSS
    max_udp_payload_size, \* the peer's transport parameter, net of the tag
    Sizes,      \* what the path can really carry, at one time or another
    CtrlSize,   \* of a packet with a control frame or an ACK
    MaxChanges, \* bound on changes of the path
    MaxFaults   \* bound on probes lost, overdue or held back, and on wrong ICMP messages

ASSUME SizesAssumption ==
    /\ {PL_BIG_STEP, PL_MIN_STEP, MAX_PROBES, CtrlSize} \subseteq Nat \ {0}
    /\ PL_MIN_STEP < PL_BIG_STEP
    /\ {MIN_PLPMTU, BASE_PLPMTU, MAX_PLPMTU} \subseteq Nat
    /\ MIN_PLPMTU < BASE_PLPMTU /\ BASE_PLPMTU + PL_BIG_STEP <= MAX_PLPMTU
    /\ CtrlSize < BASE_PLPMTU
    /\ Sizes \subseteq MIN_PLPMTU..MAX_PLPMTU
    /\ {RouteMtu, max_udp_payload_size, MaxChanges, MaxFaults} \subseteq Nat

VARIABLES
    pl,      \* paths->pl
    carrier, \* the packet whose number is pl.number
    mss,     \* packet->mss for regular packets
    path,    \* what the path carries
    held,    \* the window holds back a control frame, and what is queued behind
    largest, \* the largest size the peer has acknowledged since the route was set
    changes, faults

vars == <<pl, carrier, mss, path, held, largest, changes, faults>>

States == {"BASE", "SEARCH", "COMPLETE", "ERROR"}

(* Where the number is: nowhere (pl.number is 0), with the next packet to  *)
(* be sent, under way in a packet that the path carries or not, or lost.   *)
NoCarrier == [at |-> "none", size |-> 0]
NextCarrier == [at |-> "next", size |-> 0]
Sent(size) == [at |-> IF size <= path THEN "arrives" ELSE "lost", size |-> size]

pl_reset ==
    [state |-> "BASE", pmtu |-> BASE_PLPMTU, probe_size |-> BASE_PLPMTU,
     probe_high |-> 0, probe_count |-> 0]

(* What a handler leaves: the discovery state and the MTU to apply, 0 for  *)
(* none.                                                                   *)
Result(p, mtu) == [pl |-> p, mtu |-> mtu]

ToBase(p) == [p EXCEPT !.state = "BASE", !.probe_size = BASE_PLPMTU, !.pmtu = BASE_PLPMTU]

failedMutant(p) ==
    IF p.state = "BASE" /\ p.probe_size = BASE_PLPMTU
    THEN Result([p EXCEPT !.state = "ERROR", !.pmtu = BASE_PLPMTU], BASE_PLPMTU)
    ELSE IF p.state = "SEARCH" /\ p.pmtu = p.probe_size
    THEN Result([ToBase(p) EXCEPT !.probe_high = 0], BASE_PLPMTU)
    ELSE IF p.state = "SEARCH"
    THEN Result([p EXCEPT !.probe_high = p.probe_size, !.probe_size = p.pmtu], 0)
    ELSE Result(p, 0)

(* quic_path_pl_send, called once the probe is queued: the count is of     *)
(* probes of this size that remain unconfirmed.                            *)
failed(p) ==
    IF p.state = "BASE" /\ p.probe_size = BASE_PLPMTU
    THEN Result([p EXCEPT !.state = "ERROR", !.pmtu = BASE_PLPMTU], BASE_PLPMTU)
    ELSE IF p.state = "SEARCH" /\ p.pmtu = p.probe_size
    THEN Result([ToBase(p) EXCEPT !.probe_high = 0], BASE_PLPMTU)
    ELSE IF p.state = "SEARCH"
    THEN Result([p EXCEPT !.probe_high = p.probe_size, !.probe_size = p.pmtu], 0)
    ELSE IF p.state = "COMPLETE" /\ p.pmtu = p.probe_size
    THEN Result(ToBase(p), BASE_PLPMTU)
    ELSE Result(p, 0)

pl_send(p) ==
    IF p.probe_count < MAX_PROBES
    THEN Result([p EXCEPT !.probe_count = @ + 1], 0)
    ELSE LET r == failed(p)
         IN  Result([r.pl EXCEPT !.probe_count = 1], r.mtu)

searchedUnclamped(p) ==
    LET high == IF p.probe_high = 0 THEN MAX_PLPMTU ELSE p.probe_high
        next == p.probe_size + PL_MIN_STEP
    IN  IF p.probe_high = 0 /\ p.probe_size < MAX_PLPMTU
        THEN Result([p EXCEPT !.probe_size = @ + PL_BIG_STEP], 0)
        ELSE IF next >= high
        THEN Result([p EXCEPT !.probe_high = 0, !.state = "COMPLETE", !.probe_size = p.pmtu],
                    p.pmtu)
        ELSE Result([p EXCEPT !.probe_high = high, !.probe_size = next], 0)

(* quic_path_pl_recv *)
searched(p) ==
    LET high == IF p.probe_high = 0 THEN MAX_PLPMTU ELSE p.probe_high
        next == p.probe_size + PL_MIN_STEP
    IN  IF p.probe_high = 0 /\ p.probe_size < MAX_PLPMTU
        THEN Result([p EXCEPT !.probe_size = Min({@ + PL_BIG_STEP, MAX_PLPMTU})], 0)
        ELSE IF next >= high
        THEN Result([p EXCEPT !.probe_high = 0, !.state = "COMPLETE", !.probe_size = p.pmtu],
                    p.pmtu)
        ELSE Result([p EXCEPT !.probe_high = high, !.probe_size = next], 0)

pl_recv(p) ==
    LET q == [p EXCEPT !.pmtu = p.probe_size, !.probe_count = 0]
    IN  CASE p.state = "BASE" ->
                 Result([q EXCEPT !.state = "SEARCH", !.probe_size = @ + PL_BIG_STEP], 0)
          [] p.state = "ERROR" ->
                 Result([q EXCEPT !.state = "SEARCH", !.probe_size = @ + PL_BIG_STEP], q.pmtu)
          [] p.state = "SEARCH" -> searched(q)
          [] p.state = "COMPLETE" ->
                 Result([q EXCEPT !.state = "SEARCH",
                                  !.probe_size = Min({@ + PL_MIN_STEP, MAX_PLPMTU})], 0)

pl_toobigMutant(p, size) ==
    LET back == [ToBase(p) EXCEPT !.probe_count = 0]
    IN  IF size < MIN_PLPMTU \/ size >= p.probe_size
        THEN Result(p, 0)
        ELSE IF p.state = "BASE" /\ size < BASE_PLPMTU
        THEN Result([p EXCEPT !.state = "ERROR", !.pmtu = BASE_PLPMTU], BASE_PLPMTU)
        ELSE IF p.state \in {"SEARCH", "COMPLETE"} /\ size >= BASE_PLPMTU /\ size < p.pmtu
        THEN Result(back, BASE_PLPMTU)
        ELSE IF p.state = "SEARCH" /\ size > p.pmtu
        THEN Result([p EXCEPT !.probe_size = size, !.probe_count = 0], 0)
        ELSE Result(p, 0)

(* quic_path_pl_toobig *)
pl_toobig(p, size) ==
    LET back == [ToBase(p) EXCEPT !.probe_count = 0, !.probe_high = 0]
    IN  IF size < MIN_PLPMTU \/ size >= p.probe_size
        THEN Result(p, 0)
        ELSE IF p.state = "BASE" /\ size < BASE_PLPMTU
        THEN Result([p EXCEPT !.state = "ERROR", !.pmtu = BASE_PLPMTU], BASE_PLPMTU)
        ELSE IF p.state \in {"SEARCH", "COMPLETE"} /\ size >= BASE_PLPMTU /\ size < p.pmtu
        THEN Result(back, BASE_PLPMTU)
        ELSE IF p.state = "SEARCH" /\ size > p.pmtu
        THEN Result([p EXCEPT !.probe_size = size, !.probe_count = 0], 0)
        ELSE Result(p, 0)
-----------------------------------------------------------------------------
(* quic_packet_mss_update: regular packets are limited to what the peer    *)
(* takes, probes are not.                                                  *)
Limited(mtu) == Min({mtu, max_udp_payload_size})

mss_update(mtu, old) == IF mtu = 0 THEN old ELSE Limited(mtu)

(* quic_outq_transmit_probe on an established connection, from discovery   *)
(* state p: the PING goes to the end of the control list, behind what the  *)
(* window holds back.                                                      *)
transmit_probe(p, old) ==
    LET r == pl_send(p)
    IN  /\ carrier' = IF held THEN NextCarrier ELSE Sent(p.probe_size)
        /\ pl' = r.pl
        /\ mss' = mss_update(r.mtu, old)

(* quic_timer_pmtu_handler.  The interval is at least five seconds: as a   *)
(* rule it finds the probe confirmed or lost.                              *)
PmtuTimer ==
    /\ \/ carrier.at # "arrives" /\ UNCHANGED faults
       \/ carrier.at = "arrives" /\ faults < MaxFaults /\ faults' = faults + 1
    /\ transmit_probe(pl, mss)
    /\ UNCHANGED <<path, held, largest, changes>>

(* An ACK range with the number of the probe: quic_outq_path_confirm. *)
PathConfirm ==
    /\ carrier.at = "arrives"
    /\ largest' = Max({largest, carrier.size})
    /\ LET r == pl_recv(pl)
           now == mss_update(r.mtu, mss)
       IN  IF r.pl.state = "COMPLETE"
           THEN pl' = r.pl /\ carrier' = NoCarrier /\ mss' = now
           ELSE transmit_probe(r.pl, now)
    /\ UNCHANGED <<path, held, changes, faults>>

(* quic_packet_rcv_err_pmtu, for an ICMP message about a packet that was   *)
(* too big, or a wrong one.                                                *)
TooBig(size) ==
    /\ \/ /\ size = path
          /\ mss > path \/ (carrier.at = "lost" /\ carrier.size > path)
          /\ UNCHANGED faults
       \/ faults < MaxFaults /\ faults' = faults + 1
    /\ LET r == pl_toobig(pl, size)
       IN  pl' = r.pl /\ mss' = mss_update(r.mtu, mss)
    /\ UNCHANGED <<carrier, path, held, largest, changes>>

Lose ==
    /\ carrier.at = "arrives"
    /\ faults < MaxFaults
    /\ carrier' = [carrier EXCEPT !.at = "lost"]
    /\ faults' = faults + 1
    /\ UNCHANGED <<pl, mss, path, held, largest, changes>>

(* A control frame meets a full congestion window. *)
Hold ==
    /\ ~held /\ faults < MaxFaults
    /\ held' = TRUE
    /\ faults' = faults + 1
    /\ UNCHANGED <<pl, carrier, mss, path, largest, changes>>

(* A packet with an ACK, which no window holds back, or, once the window   *)
(* opens, with the control frame: it takes the next number.                *)
SendCtrl(opens) ==
    /\ held /\ (opens \/ carrier.at = "next")
    /\ carrier' = IF carrier.at = "next" THEN Sent(CtrlSize) ELSE carrier
    /\ held' = ~opens
    /\ UNCHANGED <<pl, mss, path, largest, changes, faults>>

(* The path changes under the connection; or quic_packet_route finds a new *)
(* route, too, and starts afresh.                                          *)
PathChange(size, routed) ==
    /\ changes < MaxChanges
    /\ path' = size
    /\ IF routed
       THEN pl' = pl_reset /\ carrier' = NoCarrier /\ mss' = Limited(RouteMtu) /\ largest' = 0
       ELSE UNCHANGED <<pl, carrier, mss, largest>>
    /\ changes' = changes + 1
    /\ UNCHANGED <<held, faults>>

Init ==
    /\ pl = pl_reset
    /\ carrier = NoCarrier
    /\ mss = Limited(RouteMtu)
    /\ path \in Sizes
    /\ held = FALSE
    /\ largest = 0
    /\ changes = 0
    /\ faults = 0

Next ==
    \/ PmtuTimer
    \/ PathConfirm
    \/ \E size \in MIN_PLPMTU..MAX_PLPMTU : TooBig(size)
    \/ Lose
    \/ Hold
    \/ \E opens \in BOOLEAN : SendCtrl(opens)
    \/ \E size \in Sizes, routed \in BOOLEAN : PathChange(size, routed)

Spec == Init /\ [][Next]_vars

(* The timer always runs, and what arrives is acknowledged. *)
FairSpec == Spec /\ WF_vars(PmtuTimer) /\ WF_vars(PathConfirm) /\ WF_vars(SendCtrl(TRUE))
-----------------------------------------------------------------------------
TypeOK ==
    /\ pl \in [state : States, pmtu : BASE_PLPMTU..MAX_PLPMTU,
               probe_size : BASE_PLPMTU..MAX_PLPMTU,
               probe_high : 0..MAX_PLPMTU, probe_count : 0..MAX_PROBES]
    /\ carrier \in [at : {"none", "next", "arrives", "lost"}, size : Nat]
    /\ mss \in 0..max_udp_payload_size
    /\ path \in Sizes
    /\ held \in BOOLEAN

(* pl.pmtu is, as its comment says, the confirmed MTU: beyond the base     *)
(* size, a packet at least that large was acknowledged on this route.      *)
Confirmed == pl.pmtu <= Max({BASE_PLPMTU, largest})

(* The search keeps its bracket: what is confirmed lies below the size     *)
(* that failed, the next probe between the two, and a bracket is only      *)
(* remembered while it searches.                                           *)
Bracket ==
    /\ pl.pmtu <= pl.probe_size
    /\ pl.probe_high # 0 => pl.state = "SEARCH" /\ pl.probe_size < pl.probe_high
    /\ pl.state # "SEARCH" => pl.probe_size = pl.pmtu

(* When the search is over, or the base size does not get through, regular *)
(* packets have the size it ended with, or the peer's limit if that is     *)
(* less.                                                                   *)
MssAgrees == pl.state \in {"COMPLETE", "ERROR"} => mss = Limited(pl.pmtu)

(* The search is in one of the situations its states stand for.           *)
SearchSound == Bracket /\ MssAgrees

(* Whatever the path did before, once it no longer changes the search ends *)
(* with the largest size it carries, up to the step, or gives up when that *)
(* is less than the base size, and regular packets get through again.      *)
Settled ==
    IF path < BASE_PLPMTU
    THEN pl.state = "ERROR"
    ELSE /\ pl.state = "COMPLETE"
         /\ mss = Limited(pl.pmtu)
         /\ pl.pmtu <= path /\ path < pl.pmtu + PL_MIN_STEP

Settles == []<>Settled
=============================================================================
