------------------------------- MODULE PnSpace -------------------------------
(***************************************************************************)
(* The receive half of a packet number space (pnspace.c, pnspace.h) and    *)
(* the ACK frame built from it (quic_frame_ack_create in frame.c).         *)
(*                                                                         *)
(* One space of one connection.  Packets carry any number, arrive in any   *)
(* order and any number of times.  The bitmap pn_map is the set of its set *)
(* bits, as offsets from base_pn.  Time is abstracted: whether             *)
(* max_time_limit has elapsed since the map last advanced is a free choice *)
(* of each step (packet times are arrival times, and backlogged packets    *)
(* make them run backwards).                                               *)
(***************************************************************************)
EXTENDS Integers, Sequences, FiniteSets, FiniteSetsExt

CONSTANTS
    MAP_SIZE,       \* QUIC_PN_MAP_SIZE
    MAP_LIMIT,      \* QUIC_PN_MAP_LIMIT
    MAP_INITIAL,    \* QUIC_PN_MAP_INITIAL
    MAP_INCREMENT,  \* QUIC_PN_MAP_INCREMENT
    BITS_PER_LONG,
    MAX_GABS,       \* QUIC_PN_MAP_MAX_GABS
    PacketNumbers   \* the packet numbers the peer uses

ASSUME MapAssumption ==
    /\ MAP_SIZE \in Nat \ {0}
    /\ MAP_LIMIT \in Nat
    /\ MAP_INITIAL \in 1 .. MAP_SIZE
    /\ MAP_INCREMENT \in Nat
    /\ BITS_PER_LONG \in Nat \ {0}
    /\ MAX_GABS \in Nat \ {0}

ASSUME PacketNumbersAssumption == PacketNumbers \subseteq Nat

VARIABLES
    base_pn,            \* packet number of bit 0 of the map, -1 before the first packet
    min_pn_seen,
    max_pn_seen,
    last_max_pn_seen,   \* max_pn_seen when the map last advanced
    pn_map,             \* offsets of the set bits
    pn_map_len,
    received            \* history: the packet numbers marked as received

space == <<base_pn, min_pn_seen, max_pn_seen, last_max_pn_seen, pn_map, pn_map_len>>
vars == <<space, received>>

\* Every variable has its type, and the set bits lie inside the allocated map (pnspace.h).
TypeOK ==
    /\ base_pn \in Int
    /\ min_pn_seen \in Int
    /\ max_pn_seen \in Int
    /\ last_max_pn_seen \in Int
    /\ pn_map_len \in 1 .. MAP_SIZE
    /\ pn_map \subseteq 0 .. pn_map_len - 1
    /\ received \subseteq PacketNumbers

-----------------------------------------------------------------------------
(* find_next_zero_bit and find_next_bit of the kernel: the first clear (set) *)
(* bit of map at or after offset, or len if there is none.                   *)
find_next_zero_bit(map, len, offset) ==
    IF offset >= len THEN len ELSE Min({i \in offset .. len : i \notin map})

find_next_bit(map, len, offset) ==
    IF offset >= len THEN len ELSE Min({i \in offset .. len : i \in map \cup {len}})

\* Faulty variant: the bits stay where they were.
ShiftForgotten(map, offset) == map

bitmap_shift_right(map, offset) == {b - offset : b \in {c \in map : c >= offset}}

ALIGN(x) == ((x + BITS_PER_LONG - 1) \div BITS_PER_LONG) * BITS_PER_LONG

\* The length quic_pnspace_grow gives the map, for size <= MAP_SIZE.
GrownLen(size) ==
    LET len == pn_map_len + ALIGN(size - pn_map_len) + MAP_INCREMENT
    IN  IF len < MAP_SIZE THEN len ELSE MAP_SIZE

\* Faulty variant: the bit of max_pn_seen is not copied.
CopiedShort == {b \in pn_map : b < max_pn_seen - base_pn}

\* The bits quic_pnspace_grow copies into the new map.
Copied == {b \in pn_map : b < max_pn_seen + 1 - base_pn}

\* Faulty variant: the bitmap is not consulted.
CheckBaseOnly(pn) ==
    IF base_pn = -1 THEN "new"
    ELSE IF pn < min_pn_seen \/ pn >= base_pn + MAP_SIZE THEN "untracked"
    ELSE IF pn < base_pn THEN "marked"
    ELSE "new"

\* quic_pnspace_check: "new" (0), "marked" (1) or "untracked" (-EINVAL).
Check(pn) ==
    IF base_pn = -1 THEN "new"
    ELSE IF pn < min_pn_seen \/ pn >= base_pn + MAP_SIZE THEN "untracked"
    ELSE IF pn < base_pn \/ pn - base_pn \in pn_map THEN "marked"
    ELSE "new"

has_gap == base_pn # max_pn_seen + 1
-----------------------------------------------------------------------------
Init ==
    /\ base_pn = -1
    /\ min_pn_seen = 0
    /\ max_pn_seen = 0
    /\ last_max_pn_seen = 0
    /\ pn_map = {}
    /\ pn_map_len = MAP_INITIAL
    /\ received = {}

\* quic_pnspace_mark on the first packet of the space.
MarkFirst(pn) ==
    /\ base_pn = -1
    /\ base_pn' = pn + 1
    /\ max_pn_seen' = pn
    /\ last_max_pn_seen' = pn
    /\ min_pn_seen' = pn
    /\ UNCHANGED <<pn_map, pn_map_len>>

\* Where quic_pnspace_move(pn) takes the base of a map.
MoveOffset(map, len, base, pn) == find_next_zero_bit(map, len, pn + 1 - base)

\* quic_pnspace_mark for a number at or above the base: grow the map, record the
\* number, and, when it is the new maximum and the map is due, advance the map.
MarkNext(pn, elapsed) ==
    LET gap    == pn - base_pn
        grow   == gap >= pn_map_len
        len    == IF grow THEN GrownLen(gap + 1) ELSE pn_map_len
        map0   == IF grow THEN Copied ELSE pn_map
        max    == IF max_pn_seen < pn THEN pn ELSE max_pn_seen
        first  == IF base_pn # max + 1 THEN MoveOffset(map0, len, base_pn, pn) ELSE 1
        base   == IF base_pn = pn THEN base_pn + first ELSE base_pn
        map    == IF base_pn = pn THEN bitmap_shift_right(map0, first) ELSE map0 \cup {gap}
        last   == IF last_max_pn_seen < base THEN last_max_pn_seen ELSE base
        due    == max = pn /\ (elapsed \/ max > last + MAP_LIMIT)
        skip   == IF due /\ last_max_pn_seen + 1 > base
                  THEN MoveOffset(map, len, base, last_max_pn_seen) ELSE 0
    IN  /\ base_pn # -1
        /\ pn >= base_pn
        /\ gap + 1 <= MAP_SIZE
        /\ pn_map_len' = len
        /\ max_pn_seen' = max
        /\ base_pn' = base + skip
        /\ pn_map' = bitmap_shift_right(map, skip)
        /\ min_pn_seen' = IF due THEN last_max_pn_seen ELSE min_pn_seen
        /\ last_max_pn_seen' = IF due THEN max ELSE last_max_pn_seen

\* A packet passes quic_pnspace_check, its frames are processed and its number is
\* marked (the order of quic_packet_app_process and quic_packet_handshake_process).
Receive(pn) ==
    /\ Check(pn) = "new"
    /\ received' = received \cup {pn}
    /\ MarkFirst(pn) \/ \E elapsed \in BOOLEAN : MarkNext(pn, elapsed)

\* The same packet, but quic_frame_process fails after some frames were applied, or
\* quic_pnspace_grow cannot allocate: the space does not learn of it.
ReceiveUnmarked(pn) ==
    /\ Check(pn) = "new"
    /\ UNCHANGED vars

\* A packet already marked only asks for an ACK; one outside the window is dropped.
Discard(pn) ==
    /\ Check(pn) # "new"
    /\ UNCHANGED vars

Next ==
    \E pn \in PacketNumbers : Receive(pn) \/ ReceiveUnmarked(pn) \/ Discard(pn)

Spec == Init /\ [][Next]_vars
-----------------------------------------------------------------------------
(* The ACK frame.  Gaps are pairs of offsets from base_pn, as the code     *)
(* reports them: start is one past the first missing offset and end the    *)
(* offset of the first received packet after it.                           *)

\* Faulty variant: start is not moved past the first missing number.
GapStartEarly(offset) ==
    LET start == find_next_zero_bit(pn_map, pn_map_len, offset)
        end   == find_next_bit(pn_map, pn_map_len, start)
    IN  IF max_pn_seen <= base_pn + start \/ max_pn_seen <= base_pn + end - 1
        THEN <<>>
        ELSE <<[start |-> start, end |-> end]>>

\* quic_pnspace_next_gap_ack from an offset: one gap, or none.
next_gap_ack(offset) ==
    LET start == find_next_zero_bit(pn_map, pn_map_len, offset)
        end   == find_next_bit(pn_map, pn_map_len, start)
    IN  IF max_pn_seen <= base_pn + start \/ max_pn_seen <= base_pn + end - 1
        THEN <<>>
        ELSE <<[start |-> start + 1, end |-> end]>>

\* quic_pnspace_num_gabs: at most MAX_GABS gaps, the last slot reaching to max_pn_seen.
gabs ==
    LET found[n \in 0 .. MAX_GABS] ==
            IF n = 0 THEN <<>>
            ELSE LET before == found[n - 1]
                     offset == IF n = 1 THEN 0 ELSE before[n - 1].end
                 IN  IF Len(before) < n - 1 THEN before ELSE before \o next_gap_ack(offset)
        all == found[MAX_GABS]
    IN  IF ~has_gap THEN <<>>
        ELSE IF Len(all) < MAX_GABS THEN all
        ELSE [all EXCEPT ![MAX_GABS].end = max_pn_seen - base_pn]

\* The fields quic_frame_ack_create puts on the wire.  ranges holds the
\* (gap, length) pairs in wire order, from the highest numbers down.
AckFrame ==
    LET n == Len(gabs)
        smallest == IF n = 0 THEN min_pn_seen ELSE base_pn + gabs[n].end
        rangeAt(i) == IF i > 1 THEN gabs[i].start - gabs[i - 1].end - 2
                      ELSE gabs[1].start - 1 + base_pn - 1 - min_pn_seen
    IN  [largest |-> max_pn_seen,
         first   |-> max_pn_seen - smallest,
         ranges  |-> [k \in 1 .. n |->
                        LET i == n + 1 - k
                        IN  [gap |-> gabs[i].end - gabs[i].start, len |-> rangeAt(i)]]]

\* What quic_frame_ack_process of the peer acknowledges on reading the frame: the
\* ranges as <<smallest, largest>> pairs, from the highest numbers down.
AckedRanges(frame) ==
    LET range[k \in 0 .. Len(frame.ranges)] ==
            IF k = 0 THEN <<frame.largest - frame.first, frame.largest>>
            ELSE LET largest == range[k - 1][1] - frame.ranges[k].gap - 2
                 IN  <<largest - frame.ranges[k].len, largest>>
    IN  range

\* The peer's parser accepts the frame: every field is encodable (non-negative) and
\* passes the bounds quic_frame_ack_process puts on it.
AckAccepted(frame) ==
    LET range == AckedRanges(frame)
    IN  /\ Len(frame.ranges) <= MAX_GABS
        /\ 0 <= frame.first /\ frame.first <= frame.largest
        /\ \A k \in 1 .. Len(frame.ranges) :
             /\ frame.ranges[k].gap >= 0 /\ frame.ranges[k].len >= 0
             /\ frame.ranges[k].gap + 2 <= range[k - 1][1]
             /\ frame.ranges[k].len <= range[k - 1][1] - frame.ranges[k].gap - 2

Acked(frame) ==
    LET range == AckedRanges(frame)
    IN  UNION {range[k][1] .. range[k][2] : k \in DOMAIN range}
-----------------------------------------------------------------------------
(* Properties *)

\* Every number from min_pn_seen up to the base has been received, although the base
\* jumps over missing numbers when the map advances (quic_pnspace_mark moves min_pn_seen
\* past them in the same step).  The last range of an ACK frame relies on it.
PrefixReceived ==
    base_pn # -1 => min_pn_seen .. (base_pn - 1) \subseteq received

\* From the base on, a bit is set exactly for the numbers received: shifting, growing
\* and advancing the map lose and invent none.
MapExact ==
    base_pn # -1 =>
        /\ \A b \in pn_map : base_pn + b \in received
        /\ \A pn \in received : pn >= base_pn => pn - base_pn \in pn_map

\* quic_pnspace_check never calls a received number new, and never calls a number
\* marked that was not received: it neither replays a packet nor drops a fresh one as a
\* duplicate.
CheckExact ==
    \A pn \in PacketNumbers :
        /\ Check(pn) = "new" => pn \notin received
        /\ Check(pn) = "marked" => pn \in received

\* A number that quic_pnspace_check called a duplicate, or too old, is never new again,
\* however the map grows, shifts and advances after that: a packet is not processed once
\* more because it was delayed for long enough.
Refused(pn) == base_pn # -1 /\ (Check(pn) = "marked" \/ pn < min_pn_seen)
RefusedForGood == [][\A pn \in PacketNumbers : Refused(pn) => Refused(pn)']_vars

\* The ordering of the window's edges that pnspace.h draws, and its bound: the base never
\* passes max_pn_seen + 1, the map always covers max_pn_seen, and the edges
\* min_pn_seen, last_max_pn_seen and max_pn_seen are packets that were received.
WindowOrdered ==
    base_pn # -1 =>
        /\ min_pn_seen <= last_max_pn_seen /\ last_max_pn_seen <= max_pn_seen
        /\ min_pn_seen < base_pn /\ base_pn <= max_pn_seen + 1
        /\ max_pn_seen - base_pn < pn_map_len
        /\ {min_pn_seen, last_max_pn_seen, max_pn_seen} \subseteq received
        /\ \A pn \in received : pn <= max_pn_seen

\* An ACK frame the code builds is accepted by the peer's parser and acknowledges only
\* packets that were received, whatever the number of gaps.
AckSound ==
    base_pn # -1 => AckAccepted(AckFrame) /\ Acked(AckFrame) \subseteq received

\* The ACK frame names every received number it still tracks, unless it ran out of gap
\* slots; and always the largest one.
AckComplete ==
    base_pn # -1 =>
        /\ max_pn_seen \in Acked(AckFrame)
        /\ Len(gabs) < MAX_GABS =>
             \A pn \in received : pn >= min_pn_seen => pn \in Acked(AckFrame)

\* What the window and its map say of the packets received; the numbers below the base and
\* the map together are everything quic_pnspace_check and the ACK frame look at.
Window == TypeOK /\ WindowOrdered /\ PrefixReceived /\ MapExact

\* The ACK frame of quic_frame_ack_create says what was received, no more and, while its gap
\* slots last, no less.
AckExact == AckSound /\ AckComplete
=============================================================================
