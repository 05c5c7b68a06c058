--------------------------- MODULE PnSpace_proofs ----------------------------
(* Proofs that the packet number map is exact and never replays a packet,   *)
(* for every map size, limit and growth step.                               *)
EXTENDS PnSpace, TLAPS, WellFoundedInduction

USE SMTT(30)

-----------------------------------------------------------------------------
(* Lemmas about the bitmap operators. *)

\* A non-empty set of natural numbers has a least element, and Min returns it.
LEMMA MinOfNats ==
    ASSUME NEW S, S \subseteq Nat, S # {}
    PROVE  Min(S) \in S /\ \A y \in S : Min(S) <= y
<1> DEFINE R == OpToRel(<, Nat)
<1>1. \E x \in S : \A y \in S : ~(<<y, x>> \in R)
  BY NatLessThanWellFounded, WFMin, Zenon
<1>2. \A x, y \in Nat : y < x => <<y, x>> \in R
  BY Zenon DEF OpToRel
<1> HIDE DEF R
<1>3. \E x \in S : \A y \in S : x <= y
  <2>1. PICK x \in S : \A y \in S : ~(<<y, x>> \in R)
    BY <1>1, Zenon
  <2>2. \A y \in S : ~(y < x)
    BY <2>1, <1>2, Zenon
  <2> QED BY <2>2
<1> QED BY <1>3, Zenon DEF Min

\* find_next_zero_bit skips only set bits and stops at a clear one.
LEMMA NextZeroBit ==
    ASSUME NEW len \in Nat, NEW map, map \subseteq 0 .. len - 1, NEW offset \in Nat, offset <= len
    PROVE  LET z == find_next_zero_bit(map, len, offset)
           IN  /\ z \in offset .. len
               /\ z \notin map
               /\ \A i \in offset .. z - 1 : i \in map
<1> DEFINE S == {i \in offset .. len : i \notin map}
<1>1. CASE offset = len
  BY <1>1 DEF find_next_zero_bit
<1>2. CASE offset < len
  <2>1. len \in S /\ S \subseteq Nat
    BY <1>2
  <2>2. Min(S) \in S /\ \A y \in S : Min(S) <= y
    BY <2>1, MinOfNats, Zenon
  <2>3. find_next_zero_bit(map, len, offset) = Min(S)
    BY <1>2 DEF find_next_zero_bit
  <2> QED BY <2>1, <2>2, <2>3
<1> QED BY <1>1, <1>2

\* ALIGN rounds up.
LEMMA AlignUp ==
    ASSUME NEW x \in Nat
    PROVE  ALIGN(x) \in Nat /\ ALIGN(x) >= x
<1> DEFINE y == x + BITS_PER_LONG - 1
           q == y \div BITS_PER_LONG
           r == y % BITS_PER_LONG
<1>1. y \in Nat /\ BITS_PER_LONG \in Nat \ {0}
  BY MapAssumption
<1>2. q \in Nat /\ r \in 0 .. BITS_PER_LONG - 1 /\ y = BITS_PER_LONG * q + r
  BY <1>1
<1>3. ALIGN(x) = q * BITS_PER_LONG
  BY Zenon DEF ALIGN
<1> HIDE DEF q, r
<1> QED BY <1>1, <1>2, <1>3

\* quic_pnspace_grow covers the size asked for and stays within MAP_SIZE.
LEMMA GrowCovers ==
    ASSUME NEW size \in Nat, pn_map_len \in 1 .. MAP_SIZE, size > pn_map_len, size <= MAP_SIZE
    PROVE  GrownLen(size) \in size .. MAP_SIZE
<1>1. size - pn_map_len \in Nat
  OBVIOUS
<1>2. ALIGN(size - pn_map_len) \in Nat /\ ALIGN(size - pn_map_len) >= size - pn_map_len
  BY <1>1, AlignUp, Zenon
<1> QED BY <1>2, MapAssumption DEF GrownLen

\* Shifting by nothing changes nothing.
LEMMA ShiftZero ==
    ASSUME NEW len \in Nat, NEW map, map \subseteq 0 .. len - 1
    PROVE  bitmap_shift_right(map, 0) = map
<1>1. \A b \in map : b \in Int /\ b >= 0 /\ b - 0 = b
  OBVIOUS
<1>2. {c \in map : c >= 0} = map
  BY <1>1, Zenon
<1>3. \A x : x \in {b - 0 : b \in map} <=> x \in map
  BY <1>1, Zenon
<1> QED BY <1>2, <1>3, Zenon DEF bitmap_shift_right

\* Moving a map that is exact for the received numbers R to the first gap beyond pn
\* (quic_pnspace_move) leaves it exact, and skips only received numbers beyond pn.
LEMMA MoveExact ==
    ASSUME NEW R, R \subseteq Int, NEW base \in Int, NEW pn \in Int, NEW len \in Nat,
           NEW map, map \subseteq 0 .. len - 1,
           base <= pn + 1, pn + 1 - base <= len,
           \A b \in map : base + b \in R,
           \A p \in R : p >= base => p - base \in map
    PROVE  LET o == MoveOffset(map, len, base, pn)
               m == bitmap_shift_right(map, o)
           IN  /\ o \in pn + 1 - base .. len
               /\ \A p \in pn + 1 .. base + o - 1 : p \in R
               /\ base + o \notin R
               /\ m \subseteq 0 .. len - 1
               /\ \A b \in m : base + o + b \in R
               /\ \A p \in R : p >= base + o => p - (base + o) \in m
<1> DEFINE o == MoveOffset(map, len, base, pn)
           m == bitmap_shift_right(map, o)
<1>1. /\ o \in pn + 1 - base .. len
      /\ o \notin map
      /\ \A i \in pn + 1 - base .. o - 1 : i \in map
  <2>1. pn + 1 - base \in Nat
    OBVIOUS
  <2> DEFINE k == pn + 1 - base
  <2>2. k \in Nat /\ k <= len
    BY <2>1, Zenon
  <2> HIDE DEF k
  <2>3. LET z == find_next_zero_bit(map, len, k)
        IN  z \in k .. len /\ z \notin map /\ \A i \in k .. z - 1 : i \in map
    BY <2>2, NextZeroBit, Zenon
  <2> QED BY <2>3, Zenon DEF MoveOffset, k
<1> HIDE DEF o
<1>2. \A p \in pn + 1 .. base + o - 1 : p \in R
  <2> SUFFICES ASSUME NEW p \in pn + 1 .. base + o - 1 PROVE p \in R
    BY Zenon
  <2>1. p - base \in pn + 1 - base .. o - 1
    BY <1>1
  <2>2. base + (p - base) = p
    BY <1>1
  <2> QED BY <1>1, <2>1, <2>2, Zenon
<1>3. base + o \notin R
  BY <1>1
<1>4. m \subseteq 0 .. len - 1 /\ \A b \in m : base + o + b \in R
  <2> SUFFICES ASSUME NEW b \in m PROVE b \in 0 .. len - 1 /\ base + o + b \in R
    BY Zenon
  <2>1. PICK c \in map : c >= o /\ b = c - o
    BY Zenon DEF bitmap_shift_right
  <2> QED BY <1>1, <2>1
<1>5. \A p \in R : p >= base + o => p - (base + o) \in m
  <2> SUFFICES ASSUME NEW p \in R, p >= base + o PROVE p - (base + o) \in m
    BY Zenon
  <2>1. p - base \in map /\ p - base >= o /\ (p - base) - o = p - (base + o)
    BY <1>1
  <2> QED BY <2>1, Zenon DEF bitmap_shift_right
<1> QED BY <1>1, <1>2, <1>3, <1>4, <1>5, Zenon DEF o

-----------------------------------------------------------------------------
(* The inductive invariant. *)

\* Before the first packet nothing is recorded.
Unstarted == base_pn = -1 => received = {} /\ pn_map = {}

\* MapExact and PrefixReceived need each other and the order of the edges: when the map
\* advances, last_max_pn_seen becomes min_pn_seen, so it must itself have been received.
IInv ==
    /\ TypeOK
    /\ Unstarted
    /\ WindowOrdered
    /\ PrefixReceived
    /\ MapExact

\* The state quic_pnspace_init leaves satisfies the inductive invariant.
LEMMA InitIInv == Init => IInv
BY MapAssumption
   DEF Init, IInv, TypeOK, Unstarted, WindowOrdered, PrefixReceived, MapExact

\* The invariant makes quic_pnspace_check exact.
LEMMA IInvCheckExact == IInv => CheckExact
<1> SUFFICES ASSUME IInv, NEW pn \in PacketNumbers
             PROVE  /\ Check(pn) = "new" => pn \notin received
                    /\ Check(pn) = "marked" => pn \in received
  BY Zenon DEF CheckExact
<1>1. CASE base_pn = -1
  BY <1>1, Zenon DEF IInv, Unstarted, Check
<1>2. CASE base_pn # -1
  <2>1. pn \in Nat
    BY PacketNumbersAssumption, Zenon
  <2>2. base_pn \in Int /\ min_pn_seen \in Int /\ max_pn_seen \in Int /\ pn_map_len \in 1 .. MAP_SIZE
    BY Zenon DEF IInv, TypeOK
  <2>3. Check(pn) = "marked" => pn \in received
    <3> HAVE Check(pn) = "marked"
    <3>1. min_pn_seen <= pn /\ (pn < base_pn \/ pn - base_pn \in pn_map)
      BY <1>2, <2>1, <2>2 DEF Check
    <3>2. CASE pn < base_pn
      BY <1>2, <2>1, <2>2, <3>1, <3>2 DEF IInv, PrefixReceived
    <3>3. CASE pn - base_pn \in pn_map
      <4>1. base_pn + (pn - base_pn) = pn
        BY <2>1, <2>2
      <4> QED BY <1>2, <3>3, <4>1, Zenon DEF IInv, MapExact
    <3> QED BY <3>1, <3>2, <3>3, Zenon
  <2>4. ASSUME pn \in received PROVE Check(pn) # "new"
    <3>1. pn <= max_pn_seen /\ max_pn_seen - base_pn < pn_map_len
      BY <1>2, <2>4, Zenon DEF IInv, WindowOrdered
    <3>2. pn < base_pn + MAP_SIZE
      BY <2>1, <2>2, <3>1, MapAssumption
    <3>3. pn < base_pn \/ pn - base_pn \in pn_map
      BY <1>2, <2>1, <2>2, <2>4 DEF IInv, MapExact
    <3> QED BY <1>2, <2>1, <2>2, <3>2, <3>3, Zenon DEF Check
  <2> QED BY <2>3, <2>4, Zenon
<1> QED BY <1>1, <1>2, Zenon

\* Marking a new number in a started space preserves the invariant.
LEMMA MarkNextIInv ==
    ASSUME IInv, NEW pn \in PacketNumbers, NEW elapsed \in BOOLEAN,
           Check(pn) = "new", MarkNext(pn, elapsed),
           received' = received \cup {pn}
    PROVE  IInv'
<1> DEFINE gap    == pn - base_pn
           grow   == gap >= pn_map_len
           len    == IF grow THEN GrownLen(gap + 1) ELSE pn_map_len
           map0   == IF grow THEN Copied ELSE pn_map
           max    == IF max_pn_seen < pn THEN pn ELSE max_pn_seen
           first  == IF base_pn # max + 1 THEN MoveOffset(map0, len, base_pn, pn) ELSE 1
           base   == IF base_pn = pn THEN base_pn + first ELSE base_pn
           map    == IF base_pn = pn THEN bitmap_shift_right(map0, first) ELSE map0 \cup {gap}
           last   == IF last_max_pn_seen < base THEN last_max_pn_seen ELSE base
           due    == max = pn /\ (elapsed \/ max > last + MAP_LIMIT)
           skip   == IF due /\ last_max_pn_seen + 1 > base
                     THEN MoveOffset(map, len, base, last_max_pn_seen) ELSE 0
           R      == received \cup {pn}
<1>1. /\ base_pn # -1 /\ pn >= base_pn /\ gap + 1 <= MAP_SIZE
      /\ pn_map_len' = len /\ max_pn_seen' = max
      /\ base_pn' = base + skip /\ pn_map' = bitmap_shift_right(map, skip)
      /\ min_pn_seen' = (IF due THEN last_max_pn_seen ELSE min_pn_seen)
      /\ last_max_pn_seen' = (IF due THEN max ELSE last_max_pn_seen)
  BY Zenon DEF MarkNext
<1>2. /\ base_pn \in Int /\ min_pn_seen \in Int /\ max_pn_seen \in Int /\ last_max_pn_seen \in Int
      /\ pn_map_len \in 1 .. MAP_SIZE /\ pn_map \subseteq 0 .. pn_map_len - 1
      /\ received \subseteq PacketNumbers
      /\ pn \in Nat /\ R \subseteq Nat /\ R \subseteq PacketNumbers
  BY PacketNumbersAssumption, SMTT(20) DEF IInv, TypeOK
<1>3. /\ min_pn_seen <= last_max_pn_seen /\ last_max_pn_seen <= max_pn_seen
      /\ min_pn_seen < base_pn /\ base_pn <= max_pn_seen + 1
      /\ max_pn_seen - base_pn < pn_map_len
      /\ min_pn_seen \in received /\ last_max_pn_seen \in received /\ max_pn_seen \in received
      /\ \A p \in received : p <= max_pn_seen
      /\ \A p \in min_pn_seen .. base_pn - 1 : p \in received
      /\ \A b \in pn_map : base_pn + b \in received
      /\ \A p \in received : p >= base_pn => p - base_pn \in pn_map
  BY <1>1, SMTT(20) DEF IInv, WindowOrdered, PrefixReceived, MapExact
<1>guard. pn >= base_pn /\ gap + 1 <= MAP_SIZE
  BY <1>1, Zenon
<1>4. len \in Nat /\ len <= MAP_SIZE /\ len >= pn_map_len /\ gap < len /\ gap \in Nat
  <2>1. gap \in Nat
    BY <1>guard, <1>2
  <2>2. CASE grow
    <3>1. gap + 1 \in Nat /\ gap + 1 > pn_map_len /\ gap + 1 <= MAP_SIZE
      BY <1>guard, <1>2, <2>1, <2>2
    <3>2. GrownLen(gap + 1) \in gap + 1 .. MAP_SIZE
      BY <1>2, <3>1, GrowCovers, Zenon
    <3> QED BY <1>2, <2>1, <2>2, <3>1, <3>2, MapAssumption
  <2>3. CASE ~grow
    BY <1>2, <2>1, <2>3, MapAssumption
  <2> QED BY <2>2, <2>3, Zenon
<1>5. map0 = pn_map
  <2>1. ASSUME NEW b \in pn_map PROVE b < max_pn_seen + 1 - base_pn
    <3>1. b \in Int /\ base_pn + b <= max_pn_seen
      BY <1>2, <1>3
    <3> QED BY <1>2, <3>1
  <2> QED BY <2>1, Zenon DEF Copied
<1>6. max \in Nat /\ max >= pn /\ max >= max_pn_seen /\ max \in R /\ \A p \in R : p <= max
  BY <1>2, <1>3
<1> HIDE DEF len, map0
<1>7. max - base_pn < len
  <2>1. pn - base_pn < len
    BY <1>4, Zenon
  <2>2. max_pn_seen - base_pn < len
    BY <1>2, <1>3, <1>4
  <2> QED BY <2>1, <2>2, Zenon
<1> HIDE DEF max
\* Recording the number.
<1>8. /\ base \in Int /\ base_pn <= base /\ base <= max + 1
      /\ map \subseteq 0 .. len - 1
      /\ \A p \in base_pn .. base - 1 : p \in R
      /\ \A b \in map : base + b \in R
      /\ \A p \in R : p >= base => p - base \in map
  <2>1. CASE base_pn = pn
    <3>1. first = MoveOffset(map0, len, base_pn, pn)
      BY <1>2, <1>6, <2>1
    <3>2. pn \notin received
      BY IInvCheckExact, Zenon DEF CheckExact
    <3>3. LET o == MoveOffset(pn_map, len, base_pn, pn)
              m == bitmap_shift_right(pn_map, o)
          IN  /\ o \in pn + 1 - base_pn .. len
              /\ \A p \in pn + 1 .. base_pn + o - 1 : p \in received
              /\ base_pn + o \notin received
              /\ m \subseteq 0 .. len - 1
              /\ \A b \in m : base_pn + o + b \in received
              /\ \A p \in received : p >= base_pn + o => p - (base_pn + o) \in m
      <4>1. received \subseteq Int /\ pn_map \subseteq 0 .. len - 1 /\ pn \in Int
        BY <1>2, <1>4
      <4>2. base_pn <= pn + 1 /\ pn + 1 - base_pn <= len
        BY <1>2, <1>4, <2>1
      <4>3. /\ \A b \in pn_map : base_pn + b \in received
            /\ \A p \in received : p >= base_pn => p - base_pn \in pn_map
        BY <1>3, Zenon
      <4>4. base_pn \in Int /\ len \in Nat
        BY <1>2, <1>4, Zenon
      <4> QED BY <4>1, <4>2, <4>3, <4>4, MoveExact, Zenon
    <3>4. /\ first \in 1 .. len
          /\ \A p \in pn + 1 .. base - 1 : p \in received
          /\ base = pn + first
          /\ map \subseteq 0 .. len - 1
          /\ \A b \in map : base + b \in received
          /\ \A p \in received : p >= base => p - base \in map
      BY <1>2, <1>5, <2>1, <3>1, <3>3, SMTT(30)
    <3> HIDE DEF first, map, base
    <3>5. base <= max + 1
      <4>1. CASE first = 1
        BY <1>2, <1>6, <3>4, <4>1
      <4>2. CASE first > 1
        <5>1. base - 1 \in pn + 1 .. base - 1
          BY <1>2, <3>4, <4>2, <1>4
        <5> QED BY <1>2, <1>6, <3>4, <5>1
      <4> QED BY <3>4, <4>1, <4>2, <1>4
    <3> QED BY <1>2, <1>4, <2>1, <3>4, <3>5
  <2>2. CASE base_pn # pn
    <3>1. base = base_pn /\ map = pn_map \cup {gap}
      BY <1>5, <2>2, Zenon
    <3> HIDE DEF base, map
    <3> QED BY <1>1, <1>2, <1>3, <1>4, <1>6, <3>1
  <2> QED BY <2>1, <2>2, Zenon
<1> HIDE DEF base, map, first
<1>9. max - base < len
  BY <1>2, <1>4, <1>6, <1>7, <1>8, SMTT(20)
\* Advancing the map.
<1>10. /\ skip \in Nat /\ base + skip <= max + 1
       /\ (due => \A p \in last_max_pn_seen + 1 .. base + skip - 1 : p >= base => p \in R)
       /\ (due => last_max_pn_seen < base + skip)
       /\ (~due => skip = 0)
       /\ bitmap_shift_right(map, skip) \subseteq 0 .. len - 1
       /\ \A b \in bitmap_shift_right(map, skip) : base + skip + b \in R
       /\ \A p \in R : p >= base + skip => p - (base + skip) \in bitmap_shift_right(map, skip)
  <2>1. CASE due /\ last_max_pn_seen + 1 > base
    <3>1. skip = MoveOffset(map, len, base, last_max_pn_seen)
      BY <2>1, Zenon
    <3>2. last_max_pn_seen + 1 - base <= len /\ base <= last_max_pn_seen + 1 /\ R \subseteq Int
      BY <1>2, <1>3, <1>4, <1>6, <1>8, <1>9, <2>1
    <3>3. LET o == MoveOffset(map, len, base, last_max_pn_seen)
              m == bitmap_shift_right(map, o)
          IN  /\ o \in last_max_pn_seen + 1 - base .. len
              /\ \A p \in last_max_pn_seen + 1 .. base + o - 1 : p \in R
              /\ base + o \notin R
              /\ m \subseteq 0 .. len - 1
              /\ \A b \in m : base + o + b \in R
              /\ \A p \in R : p >= base + o => p - (base + o) \in m
      <4>1. /\ base \in Int /\ last_max_pn_seen \in Int /\ len \in Nat
            /\ map \subseteq 0 .. len - 1 /\ R \subseteq Int
            /\ \A b \in map : base + b \in R
            /\ \A p \in R : p >= base => p - base \in map
        BY <1>2, <1>4, <1>8, <3>2, Zenon
      <4> HIDE DEF R
      <4> QED BY <3>2, <4>1, MoveExact, Zenon
    <3>4. /\ skip \in last_max_pn_seen + 1 - base .. len
          /\ \A p \in last_max_pn_seen + 1 .. base + skip - 1 : p \in R
          /\ bitmap_shift_right(map, skip) \subseteq 0 .. len - 1
          /\ \A b \in bitmap_shift_right(map, skip) : base + skip + b \in R
          /\ \A p \in R : p >= base + skip => p - (base + skip) \in bitmap_shift_right(map, skip)
      BY <3>1, <3>3, Zenon
    <3> HIDE DEF skip
    <3>5. base + skip <= max + 1
      <4>1. CASE skip = last_max_pn_seen + 1 - base
        BY <1>2, <1>3, <1>6, <1>8, <4>1
      <4>2. CASE skip > last_max_pn_seen + 1 - base
        <5>1. base + skip - 1 \in last_max_pn_seen + 1 .. base + skip - 1
          BY <1>2, <1>8, <3>4, <4>2, <1>4
        <5> QED BY <1>2, <1>6, <1>8, <3>4, <5>1
      <4> QED BY <1>2, <1>4, <1>8, <3>4, <4>1, <4>2
    <3> QED BY <1>2, <1>4, <1>8, <2>1, <3>4, <3>5
  <2>2. CASE ~(due /\ last_max_pn_seen + 1 > base)
    <3>1. skip = 0
      BY <2>2, Zenon
    <3>2. bitmap_shift_right(map, 0) = map
      BY <1>4, <1>8, ShiftZero, Zenon
    <3> HIDE DEF skip, R
    <3>3. due => last_max_pn_seen < base
      BY <1>2, <1>8, <2>2
    <3>4. base \in Int /\ base + skip = base /\ \A b \in Int : base + skip + b = base + b
      BY <1>8, <3>1
    <3>5. bitmap_shift_right(map, skip) = map
      BY <3>1, <3>2, Zenon
    <3>6. map \subseteq Int
      BY <1>4, <1>8
    <3>7. \A p \in last_max_pn_seen + 1 .. base + skip - 1 : ~(p >= base)
      BY <1>2, <1>8, <3>1
    <3> HIDE DEF due
    <3>8. \A b \in map : base + skip + b \in R
      BY <1>8, <3>4, <3>6, Zenon
    <3>9. \A p \in R : p >= base + skip => p - (base + skip) \in map
      BY <1>8, <3>4, Zenon
    <3>10. skip \in Nat /\ base + skip <= max + 1
      BY <1>8, <3>1, <3>4, Zenon
    <3> QED BY <1>8, <3>1, <3>3, <3>4, <3>5, <3>7, <3>8, <3>9, <3>10, Zenon
  <2> QED BY <2>1, <2>2, Zenon
<1> HIDE DEF skip, due
\* The invariant in the new state.
<1>11. base_pn' # -1 /\ base_pn' >= base_pn
  BY <1>1, <1>2, <1>3, <1>8, <1>10
<1>12. TypeOK'
  BY <1>1, <1>2, <1>4, <1>6, <1>8, <1>10 DEF TypeOK, IInv
<1>13. WindowOrdered'
  <2>1. /\ min_pn_seen' <= last_max_pn_seen' /\ last_max_pn_seen' <= max_pn_seen'
        /\ min_pn_seen' < base_pn'
    BY <1>1, <1>2, <1>3, <1>6, <1>8, <1>10
  <2>2. base_pn' <= max_pn_seen' + 1 /\ max_pn_seen' - base_pn' < pn_map_len'
    BY <1>1, <1>2, <1>4, <1>6, <1>8, <1>9, <1>10
  <2>3. {min_pn_seen', last_max_pn_seen', max_pn_seen'} \subseteq received'
    BY <1>1, <1>3, <1>6, Zenon
  <2> QED BY <1>1, <1>6, <2>1, <2>2, <2>3, Zenon DEF WindowOrdered
<1>14. PrefixReceived'
  <2> SUFFICES ASSUME NEW p \in min_pn_seen' .. base_pn' - 1 PROVE p \in R
    BY Zenon DEF PrefixReceived
  <2>1. p \in Int /\ p < base + skip
    BY <1>1, <1>2, <1>8, <1>10, <1>12 DEF TypeOK
  <2>2. CASE ~due
    BY <1>1, <1>2, <1>3, <1>8, <1>10, <2>1, <2>2
  <2>3. CASE due
    <3>1. p >= last_max_pn_seen
      BY <1>1, <1>2, <2>1, <2>3
    <3>2. CASE p < base
      BY <1>2, <1>3, <1>8, <2>1, <3>1, <3>2
    <3>3. CASE p >= base /\ p > last_max_pn_seen
      BY <1>2, <1>8, <1>10, <2>1, <2>3, <3>1, <3>3
    <3>4. CASE p = last_max_pn_seen
      BY <1>3, <3>4, Zenon
    <3> QED BY <1>2, <1>8, <2>1, <3>1, <3>2, <3>3, <3>4
  <2> QED BY <2>2, <2>3, Zenon
<1>15. MapExact'
  BY <1>1, <1>10, Zenon DEF MapExact
<1> QED BY <1>11, <1>12, <1>13, <1>14, <1>15, Zenon DEF IInv, Unstarted

\* So does marking the first number of a space.
LEMMA MarkFirstIInv ==
    ASSUME IInv, NEW pn \in PacketNumbers, MarkFirst(pn),
           received' = received \cup {pn}
    PROVE  IInv'
<1>1. /\ received' = {pn} /\ pn_map' = {} /\ pn \in Nat
      /\ base_pn' = pn + 1 /\ min_pn_seen' = pn /\ max_pn_seen' = pn /\ last_max_pn_seen' = pn
      /\ pn_map_len' = pn_map_len /\ pn_map_len \in 1 .. MAP_SIZE
  BY PacketNumbersAssumption, Zenon DEF IInv, Unstarted, TypeOK, MarkFirst
<1>2. TypeOK'
  BY <1>1 DEF IInv, TypeOK
<1>3. WindowOrdered' /\ PrefixReceived' /\ MapExact'
  BY <1>1, MapAssumption DEF WindowOrdered, PrefixReceived, MapExact
<1> QED BY <1>1, <1>2, <1>3 DEF IInv, Unstarted

\* Every step of the receive path preserves the invariant.
LEMMA NextIInv == IInv /\ [Next]_vars => IInv'
<1> SUFFICES ASSUME IInv, [Next]_vars PROVE IInv'
  BY Zenon
<1>3. ASSUME NEW pn \in PacketNumbers, Receive(pn) PROVE IInv'
  <2>1. Check(pn) = "new" /\ received' = received \cup {pn}
    BY <1>3, Zenon DEF Receive
  <2>2. CASE MarkFirst(pn)
    BY <2>1, <2>2, MarkFirstIInv, Zenon
  <2>3. ASSUME NEW elapsed \in BOOLEAN, MarkNext(pn, elapsed) PROVE IInv'
    BY <2>1, <2>3, MarkNextIInv, Zenon
  <2> QED BY <1>3, <2>2, <2>3, Zenon DEF Receive
<1>5. ASSUME UNCHANGED vars PROVE IInv'
  BY <1>5, Zenon DEF vars, space, IInv, TypeOK, Unstarted, WindowOrdered, PrefixReceived, MapExact
<1> QED BY <1>3, <1>5, Zenon DEF Next, ReceiveUnmarked, Discard

-----------------------------------------------------------------------------
(* The theorems. *)

\* The inductive invariant holds for every map size, limit and set of numbers.
THEOREM SpecIInv == Spec => []IInv
<1> QED BY InitIInv, NextIInv, PTL DEF Spec

\* The space is well typed, its edges are ordered and every number below the base
\* was received (quic_pnspace_mark never skips a missing packet).
THEOREM WindowCorrect == Spec => []Window
<1>1. IInv => Window
  BY Zenon DEF Window, IInv
<1> QED BY <1>1, SpecIInv, PTL

\* A set bit of the map is a received number and a received number above the base has
\* its bit set, through every growth, shift and advance of the map.
THEOREM MapCorrect == Spec => []MapExact
<1>1. IInv => MapExact
  BY Zenon DEF IInv
<1> QED BY <1>1, SpecIInv, PTL

\* quic_pnspace_check answers "new" only for a number that was never marked.
THEOREM CheckCorrect == Spec => []CheckExact
<1> QED BY IInvCheckExact, SpecIInv, PTL

\* A packet number that was once refused as a duplicate or as too old stays refused: no
\* growth, shift or advance of the map makes quic_pnspace_check forget it.
THEOREM ReplayProtection == Spec => RefusedForGood
<1>1. ASSUME IInv, IInv', [Next]_vars, NEW pn \in PacketNumbers, Refused(pn)
      PROVE  Refused(pn)'
  <2>1. base_pn # -1 /\ (Check(pn) = "marked" \/ pn < min_pn_seen)
    BY <1>1, Zenon DEF Refused
  <2>2. /\ pn \in Nat /\ min_pn_seen \in Int /\ last_max_pn_seen \in Int
        /\ min_pn_seen <= last_max_pn_seen /\ base_pn' \in Int /\ min_pn_seen' \in Int
    BY <1>1, <2>1, PacketNumbersAssumption, Zenon DEF IInv, TypeOK, WindowOrdered
  <2>3. min_pn_seen <= min_pn_seen' /\ received \subseteq received' /\ base_pn' # -1
    <3>1. ASSUME NEW q \in PacketNumbers, NEW elapsed \in BOOLEAN, MarkNext(q, elapsed),
                 received' = received \cup {q}
          PROVE  min_pn_seen <= min_pn_seen' /\ received \subseteq received' /\ base_pn' # -1
      <4>1. min_pn_seen' = last_max_pn_seen \/ min_pn_seen' = min_pn_seen
        BY <3>1, Zenon DEF MarkNext
      <4>2. received' # {}
        BY <3>1, Zenon
      <4>3. base_pn' # -1
        BY <1>1, <4>2, Zenon DEF IInv, Unstarted
      <4>4. min_pn_seen <= min_pn_seen'
        BY <2>2, <4>1
      <4> QED BY <3>1, <4>3, <4>4, Zenon
    <3>2. ASSUME NEW q \in PacketNumbers, Receive(q)
          PROVE  min_pn_seen <= min_pn_seen' /\ received \subseteq received' /\ base_pn' # -1
      BY <2>1, <3>1, <3>2, Zenon DEF Receive, MarkFirst
    <3>3. CASE UNCHANGED vars
      BY <2>1, <2>2, <3>3 DEF vars, space
    <3> QED BY <1>1, <3>2, <3>3, Zenon DEF Next, ReceiveUnmarked, Discard
  <2>4. CASE pn < min_pn_seen
    BY <2>2, <2>3, <2>4 DEF Refused
  <2>5. CASE Check(pn) = "marked"
    <3>1. pn \in received /\ pn \in received'
      BY <1>1, <2>3, <2>5, IInvCheckExact, Zenon DEF CheckExact
    <3>2. pn < base_pn' \/ pn - base_pn' \in pn_map'
      BY <1>1, <2>2, <2>3, <3>1 DEF IInv, MapExact
    <3>3. /\ pn <= max_pn_seen' /\ max_pn_seen' - base_pn' < pn_map_len'
          /\ max_pn_seen' \in Int /\ pn_map_len' \in 1 .. MAP_SIZE
      BY <1>1, <2>3, <3>1, Zenon DEF IInv, WindowOrdered, TypeOK
    <3>4. ~(pn >= base_pn' + MAP_SIZE)
      <4>1. MAP_SIZE \in Int /\ pn_map_len' \in Int /\ pn_map_len' <= MAP_SIZE
        BY <3>3, MapAssumption
      <4>2. \A a, b, c, d, e \in Int : (a <= b /\ b - c < d /\ d <= e) => ~(a >= c + e)
        OBVIOUS
      <4>3. pn \in Int /\ max_pn_seen' \in Int /\ base_pn' \in Int
        BY <2>2, <3>3
      <4> QED BY <3>3, <4>1, <4>2, <4>3, Zenon
    <3>5. CASE pn < min_pn_seen'
      BY <2>3, <3>5, Zenon DEF Refused
    <3>6. CASE ~(pn < min_pn_seen')
      BY <2>3, <3>2, <3>4, <3>6, Zenon DEF Refused, Check
    <3> QED BY <3>5, <3>6, Zenon
  <2> QED BY <2>1, <2>4, <2>5, Zenon
<1>2. IInv /\ IInv' /\ [Next]_vars => [\A pn \in PacketNumbers : Refused(pn) => Refused(pn)']_vars
  BY <1>1, Zenon
<1> QED BY <1>2, SpecIInv, PTL DEF Spec, RefusedForGood

-----------------------------------------------------------------------------
(* The gaps of the ACK frame (quic_pnspace_num_gabs) and the ranges that     *)
(* quic_frame_ack_create makes of them.                                      *)

\* The elements of a sequence.
LEMMA SeqParts ==
    ASSUME NEW T, NEW q \in Seq(T)
    PROVE  Len(q) \in Nat /\ q \in [1 .. Len(q) -> T] /\ \A n \in 1 .. Len(q) : q[n] \in T
  OBVIOUS

\* Joining two sequences.
LEMMA SeqJoined ==
    ASSUME NEW T, NEW q \in Seq(T), NEW r \in Seq(T)
    PROVE  /\ q \o r \in Seq(T) /\ Len(q \o r) = Len(q) + Len(r)
           /\ \A n \in 1 .. Len(q) + Len(r) :
                (q \o r)[n] = IF n <= Len(q) THEN q[n] ELSE r[n - Len(q)]
  OBVIOUS

\* Replacing an element of a sequence.
LEMMA SeqReplaced ==
    ASSUME NEW T, NEW q \in Seq(T), NEW m \in 1 .. Len(q), NEW x \in T
    PROVE  LET r == [q EXCEPT ![m] = x]
           IN  /\ r \in Seq(T) /\ Len(r) = Len(q)
               /\ \A n \in 1 .. Len(q) : r[n] = IF n = m THEN x ELSE q[n]
  OBVIOUS

\* The offset of max_pn_seen, the end of what the map records.
Reach == max_pn_seen - base_pn

\* A started space with a gap: what the invariant says of its map.
Gapped ==
    /\ base_pn \in Nat \ {0} /\ max_pn_seen \in Nat /\ min_pn_seen \in Nat /\ min_pn_seen < base_pn
    /\ pn_map_len \in Nat /\ pn_map \subseteq 0 .. pn_map_len - 1
    /\ Reach \in 0 .. pn_map_len - 1 /\ Reach \in pn_map

\* The invariant gives it: the largest number seen is above the base and has its bit set.
LEMMA IInvGapped == IInv /\ base_pn # -1 /\ has_gap => Gapped
<1> SUFFICES ASSUME IInv, base_pn # -1, has_gap PROVE Gapped
  BY Zenon
<1>1. base_pn \in Int /\ max_pn_seen \in Int /\ min_pn_seen \in Int /\ pn_map_len \in 1 .. MAP_SIZE
  BY Zenon DEF IInv, TypeOK
<1>2. /\ min_pn_seen < base_pn /\ base_pn <= max_pn_seen + 1
      /\ max_pn_seen - base_pn < pn_map_len
      /\ {min_pn_seen, max_pn_seen} \subseteq received
  BY Zenon DEF IInv, WindowOrdered
<1>3. min_pn_seen \in Nat /\ max_pn_seen \in Nat
  BY <1>2, PacketNumbersAssumption, Zenon DEF IInv, TypeOK
<1>4. base_pn <= max_pn_seen
  BY <1>1, <1>2 DEF has_gap
<1>5. max_pn_seen - base_pn \in pn_map
  BY <1>2, <1>3, <1>4, Zenon DEF IInv, MapExact
<1> QED BY <1>1, <1>2, <1>3, <1>4, <1>5, MapAssumption DEF Gapped, Reach, IInv, TypeOK

\* find_next_bit skips only clear bits and stops at a set one, or at the end.
LEMMA NextBit ==
    ASSUME NEW len \in Nat, NEW map, map \subseteq 0 .. len - 1, NEW offset \in Nat, offset <= len
    PROVE  LET z == find_next_bit(map, len, offset)
           IN  /\ z \in offset .. len
               /\ z \in map \/ z = len
               /\ \A i \in offset .. z - 1 : i \notin map
<1> DEFINE S == {i \in offset .. len : i \in map \cup {len}}
<1>1. CASE offset = len
  BY <1>1 DEF find_next_bit
<1>2. CASE offset < len
  <2>1. len \in S /\ S \subseteq Nat
    BY <1>2
  <2>2. Min(S) \in S /\ \A y \in S : Min(S) <= y
    BY <2>1, MinOfNats, Zenon
  <2>3. find_next_bit(map, len, offset) = Min(S)
    BY <1>2 DEF find_next_bit
  <2> QED BY <2>1, <2>2, <2>3
<1> QED BY <1>1, <1>2

\* A gap of missing packets between two received ones; start is one past the first
\* missing offset, end the offset of the received packet above.
Gap == [start : Nat, end : Nat]

MissesFrom(g, offset) ==
    /\ g \in Gap
    /\ offset <= g.start - 1 /\ g.start <= g.end /\ g.end <= Reach
    /\ \A b \in offset .. g.start - 2 : b \in pn_map
    /\ \A b \in g.start - 1 .. g.end - 1 : b \notin pn_map

\* quic_pnspace_next_gap_ack finds the next gap, or there is none.
LEMMA NextGap ==
    ASSUME Gapped, NEW offset \in 0 .. Reach
    PROVE  \/ next_gap_ack(offset) = <<>> /\ \A b \in offset .. Reach : b \in pn_map
           \/ \E g \in Gap : /\ next_gap_ack(offset) = <<g>> /\ MissesFrom(g, offset)
                             /\ g.end \in pn_map
<1> DEFINE z == find_next_zero_bit(pn_map, pn_map_len, offset)
           e == find_next_bit(pn_map, pn_map_len, z)
<1>1. /\ base_pn \in Nat /\ max_pn_seen \in Nat /\ pn_map_len \in Nat /\ Reach \in Nat
      /\ Reach = max_pn_seen - base_pn /\ Reach < pn_map_len /\ Reach \in pn_map
      /\ pn_map \subseteq 0 .. pn_map_len - 1 /\ offset \in Nat /\ offset <= pn_map_len
  BY DEF Gapped, Reach
<1>2. z \in offset .. pn_map_len /\ z \notin pn_map /\ \A i \in offset .. z - 1 : i \in pn_map
  BY <1>1, NextZeroBit, Zenon
<1>3. z \in Nat /\ z <= pn_map_len
  BY <1>1, <1>2
<1> HIDE DEF z
<1>4. /\ e \in z .. pn_map_len /\ (e \in pn_map \/ e = pn_map_len)
      /\ \A i \in z .. e - 1 : i \notin pn_map
  BY <1>1, <1>3, NextBit, Zenon
<1> HIDE DEF e
<1>5. next_gap_ack(offset) =
        IF max_pn_seen <= base_pn + z \/ max_pn_seen <= base_pn + e - 1
        THEN <<>> ELSE <<[start |-> z + 1, end |-> e]>>
  BY Zenon DEF next_gap_ack, z, e
<1>6. CASE z > Reach
  <2>1. next_gap_ack(offset) = <<>>
    BY <1>1, <1>3, <1>5, <1>6
  <2>2. \A b \in offset .. Reach : b \in pn_map
    BY <1>1, <1>2, <1>3, <1>6
  <2> QED BY <2>1, <2>2, Zenon
<1>7. CASE z < Reach
  <2>1. e <= Reach /\ e > z
    <3>1. ~(e > Reach)
      BY <1>1, <1>3, <1>4, <1>7
    <3>2. e # z
      BY <1>1, <1>2, <1>3, <1>4, <1>7
    <3> QED BY <1>1, <1>3, <1>4, <3>1, <3>2
  <2> DEFINE g == [start |-> z + 1, end |-> e]
  <2>2. next_gap_ack(offset) = <<g>>
    BY <1>1, <1>3, <1>4, <1>5, <1>7, <2>1
  <2>3. g \in Gap /\ g.start = z + 1 /\ g.end = e
    BY <1>1, <1>3, <1>4 DEF Gap
  <2>4. e \in pn_map
    BY <1>1, <1>4, <2>1
  <2> HIDE DEF g
  <2>5. MissesFrom(g, offset)
    BY <1>1, <1>2, <1>3, <1>4, <2>1, <2>3 DEF MissesFrom
  <2> QED BY <2>2, <2>3, <2>4, <2>5, Zenon
<1>8. z # Reach
  BY <1>1, <1>2, Zenon
<1> QED BY <1>1, <1>3, <1>6, <1>7, <1>8

\* One round of the loop of quic_pnspace_num_gabs.
Round(before, n) ==
    LET offset == IF n = 1 THEN 0 ELSE before[n - 1].end
    IN  IF Len(before) < n - 1 THEN before ELSE before \o next_gap_ack(offset)

Rounds(f, m) == \A n \in 0 .. m : f[n] = IF n = 0 THEN <<>> ELSE Round(f[n - 1], n)

\* The loop of quic_pnspace_num_gabs can be run for any number of rounds.
LEMMA RoundsExist == \A m \in Nat : \E f : Rounds(f, m)
<1> DEFINE A == {m \in Nat : ~\E f : Rounds(f, m)}
<1> SUFFICES ASSUME A # {} PROVE FALSE
  BY Zenon
<1> DEFINE m == Min(A)
<1>1. m \in A /\ \A y \in A : m <= y
  BY MinOfNats, Zenon
<1> HIDE DEF m
<1>2. m \in Nat /\ ~\E f : Rounds(f, m)
  BY <1>1, Zenon
<1>3. m # 0
  <2>1. Rounds([n \in 0 .. 0 |-> <<>>], 0)
    BY DEF Rounds
  <2> QED BY <1>2, <2>1, Zenon
<1>4. m - 1 \in Nat /\ m - 1 \notin A
  BY <1>1, <1>2, <1>3
<1>5. PICK f : Rounds(f, m - 1)
  BY <1>4, Zenon
<1> DEFINE last == Round(f[m - 1], m)
           g == [n \in 0 .. m |-> IF n = m THEN last ELSE f[n]]
<1>6. \A n \in 0 .. m : g[n] = IF n = 0 THEN <<>> ELSE Round(g[n - 1], n)
  <2> TAKE n \in 0 .. m
  <2>1. CASE n = m
    <3>1. m - 1 \in 0 .. m /\ m - 1 # m
      BY <1>2, <1>3
    <3>2. g[m - 1] = f[m - 1] /\ g[m] = last
      BY <1>2, <3>1
    <3> HIDE DEF g
    <3> QED BY <1>3, <2>1, <3>2, Zenon
  <2>2. CASE n # m
    <3>1. n \in 0 .. m - 1 /\ (n # 0 => n - 1 \in 0 .. m /\ n - 1 # m)
      BY <1>2, <2>2
    <3>2. f[n] = IF n = 0 THEN <<>> ELSE Round(f[n - 1], n)
      BY <1>5, <3>1, Zenon DEF Rounds
    <3>3. g[n] = f[n] /\ (n # 0 => g[n - 1] = f[n - 1])
      BY <2>2, <3>1, Zenon
    <3> HIDE DEF g
    <3> QED BY <3>2, <3>3, Zenon
  <2> QED BY <2>1, <2>2, Zenon
<1> HIDE DEF g
<1>7. Rounds(g, m)
  BY <1>6, Zenon DEF Rounds
<1> QED BY <1>2, <1>7, Zenon

Found(f) ==
    f = [n \in 0 .. MAX_GABS |->
            IF n = 0 THEN <<>>
            ELSE LET before == f[n - 1]
                     offset == IF n = 1 THEN 0 ELSE before[n - 1].end
                 IN  IF Len(before) < n - 1 THEN before ELSE before \o next_gap_ack(offset)]

found == CHOOSE f : Found(f)

\* So the recursive function of gabs is defined, and its values are the rounds of the loop.
LEMMA FoundExists == Rounds(found, MAX_GABS)
<1>1. MAX_GABS \in Nat
  BY MapAssumption, Zenon
<1>2. PICK f : Rounds(f, MAX_GABS)
  BY <1>1, RoundsExist, Zenon
<1> DEFINE g == [n \in 0 .. MAX_GABS |-> f[n]]
<1>3. \A n \in 0 .. MAX_GABS : g[n] = f[n] /\ (n # 0 => n - 1 \in 0 .. MAX_GABS /\ g[n - 1] = f[n - 1])
  BY <1>1
<1>4. DOMAIN g = 0 .. MAX_GABS /\ g = [n \in 0 .. MAX_GABS |-> g[n]]
  BY Zenon
<1> HIDE DEF g
<1>5. \A n \in 0 .. MAX_GABS : g[n] = IF n = 0 THEN <<>> ELSE Round(g[n - 1], n)
  BY <1>2, <1>3, Zenon DEF Rounds
<1>6. g = [n \in 0 .. MAX_GABS |-> IF n = 0 THEN <<>> ELSE Round(g[n - 1], n)]
  BY <1>4, <1>5, Zenon
<1>7. Found(g)
  BY <1>6, Zenon DEF Found, Round
<1>8. Found(found)
  BY <1>7, Zenon DEF found
<1> HIDE DEF found
<1>9. found = [n \in 0 .. MAX_GABS |-> IF n = 0 THEN <<>> ELSE Round(found[n - 1], n)]
  BY <1>8, Zenon DEF Found, Round
<1> QED BY <1>9, Zenon DEF Rounds

\* gabs in terms of that function.
LEMMA GabsFound ==
    gabs = IF ~has_gap THEN <<>>
           ELSE IF Len(found[MAX_GABS]) < MAX_GABS THEN found[MAX_GABS]
           ELSE [found[MAX_GABS] EXCEPT ![MAX_GABS].end = max_pn_seen - base_pn]
  BY Zenon DEF gabs, found, Found

\* The gaps follow each other, with packets received between them, and the gaps found so
\* far are all there are.
Offset(s, i) == IF i = 1 THEN 0 ELSE s[i - 1].end

Chain(s) ==
    /\ s \in Seq(Gap)
    /\ \A i \in 1 .. Len(s) : MissesFrom(s[i], Offset(s, i)) /\ s[i].end \in pn_map

Complete(s) == \A b \in Offset(s, Len(s) + 1) .. Reach : b \in pn_map

\* Adding the next gap of quic_pnspace_next_gap_ack keeps a chain a chain.
LEMMA ChainGrows ==
    ASSUME NEW s, Chain(s), NEW g \in Gap, MissesFrom(g, Offset(s, Len(s) + 1)), g.end \in pn_map
    PROVE  Chain(s \o <<g>>) /\ Len(s \o <<g>>) = Len(s) + 1
<1> DEFINE t == s \o <<g>>
<1>1. s \in Seq(Gap) /\ Len(s) \in Nat
  BY SeqParts, Zenon DEF Chain
<1>2. <<g>> \in Seq(Gap) /\ Len(<<g>>) = 1 /\ <<g>>[1] = g
  OBVIOUS
<1>3. /\ t \in Seq(Gap) /\ Len(t) = Len(s) + 1
      /\ \A i \in 1 .. Len(s) + 1 : t[i] = IF i <= Len(s) THEN s[i] ELSE g
  BY <1>1, <1>2, SeqJoined
<1> HIDE DEF t
<1>4. ASSUME NEW i \in 1 .. Len(t)
      PROVE  MissesFrom(t[i], Offset(t, i)) /\ t[i].end \in pn_map
  <2>1. i # 1 => i - 1 \in 1 .. Len(s) /\ t[i - 1] = s[i - 1]
    BY <1>1, <1>3
  <2>2. Offset(t, i) = Offset(s, i)
    BY <2>1, Zenon DEF Offset
  <2>3. CASE i <= Len(s)
    BY <1>1, <1>3, <2>2, <2>3 DEF Chain
  <2>4. CASE i = Len(s) + 1
    <3>1. t[i] = g
      BY <1>1, <1>3, <2>4
    <3> QED BY <2>2, <2>4, <3>1, Zenon
  <2> QED BY <1>1, <1>3, <2>3, <2>4
<1> QED BY <1>3, <1>4, Zenon DEF Chain, t

\* After every round the gaps found form a chain, which is complete once a round finds none.
LEMMA FoundChain ==
    ASSUME Gapped, NEW n \in 0 .. MAX_GABS
    PROVE  /\ Chain(found[n]) /\ Len(found[n]) <= n
           /\ Len(found[n]) < n => Complete(found[n])
<1> DEFINE Good(k) == /\ Chain(found[k]) /\ Len(found[k]) <= k
                      /\ Len(found[k]) < k => Complete(found[k])
           A == {k \in 0 .. MAX_GABS : ~Good(k)}
<1>0. MAX_GABS \in Nat /\ Reach \in Nat
  BY MapAssumption DEF Gapped
<1> SUFFICES ASSUME A # {} PROVE FALSE
  BY Zenon
<1>1. A \subseteq Nat
  BY <1>0
<1> DEFINE m == Min(A)
<1>2. m \in A /\ \A y \in A : m <= y
  BY <1>1, MinOfNats, Zenon
<1> HIDE DEF m
<1>3. m \in 0 .. MAX_GABS /\ m \in Nat /\ ~Good(m)
  BY <1>0, <1>2
<1>4. m # 0
  <2>1. 0 \in 0 .. MAX_GABS
    BY <1>0
  <2>2. found[0] = <<>>
    BY <2>1, FoundExists, Zenon DEF Rounds
  <2>3. Good(0)
    BY <2>2 DEF Chain
  <2> QED BY <1>3, <2>3, Zenon
<1>5. m - 1 \in 0 .. MAX_GABS /\ m - 1 \notin A
  BY <1>0, <1>2, <1>3, <1>4
<1> DEFINE s == found[m - 1]
<1>6. Chain(s) /\ Len(s) <= m - 1 /\ (Len(s) < m - 1 => Complete(s))
  BY <1>5, Zenon
<1>7. found[m] = Round(s, m)
  BY <1>3, <1>4, FoundExists, Zenon DEF Rounds
<1>8. s \in Seq(Gap) /\ Len(s) \in Nat
  BY <1>6, SeqParts, Zenon DEF Chain
<1> HIDE DEF s
<1>9. CASE Len(s) < m - 1
  <2>1. found[m] = s
    BY <1>7, <1>9, Zenon DEF Round
  <2> QED BY <1>3, <1>6, <1>8, <1>9, <2>1
<1>10. CASE ~(Len(s) < m - 1)
  <2>1. Len(s) = m - 1
    BY <1>3, <1>6, <1>8, <1>10
  <2> DEFINE o == Offset(s, Len(s) + 1)
  <2>2. found[m] = s \o next_gap_ack(o)
    BY <1>3, <1>7, <1>10, <2>1 DEF Round, Offset
  <2>3. o \in 0 .. Reach
    <3>1. CASE Len(s) = 0
      BY <1>0, <3>1 DEF Offset
    <3>2. CASE Len(s) # 0
      <4>1. Len(s) \in 1 .. Len(s) /\ Len(s) + 1 # 1 /\ Len(s) + 1 - 1 = Len(s)
        BY <1>8, <3>2
      <4>2. o = s[Len(s)].end
        BY <4>1 DEF Offset
      <4>3. s[Len(s)].end <= Reach /\ s[Len(s)] \in Gap
        BY <1>6, <4>1, Zenon DEF Chain, MissesFrom
      <4> QED BY <1>0, <4>2, <4>3 DEF Gap
    <3> QED BY <3>1, <3>2, Zenon
  <2> HIDE DEF o
  <2>4. CASE next_gap_ack(o) = <<>> /\ \A b \in o .. Reach : b \in pn_map
    <3>1. found[m] = s
      BY <1>8, <2>2, <2>4
    <3>2. Complete(s)
      BY <2>4, Zenon DEF Complete, o
    <3> QED BY <1>3, <1>6, <1>8, <2>1, <3>1, <3>2
  <2>5. ASSUME NEW g \in Gap, next_gap_ack(o) = <<g>>, MissesFrom(g, o), g.end \in pn_map
        PROVE  FALSE
    <3>1. found[m] = s \o <<g>>
      BY <2>2, <2>5, Zenon
    <3>2. MissesFrom(g, Offset(s, Len(s) + 1))
      BY <2>5, Zenon DEF o
    <3>3. Chain(s \o <<g>>) /\ Len(s \o <<g>>) = Len(s) + 1
      BY <1>6, <2>5, <3>2, ChainGrows, Zenon
    <3> QED BY <1>3, <1>8, <2>1, <3>1, <3>3
  <2> QED BY <2>3, <2>4, <2>5, NextGap, Zenon
<1> QED BY <1>9, <1>10, Zenon

\* What the ACK frame needs to know of the gaps g that quic_pnspace_num_gabs returns.
Lowest(g) == IF Len(g) = 0 THEN min_pn_seen ELSE base_pn + g[Len(g)].end

Ordered(g) ==
    /\ g \in Seq(Gap) /\ Len(g) <= MAX_GABS
    /\ \A i \in 1 .. Len(g) : /\ Offset(g, i) <= g[i].start - 1 /\ g[i].start <= g[i].end
                              /\ i # 1 => Offset(g, i) <= g[i].start - 2

Between(g) ==
    /\ \A i \in 1 .. Len(g) : \A b \in Offset(g, i) .. g[i].start - 2 : base_pn + b \in received
    /\ Lowest(g) <= max_pn_seen
    /\ \A p \in Lowest(g) .. max_pn_seen : p \in received

Missing(g) ==
    \A i \in 1 .. Len(g) : \A b \in g[i].start - 1 .. g[i].end - 1 : base_pn + b \notin received

\* The edges of a started space.
Started ==
    /\ base_pn \in Nat \ {0} /\ max_pn_seen \in Nat /\ min_pn_seen \in Nat
    /\ min_pn_seen < base_pn /\ base_pn <= max_pn_seen + 1 /\ min_pn_seen <= max_pn_seen
    /\ received \subseteq Nat /\ \A p \in received : p <= max_pn_seen
    /\ \A p \in min_pn_seen .. base_pn - 1 : p \in received
    /\ \A b \in pn_map : base_pn + b \in received
    /\ \A p \in received : p >= base_pn => p - base_pn \in pn_map

\* The invariant gives them, once a packet was marked.
LEMMA IInvStarted == IInv /\ base_pn # -1 => Started
<1> SUFFICES ASSUME IInv, base_pn # -1 PROVE Started
  BY Zenon
<1>1. base_pn \in Int /\ received \subseteq Nat
  BY PacketNumbersAssumption, Zenon DEF IInv, TypeOK
<1>2. WindowOrdered /\ PrefixReceived /\ MapExact
  BY Zenon DEF IInv
<1>3. min_pn_seen \in Nat /\ max_pn_seen \in Nat /\ last_max_pn_seen \in Nat
  BY <1>1, <1>2, Zenon DEF WindowOrdered
<1> QED BY <1>1, <1>2, <1>3 DEF Started, WindowOrdered, PrefixReceived, MapExact

\* A received number at or above the base is a bit, and the reverse.
LEMMA BitReceived ==
    ASSUME Started, NEW b \in Nat
    PROVE  b \in pn_map <=> base_pn + b \in received
<1>1. base_pn \in Nat /\ base_pn + b >= base_pn /\ base_pn + b - base_pn = b
  BY DEF Started
<1> QED BY <1>1 DEF Started

\* In terms of packet numbers: a chain has received packets between its gaps and none inside.
LEMMA ChainOrdered ==
    ASSUME Started, Gapped, NEW s, Chain(s), Len(s) <= MAX_GABS
    PROVE  /\ Ordered(s) /\ Missing(s)
           /\ \A i \in 1 .. Len(s) :
                /\ \A b \in Offset(s, i) .. s[i].start - 2 : base_pn + b \in received
                /\ base_pn + s[i].end <= max_pn_seen
<1>1. s \in Seq(Gap) /\ Len(s) \in Nat /\ \A i \in 1 .. Len(s) : s[i] \in Gap
  BY SeqParts, Zenon DEF Chain, MissesFrom
<1>2. \A i \in 1 .. Len(s) : Offset(s, i) \in Nat
  <2> TAKE i \in 1 .. Len(s)
  <2>1. i # 1 => i - 1 \in 1 .. Len(s)
    BY <1>1
  <2> QED BY <1>1, <2>1, Zenon DEF Offset, Gap
<1>3. ASSUME NEW i \in 1 .. Len(s)
      PROVE  /\ Offset(s, i) <= s[i].start - 1 /\ s[i].start <= s[i].end
             /\ i # 1 => Offset(s, i) <= s[i].start - 2
             /\ \A b \in Offset(s, i) .. s[i].start - 2 : base_pn + b \in received
             /\ \A b \in s[i].start - 1 .. s[i].end - 1 : base_pn + b \notin received
             /\ base_pn + s[i].end <= max_pn_seen
  <2>1. MissesFrom(s[i], Offset(s, i)) /\ s[i].start \in Nat /\ s[i].end \in Nat
    BY <1>1, Zenon DEF Chain, Gap
  <2>2. i # 1 => Offset(s, i) \in pn_map
    <3> HAVE i # 1
    <3>1. i - 1 \in 1 .. Len(s)
      BY <1>1
    <3> QED BY <3>1, Zenon DEF Offset, Chain
  <2>3. i # 1 => Offset(s, i) # s[i].start - 1
    BY <1>2, <2>1, <2>2 DEF MissesFrom
  <2>4. \A b \in Offset(s, i) .. s[i].start - 2 : base_pn + b \in received
    BY <1>2, <2>1, BitReceived DEF MissesFrom
  <2>5. \A b \in s[i].start - 1 .. s[i].end - 1 : base_pn + b \notin received
    <3> TAKE b \in s[i].start - 1 .. s[i].end - 1
    <3>1. b \in Nat
      BY <1>2, <2>1 DEF MissesFrom
    <3> QED BY <2>1, <3>1, BitReceived, Zenon DEF MissesFrom
  <2>6. base_pn + s[i].end <= max_pn_seen
    BY <2>1 DEF MissesFrom, Gapped, Reach
  <2> QED BY <1>2, <2>1, <2>3, <2>4, <2>5, <2>6 DEF MissesFrom
<1>4. Ordered(s) /\ Missing(s)
  BY <1>1, <1>3, Zenon DEF Ordered, Missing
<1> QED BY <1>3, <1>4, Zenon

\* The gaps gabs reports, the last one stretched to max_pn_seen when the slots run out, are in
\* order and separated by received packets; unless the slots ran out nothing in them was received.
LEMMA GabsGood ==
    ASSUME IInv, base_pn # -1
    PROVE  Ordered(gabs) /\ Between(gabs) /\ (Len(gabs) < MAX_GABS => Missing(gabs))
<1>1. Started /\ MAX_GABS \in Nat \ {0}
  BY IInvStarted, MapAssumption, Zenon
<1>2. CASE ~has_gap
  <2>1. gabs = <<>> /\ base_pn = max_pn_seen + 1
    BY <1>2, GabsFound, Zenon DEF has_gap
  <2>2. Len(<<>>) = 0 /\ <<>> \in Seq(Gap)
    OBVIOUS
  <2>3. Lowest(<<>>) = min_pn_seen
    BY <2>2, Zenon DEF Lowest
  <2>4. Between(<<>>)
    BY <1>1, <2>1, <2>2, <2>3 DEF Between, Started
  <2> QED BY <1>1, <2>1, <2>2, <2>4 DEF Ordered, Missing
<1>3. CASE has_gap
  <2> DEFINE s == found[MAX_GABS]
  <2>1. Gapped
    BY <1>3, IInvGapped, Zenon
  <2>2. MAX_GABS \in 0 .. MAX_GABS
    BY <1>1
  <2>3. Chain(s) /\ Len(s) <= MAX_GABS /\ (Len(s) < MAX_GABS => Complete(s))
    BY <2>1, <2>2, FoundChain, Zenon
  <2>4. gabs = IF Len(s) < MAX_GABS THEN s
               ELSE [s EXCEPT ![MAX_GABS].end = max_pn_seen - base_pn]
    BY <1>3, GabsFound, Zenon
  <2> HIDE DEF s
  <2>5. /\ Ordered(s) /\ Missing(s)
        /\ \A i \in 1 .. Len(s) :
             /\ \A b \in Offset(s, i) .. s[i].start - 2 : base_pn + b \in received
             /\ base_pn + s[i].end <= max_pn_seen
    BY <1>1, <2>1, <2>3, ChainOrdered, Zenon
  <2>6. s \in Seq(Gap) /\ Len(s) \in Nat /\ \A i \in 1 .. Len(s) : s[i] \in Gap
    BY <2>3, SeqParts, Zenon DEF Chain, MissesFrom
  <2>7. CASE Len(s) < MAX_GABS
    <3>1. Lowest(s) <= max_pn_seen
      BY <1>1, <2>5, <2>6 DEF Lowest, Started
    <3>2. \A p \in Lowest(s) .. max_pn_seen : p \in received
      <4>1. ASSUME NEW p \in Nat, p >= base_pn + Offset(s, Len(s) + 1), p <= max_pn_seen
            PROVE  p \in received
        <5>1. Offset(s, Len(s) + 1) \in Nat
          <6>1. Len(s) # 0 => Len(s) \in 1 .. Len(s) /\ Len(s) + 1 - 1 = Len(s)
            BY <2>6
          <6>2. Len(s) # 0 => s[Len(s)].end \in Nat
            BY <2>6, <6>1, Zenon DEF Gap
          <6> QED BY <2>6, <6>1, <6>2 DEF Offset
        <5>2. p - base_pn \in Offset(s, Len(s) + 1) .. Reach /\ base_pn + (p - base_pn) = p
          BY <1>1, <4>1, <5>1 DEF Reach, Started
        <5>3. p - base_pn \in pn_map
          BY <2>3, <2>7, <5>2, Zenon DEF Complete
        <5> QED BY <1>1, <5>2, <5>3, Zenon DEF Started
      <4>2. CASE Len(s) = 0
        <5>1. Lowest(s) = min_pn_seen /\ Offset(s, Len(s) + 1) = 0
          BY <4>2 DEF Lowest, Offset
        <5> QED BY <1>1, <4>1, <5>1 DEF Started
      <4>3. CASE Len(s) # 0
        <5>1. Lowest(s) = base_pn + s[Len(s)].end /\ Offset(s, Len(s) + 1) = s[Len(s)].end
          BY <2>6, <4>3 DEF Lowest, Offset
        <5>2. s[Len(s)].end \in Nat
          BY <2>6, <4>3 DEF Gap
        <5> QED BY <1>1, <4>1, <5>1, <5>2 DEF Started
      <4> QED BY <4>2, <4>3, Zenon
    <3> QED BY <2>4, <2>5, <2>7, <3>1, <3>2, Zenon DEF Between
  <2>8. CASE ~(Len(s) < MAX_GABS)
    <3> DEFINE d == max_pn_seen - base_pn
               new == [s[MAX_GABS] EXCEPT !.end = d]
               t == [s EXCEPT ![MAX_GABS] = new]
    <3>1. Len(s) = MAX_GABS /\ MAX_GABS \in 1 .. Len(s)
      BY <1>1, <2>3, <2>6, <2>8
    <3>2. gabs = t
      BY <2>4, <2>8, Zenon
    <3>3. d \in Nat /\ s[MAX_GABS].end <= d /\ s[MAX_GABS] \in Gap
      BY <1>1, <2>1, <2>5, <2>6, <3>1 DEF Gapped, Reach, Started, Gap
    <3>4. new \in Gap /\ new.start = s[MAX_GABS].start /\ new.end = d
      BY <3>3, Zenon DEF Gap
    <3> HIDE DEF new
    <3>5. /\ t \in Seq(Gap) /\ Len(t) = Len(s)
          /\ \A i \in 1 .. Len(s) : t[i] = IF i = MAX_GABS THEN new ELSE s[i]
      BY <2>6, <3>1, <3>4, SeqReplaced
    <3> HIDE DEF t
    <3>6. \A i \in 1 .. Len(s) : Offset(t, i) = Offset(s, i) /\ t[i].start = s[i].start
      <4> TAKE i \in 1 .. Len(s)
      <4>1. i # 1 => i - 1 \in 1 .. Len(s) /\ i - 1 # MAX_GABS
        BY <2>6, <3>1
      <4> QED BY <3>4, <3>5, <4>1, Zenon DEF Offset
    <3>7. \A i \in 1 .. Len(s) : t[i].start <= t[i].end
      <4> TAKE i \in 1 .. Len(s)
      <4>1. s[i].start <= s[i].end /\ s[i].start \in Nat /\ s[i].end \in Nat
        BY <2>5, <2>6, Zenon DEF Ordered, Gap
      <4> QED BY <3>3, <3>4, <3>5, <4>1
    <3>8. Ordered(t)
      BY <2>5, <3>5, <3>6, <3>7, Zenon DEF Ordered
    <3>9. Lowest(t) = max_pn_seen
      BY <1>1, <2>6, <3>1, <3>4, <3>5 DEF Lowest, Started
    <3>10. max_pn_seen \in received
      <4>1. d \in pn_map /\ base_pn + d = max_pn_seen
        BY <1>1, <2>1 DEF Gapped, Reach, Started
      <4> QED BY <1>1, <4>1, Zenon DEF Started
    <3>11. Between(t)
      BY <1>1, <2>5, <3>5, <3>6, <3>9, <3>10, SMTT(20) DEF Between, Started
    <3> QED BY <2>6, <2>8, <3>2, <3>5, <3>8, <3>11, Zenon
  <2> QED BY <2>7, <2>8, Zenon
<1> QED BY <1>2, <1>3, Zenon
-----------------------------------------------------------------------------
(* The frame and what its reader makes of it. *)

\* The ranges quic_frame_ack_process works out, from the highest numbers down.
Lo(k) == IF k = Len(gabs) THEN min_pn_seen ELSE base_pn + gabs[Len(gabs) - k].end
Hi(k) == IF k = 0 THEN max_pn_seen ELSE base_pn + gabs[Len(gabs) + 1 - k].start - 2

\* The fields of the frame, from the gaps.
LEMMA FrameFields ==
    ASSUME Len(gabs) \in Nat
    PROVE  /\ AckFrame.largest = max_pn_seen
           /\ AckFrame.first = max_pn_seen - Lowest(gabs)
           /\ Len(AckFrame.ranges) = Len(gabs)
           /\ \A k \in 1 .. Len(gabs) :
                LET i == Len(gabs) + 1 - k
                IN  /\ AckFrame.ranges[k].gap = gabs[i].end - gabs[i].start
                    /\ AckFrame.ranges[k].len =
                         IF i > 1 THEN gabs[i].start - gabs[i - 1].end - 2
                         ELSE gabs[1].start - 1 + base_pn - 1 - min_pn_seen
<1> DEFINE n == Len(gabs)
           rangeAt(i) == IF i > 1 THEN gabs[i].start - gabs[i - 1].end - 2
                         ELSE gabs[1].start - 1 + base_pn - 1 - min_pn_seen
           r == [k \in 1 .. n |-> LET i == n + 1 - k
                                  IN  [gap |-> gabs[i].end - gabs[i].start, len |-> rangeAt(i)]]
           low == IF n = 0 THEN min_pn_seen ELSE base_pn + gabs[n].end
<1>1. AckFrame = [largest |-> max_pn_seen, first |-> max_pn_seen - low, ranges |-> r]
  BY Zenon DEF AckFrame
<1>2. low = Lowest(gabs)
  BY Zenon DEF Lowest
<1> HIDE DEF low
<1>3. AckFrame.largest = max_pn_seen /\ AckFrame.first = max_pn_seen - low /\ AckFrame.ranges = r
  <2> HIDE DEF r
  <2> QED BY <1>1, Zenon
<1>4. Len(r) = n
  <2> DEFINE F(k) == [gap |-> gabs[n + 1 - k].end - gabs[n + 1 - k].start, len |-> rangeAt(n + 1 - k)]
  <2>1. r = [k \in 1 .. n |-> F(k)]
    BY Zenon
  <2> HIDE DEF F, r
  <2> QED BY <2>1
<1>5. \A k \in 1 .. n : /\ r[k].gap = gabs[n + 1 - k].end - gabs[n + 1 - k].start
                        /\ r[k].len = rangeAt(n + 1 - k)
  <2> HIDE DEF n, rangeAt
  <2> QED BY Zenon
<1> QED BY <1>2, <1>3, <1>4, <1>5, Zenon

\* Each range, in terms of the gaps around it.
LEMMA RangeSteps ==
    ASSUME Started, Ordered(gabs), NEW k \in 1 .. Len(gabs)
    PROVE  /\ Lo(k - 1) - AckFrame.ranges[k].gap - 2 = Hi(k)
           /\ Hi(k) - AckFrame.ranges[k].len = Lo(k)
           /\ AckFrame.ranges[k].gap \in Nat /\ AckFrame.ranges[k].len \in Nat
           /\ Lo(k - 1) \in Nat /\ Lo(k) \in Nat /\ Hi(k) \in Int
           /\ AckFrame.ranges[k].gap + 2 <= Lo(k - 1)
           /\ AckFrame.ranges[k].len <= Lo(k - 1) - AckFrame.ranges[k].gap - 2
<1> DEFINE n == Len(gabs)
           i == n + 1 - k
<1>1. n \in Nat /\ \A j \in 1 .. n : gabs[j] \in Gap
  BY SeqParts, Zenon DEF Ordered
<1>2. i \in 1 .. n /\ k - 1 # n /\ n - (k - 1) = i /\ k # 0
  BY <1>1
<1>3. /\ AckFrame.ranges[k].gap = gabs[i].end - gabs[i].start
      /\ AckFrame.ranges[k].len = IF i > 1 THEN gabs[i].start - gabs[i - 1].end - 2
                                  ELSE gabs[1].start - 1 + base_pn - 1 - min_pn_seen
  BY <1>1, FrameFields, Zenon
<1>4. Lo(k - 1) = base_pn + gabs[i].end /\ Hi(k) = base_pn + gabs[i].start - 2
  BY <1>2, Zenon DEF Lo, Hi
<1>5. gabs[i].start \in Nat /\ gabs[i].end \in Nat /\ gabs[i].start <= gabs[i].end
  BY <1>1, <1>2, Zenon DEF Ordered, Gap
<1>6. base_pn \in Nat \ {0} /\ min_pn_seen \in Nat /\ min_pn_seen < base_pn
  BY Zenon DEF Started
<1>7. ASSUME i > 1
      PROVE  Lo(k) \in Nat /\ Hi(k) \in Int /\ Lo(k) <= Hi(k) /\ AckFrame.ranges[k].len = Hi(k) - Lo(k)
  <2>1. k # n /\ n - k = i - 1 /\ i - 1 \in 1 .. n
    BY <1>1, <1>2, <1>7
  <2>2. Lo(k) = base_pn + gabs[i - 1].end
    BY <2>1, Zenon DEF Lo
  <2>3. gabs[i - 1].end \in Nat
    BY <1>1, <2>1, Zenon DEF Gap
  <2>4. gabs[i - 1].end <= gabs[i].start - 2
    BY <1>2, <1>7 DEF Ordered, Offset
  <2>5. AckFrame.ranges[k].len = gabs[i].start - gabs[i - 1].end - 2
    BY <1>3, <1>7, Zenon
  <2> DEFINE b == gabs[i].start
             c == gabs[i - 1].end
  <2>6. /\ Lo(k) = base_pn + c /\ Hi(k) = base_pn + b - 2 /\ c <= b - 2 /\ b \in Nat /\ c \in Nat
        /\ AckFrame.ranges[k].len = b - c - 2
    BY <1>4, <1>5, <2>2, <2>3, <2>4, <2>5, Zenon
  <2> HIDE DEF b, c
  <2> QED BY <1>6, <2>6
<1>8. ASSUME i = 1
      PROVE  Lo(k) \in Nat /\ Hi(k) \in Int /\ Lo(k) <= Hi(k) /\ AckFrame.ranges[k].len = Hi(k) - Lo(k)
  <2>1. k = n
    BY <1>1, <1>8
  <2>2. Lo(k) = min_pn_seen
    BY <2>1, Zenon DEF Lo
  <2>3. gabs[i].start >= 1
    <3>1. Offset(gabs, i) = 0
      BY <1>8, Zenon DEF Offset
    <3> QED BY <1>2, <1>5, <3>1 DEF Ordered
  <2>4. AckFrame.ranges[k].len = gabs[i].start - 1 + base_pn - 1 - min_pn_seen
    BY <1>3, <1>8
  <2> DEFINE b == gabs[i].start
  <2>5. /\ Lo(k) = min_pn_seen /\ Hi(k) = base_pn + b - 2 /\ b >= 1 /\ b \in Nat
        /\ AckFrame.ranges[k].len = b - 1 + base_pn - 1 - min_pn_seen
    BY <1>4, <1>5, <2>2, <2>3, <2>4, Zenon
  <2> HIDE DEF b
  <2> QED BY <1>6, <2>5
<1> DEFINE gp == AckFrame.ranges[k].gap
           ln == AckFrame.ranges[k].len
<1>9. gp = gabs[i].end - gabs[i].start
  BY <1>3, Zenon
<1> HIDE DEF i
<1>10. Lo(k) \in Nat /\ Hi(k) \in Int /\ Lo(k) <= Hi(k) /\ ln = Hi(k) - Lo(k)
  BY <1>1, <1>2, <1>7, <1>8
<1> HIDE DEF gp, ln
<1>11. /\ Lo(k - 1) - gp - 2 = Hi(k) /\ gp \in Nat /\ Lo(k - 1) \in Nat /\ gp + 2 <= Lo(k - 1)
  <2> DEFINE a == gabs[i].end
             b == gabs[i].start
  <2>1. /\ Lo(k - 1) = base_pn + a /\ Hi(k) = base_pn + b - 2 /\ gp = a - b
        /\ a \in Nat /\ b \in Nat /\ b <= a
    BY <1>4, <1>5, <1>9, Zenon
  <2> HIDE DEF a, b
  <2> QED BY <1>6, <1>10, <2>1
<1>12. Hi(k) - ln = Lo(k) /\ ln \in Nat /\ ln <= Lo(k - 1) - gp - 2
  BY <1>10, <1>11, SMTT(20)
<1> QED BY <1>10, <1>11, <1>12, Zenon DEF gp, ln

\* quic_frame_ack_process reads the ranges off a frame.
Reads(f, frame) ==
    f = [k \in 0 .. Len(frame.ranges) |->
            IF k = 0 THEN <<frame.largest - frame.first, frame.largest>>
            ELSE LET largest == f[k - 1][1] - frame.ranges[k].gap - 2
                 IN  <<largest - frame.ranges[k].len, largest>>]

\* What the peer reads are the ranges between the gaps.
LEMMA RangesRead ==
    ASSUME Started, Ordered(gabs), Between(gabs)
    PROVE  AckedRanges(AckFrame) = [k \in 0 .. Len(gabs) |-> <<Lo(k), Hi(k)>>]
<1> DEFINE n == Len(gabs)
           F == AckFrame
           R == [k \in 0 .. n |-> <<Lo(k), Hi(k)>>]
           r == CHOOSE f : Reads(f, F)
<1>1. n \in Nat /\ \A j \in 1 .. n : gabs[j] \in Gap
  BY SeqParts, Zenon DEF Ordered
<1>2. F.largest = max_pn_seen /\ F.first = max_pn_seen - Lowest(gabs) /\ Len(F.ranges) = n
  BY <1>1, FrameFields, Zenon
<1>3. AckedRanges(F) = r
  BY Zenon DEF AckedRanges, Reads
<1>4. F.largest - F.first = Lo(0) /\ F.largest = Hi(0)
  <2>1. Lowest(gabs) = Lo(0) /\ Hi(0) = max_pn_seen
    BY <1>1 DEF Lowest, Lo, Hi
  <2>2. Lowest(gabs) \in Int /\ max_pn_seen \in Int
    <3>1. n # 0 => gabs[n].end \in Int
      BY <1>1 DEF Gap
    <3> QED BY <1>1, <3>1 DEF Lowest, Started
  <2> QED BY <1>2, <2>1, <2>2
<1> HIDE DEF F, n
<1>5. ASSUME NEW k \in 1 .. n
      PROVE  LET largest == Lo(k - 1) - F.ranges[k].gap - 2
             IN  <<largest - F.ranges[k].len, largest>> = <<Lo(k), Hi(k)>>
  BY RangeSteps, SMTT(20) DEF F, n
<1>6. \A k \in 0 .. n : R[k] = <<Lo(k), Hi(k)>> /\ R[k][1] = Lo(k)
  BY Zenon
<1>7. Reads(R, F)
  <2>1. \A k \in 0 .. n :
          R[k] = IF k = 0 THEN <<F.largest - F.first, F.largest>>
                 ELSE LET largest == R[k - 1][1] - F.ranges[k].gap - 2
                      IN  <<largest - F.ranges[k].len, largest>>
    <3> TAKE k \in 0 .. n
    <3>1. CASE k = 0
      BY <1>4, <1>6, <3>1, Zenon
    <3>2. CASE k # 0
      <4>1. k \in 1 .. n /\ k - 1 \in 0 .. n
        BY <1>1, <3>2
      <4> HIDE DEF R
      <4> QED BY <1>5, <1>6, <3>2, <4>1, Zenon
    <3> QED BY <3>1, <3>2, SMTT(20)
  <2>2. R = [k \in 0 .. n |-> R[k]]
    BY Zenon
  <2> HIDE DEF R
  <2> QED BY <1>2, <2>1, <2>2, Zenon DEF Reads
<1>8. Reads(r, F)
  BY <1>7, Zenon
<1> HIDE DEF r, R
<1>9. DOMAIN r = 0 .. n /\ r = [k \in 0 .. n |-> r[k]]
  BY <1>2, <1>8, Zenon DEF Reads
<1>10. \A k \in 0 .. n :
          r[k] = IF k = 0 THEN <<F.largest - F.first, F.largest>>
                 ELSE LET largest == r[k - 1][1] - F.ranges[k].gap - 2
                      IN  <<largest - F.ranges[k].len, largest>>
  BY <1>2, <1>8, Zenon DEF Reads
<1>11. \A k \in 0 .. n : r[k] = <<Lo(k), Hi(k)>>
  <2> DEFINE A == {k \in 0 .. n : r[k] # <<Lo(k), Hi(k)>>}
  <2> SUFFICES ASSUME A # {} PROVE FALSE
    BY Zenon
  <2> DEFINE m == Min(A)
  <2>1. A \subseteq Nat
    BY <1>1
  <2>2. m \in A /\ \A y \in A : m <= y
    BY <2>1, MinOfNats, Zenon
  <2> HIDE DEF m
  <2>3. m \in 0 .. n /\ m \in Nat /\ r[m] # <<Lo(m), Hi(m)>>
    BY <1>1, <2>2
  <2>4. m # 0
    BY <1>4, <1>10, <2>3, Zenon
  <2>5. m \in 1 .. n /\ m - 1 \in 0 .. n /\ m - 1 \notin A
    BY <1>1, <2>2, <2>3, <2>4
  <2>6. r[m - 1] = <<Lo(m - 1), Hi(m - 1)>>
    BY <2>5, Zenon
  <2>7. r[m - 1][1] = Lo(m - 1)
    BY <2>6
  <2>8. LET largest == Lo(m - 1) - F.ranges[m].gap - 2
        IN  <<largest - F.ranges[m].len, largest>> = <<Lo(m), Hi(m)>>
    BY <1>5, <2>5, Zenon
  <2> QED BY <1>10, <2>3, <2>4, <2>7, <2>8, Zenon
<1>12. r = R
  BY <1>6, <1>9, <1>11, Zenon DEF R
<1> QED BY <1>3, <1>12, Zenon DEF R, F, n

\* So a number is acknowledged exactly when it lies in one of those ranges.
LEMMA AckedMembers ==
    ASSUME Started, Ordered(gabs), Between(gabs)
    PROVE  \A p : p \in Acked(AckFrame) <=> \E k \in 0 .. Len(gabs) : p \in Lo(k) .. Hi(k)
<1> DEFINE n == Len(gabs)
           r == AckedRanges(AckFrame)
<1>1. r = [k \in 0 .. n |-> <<Lo(k), Hi(k)>>]
  BY RangesRead, Zenon
<1>2. Acked(AckFrame) = UNION {r[k][1] .. r[k][2] : k \in DOMAIN r}
  BY Zenon DEF Acked
<1> HIDE DEF r, n
<1>3. DOMAIN r = 0 .. n /\ \A k \in 0 .. n : r[k][1] = Lo(k) /\ r[k][2] = Hi(k)
  BY <1>1, Zenon
<1>4. \A p : p \in Acked(AckFrame) <=> \E k \in DOMAIN r : p \in r[k][1] .. r[k][2]
  BY <1>2, Zenon
<1> QED BY <1>3, <1>4, Zenon DEF n

\* The parser of the peer takes the frame.
LEMMA FrameAccepted ==
    ASSUME Started, Ordered(gabs), Between(gabs)
    PROVE  AckAccepted(AckFrame)
<1> DEFINE n == Len(gabs)
           F == AckFrame
           r == AckedRanges(F)
<1>1. n \in Nat /\ n <= MAX_GABS /\ \A j \in 1 .. n : gabs[j] \in Gap
  BY SeqParts, Zenon DEF Ordered
<1>2. F.largest = max_pn_seen /\ F.first = max_pn_seen - Lowest(gabs) /\ Len(F.ranges) = n
  BY <1>1, FrameFields, Zenon
<1>3. Lowest(gabs) \in Nat
  <2>1. n # 0 => gabs[n].end \in Nat
    BY <1>1 DEF Gap
  <2> QED BY <1>1, <2>1 DEF Lowest, Started
<1>4. Lowest(gabs) <= max_pn_seen /\ max_pn_seen \in Nat
  BY Zenon DEF Between, Started
<1>5. 0 <= F.first /\ F.first <= F.largest
  BY <1>2, <1>3, <1>4
<1>6. r = [k \in 0 .. n |-> <<Lo(k), Hi(k)>>]
  BY RangesRead, Zenon
<1>7. ASSUME NEW k \in 1 .. n
      PROVE  /\ F.ranges[k].gap \in Nat /\ F.ranges[k].len \in Nat
             /\ F.ranges[k].gap + 2 <= Lo(k - 1)
             /\ F.ranges[k].len <= Lo(k - 1) - F.ranges[k].gap - 2
  BY RangeSteps, Zenon
<1> HIDE DEF F, n, r
<1>8. \A k \in 1 .. n : r[k - 1][1] = Lo(k - 1)
  <2> TAKE k \in 1 .. n
  <2>1. k - 1 \in 0 .. n
    BY <1>1
  <2> QED BY <1>6, <2>1, Zenon
<1>9. \A k \in 1 .. n : /\ F.ranges[k].gap >= 0 /\ F.ranges[k].len >= 0
                        /\ F.ranges[k].gap + 2 <= r[k - 1][1]
                        /\ F.ranges[k].len <= r[k - 1][1] - F.ranges[k].gap - 2
  <2> TAKE k \in 1 .. n
  <2>1. \A x \in Nat : x >= 0
    OBVIOUS
  <2>2. F.ranges[k].gap >= 0 /\ F.ranges[k].len >= 0
    BY <1>7, <2>1, Zenon
  <2> QED BY <1>7, <1>8, <2>2, Zenon
<1> QED BY <1>1, <1>2, <1>5, <1>9, Zenon DEF AckAccepted, F, r

\* Every number of a range was received.
LEMMA RangeReceived ==
    ASSUME Started, Ordered(gabs), Between(gabs),
           NEW k \in 0 .. Len(gabs), NEW p \in Lo(k) .. Hi(k)
    PROVE  p \in received
<1> DEFINE n == Len(gabs)
           i == n + 1 - k
<1>1. n \in Nat /\ \A j \in 1 .. n : gabs[j] \in Gap
  BY SeqParts, Zenon DEF Ordered
<1>2. CASE k = 0
  <2>1. Lo(0) = Lowest(gabs) /\ Hi(0) = max_pn_seen
    BY <1>1 DEF Lowest, Lo, Hi
  <2> QED BY <1>2, <2>1, Zenon DEF Between
<1>3. CASE k # 0
  <2>1. i \in 1 .. n /\ i \in Nat /\ n - k = i - 1 /\ (k = n <=> i = 1)
    BY <1>1, <1>3
  <2>2. gabs[i].start \in Nat
    BY <1>1, <2>1, Zenon DEF Gap
  <2>3. Hi(k) = base_pn + gabs[i].start - 2
    BY <1>3, Zenon DEF Hi
  <2>4. \A b \in Offset(gabs, i) .. gabs[i].start - 2 : base_pn + b \in received
    BY <2>1, Zenon DEF Between
  <2> DEFINE s == gabs[i].start
             o == Offset(gabs, i)
  <2>5. base_pn \in Nat /\ min_pn_seen \in Nat
    BY Zenon DEF Started
  <2>6. i = 1 => o = 0 /\ Lo(k) = min_pn_seen
    BY <2>1, Zenon DEF Offset, Lo
  <2>7. i # 1 => o \in Nat /\ Lo(k) = base_pn + o
    <3> SUFFICES ASSUME i # 1 PROVE o \in Nat /\ Lo(k) = base_pn + o
      BY Zenon
    <3>1. o = gabs[i - 1].end /\ Lo(k) = base_pn + gabs[i - 1].end
      BY <2>1, Zenon DEF Offset, Lo
    <3>2. i - 1 \in 1 .. n
      BY <2>1
    <3> QED BY <1>1, <3>1, <3>2, Zenon DEF Gap
  <2>8. \A b \in o .. s - 2 : base_pn + b \in received
    BY <2>4, Zenon
  <2> HIDE DEF s, o, i
  <2>9. s \in Nat /\ Hi(k) = base_pn + s - 2 /\ o \in Nat /\ Lo(k) \in Int
    BY <2>2, <2>3, <2>5, <2>6, <2>7 DEF s
  <2>10. p \in Int /\ Lo(k) <= p /\ p <= base_pn + s - 2
    BY <2>5, <2>9
  <2>11. p >= base_pn + o => p \in received
    <3> SUFFICES ASSUME p >= base_pn + o PROVE p \in received
      BY Zenon
    <3>1. p - base_pn \in o .. s - 2 /\ base_pn + (p - base_pn) = p
      BY <2>5, <2>9, <2>10
    <3> QED BY <2>8, <3>1, Zenon
  <2>12. p < base_pn + o => p \in received
    <3> SUFFICES ASSUME p < base_pn + o PROVE p \in received
      BY Zenon
    <3>1. i = 1
      BY <2>5, <2>7, <2>9, <2>10
    <3>2. p \in min_pn_seen .. base_pn - 1
      BY <2>5, <2>6, <2>10, <3>1
    <3> QED BY <3>2, Zenon DEF Started
  <2> QED BY <2>5, <2>9, <2>10, <2>11, <2>12
<1> QED BY <1>2, <1>3, Zenon

\* Every received number from min_pn_seen on lies in a range or in a gap.
LEMMA ReceivedInRange ==
    ASSUME Started, Ordered(gabs), Between(gabs), Missing(gabs),
           NEW p \in received, p >= min_pn_seen
    PROVE  \E k \in 0 .. Len(gabs) : p \in Lo(k) .. Hi(k)
<1> DEFINE n == Len(gabs)
           A == {i \in 1 .. n : p - base_pn < gabs[i].end}
<1>1. n \in Nat /\ \A j \in 1 .. n : gabs[j] \in Gap
  BY SeqParts, Zenon DEF Ordered
<1>2. /\ p \in Nat /\ p <= max_pn_seen /\ base_pn \in Nat
      /\ max_pn_seen \in Nat /\ min_pn_seen \in Nat
  BY Zenon DEF Started
<1>3. CASE A = {}
  <2>1. Lo(0) \in Int /\ Lo(0) <= p
    <3>1. CASE n = 0
      BY <1>2, <3>1 DEF Lo
    <3>2. CASE n # 0
      <4>1. n \in 1 .. n /\ gabs[n].end \in Nat /\ Lo(0) = base_pn + gabs[n].end
        BY <1>1, <3>2 DEF Gap, Lo
      <4>2. ~(p - base_pn < gabs[n].end)
        BY <1>3, <4>1, Zenon
      <4> HIDE DEF n
      <4> QED BY <1>2, <4>1, <4>2
    <3> QED BY <3>1, <3>2, Zenon
  <2>2. Hi(0) = max_pn_seen
    BY Zenon DEF Hi
  <2>3. 0 \in 0 .. n /\ p \in Lo(0) .. Hi(0)
    BY <1>1, <1>2, <2>1, <2>2
  <2> QED BY <2>3, Zenon
<1>4. CASE A # {}
  <2> DEFINE j == Min(A)
             k == n + 1 - j
  <2>1. A \subseteq Nat
    BY <1>1
  <2>2. j \in A /\ \A y \in A : j <= y
    BY <1>4, <2>1, MinOfNats, Zenon
  <2> HIDE DEF j
  <2>3. j \in 1 .. n /\ j \in Nat /\ p - base_pn < gabs[j].end
    BY <1>1, <2>2
  <2>4. gabs[j].start \in Nat /\ gabs[j].end \in Nat
    BY <1>1, <2>3, Zenon DEF Gap
  <2>5. k \in 0 .. n /\ k # 0 /\ n + 1 - k = j /\ n - k = j - 1 /\ (k = n <=> j = 1)
    BY <1>1, <2>3
  <2>6. Hi(k) = base_pn + gabs[j].start - 2
    BY <2>5, Zenon DEF Hi
  <2>7. Lo(k) \in Int /\ Lo(k) <= p
    <3>1. CASE j = 1
      BY <1>2, <2>5, <3>1 DEF Lo
    <3>2. CASE j # 1
      <4>1. j - 1 \in 1 .. n /\ ~(j <= j - 1)
        BY <1>1, <2>3, <3>2
      <4>2. j - 1 \notin A
        BY <2>2, <4>1, Zenon
      <4>3. ~(p - base_pn < gabs[j - 1].end) /\ gabs[j - 1].end \in Nat
        BY <1>1, <4>1, <4>2, Zenon DEF Gap
      <4>4. Lo(k) = base_pn + gabs[j - 1].end
        BY <2>5, <3>2, Zenon DEF Lo
      <4> HIDE DEF k
      <4> QED BY <1>2, <4>3, <4>4
    <3> QED BY <3>1, <3>2, Zenon
  <2>8. \A b \in gabs[j].start - 1 .. gabs[j].end - 1 : base_pn + b \notin received
    BY <2>3, Zenon DEF Missing
  <2> DEFINE s == gabs[j].start
             e == gabs[j].end
  <2>9. /\ s \in Nat /\ e \in Nat /\ p - base_pn < e /\ Hi(k) = base_pn + s - 2
        /\ \A b \in s - 1 .. e - 1 : base_pn + b \notin received
    BY <2>3, <2>4, <2>6, <2>8, Zenon
  <2> HIDE DEF s, e, k
  <2>10. p <= base_pn + s - 2
    <3> SUFFICES ASSUME ~(p <= base_pn + s - 2) PROVE FALSE
      BY Zenon
    <3>1. p - base_pn \in s - 1 .. e - 1 /\ base_pn + (p - base_pn) = p
      BY <1>2, <2>9
    <3> QED BY <2>9, <3>1, Zenon
  <2>11. p \in Lo(k) .. Hi(k)
    BY <1>2, <2>7, <2>9, <2>10
  <2> QED BY <2>5, <2>11, Zenon
<1> QED BY <1>3, <1>4, Zenon

\* The invariant makes the frame exact.
LEMMA IInvAckExact == IInv => AckExact
<1> SUFFICES ASSUME IInv, base_pn # -1
             PROVE  /\ AckAccepted(AckFrame) /\ Acked(AckFrame) \subseteq received
                    /\ max_pn_seen \in Acked(AckFrame)
                    /\ Len(gabs) < MAX_GABS =>
                         \A pn \in received : pn >= min_pn_seen => pn \in Acked(AckFrame)
  BY Zenon DEF AckExact, AckSound, AckComplete
<1>1. Started /\ Ordered(gabs) /\ Between(gabs)
  BY IInvStarted, GabsGood, Zenon
<1>2. \A p : p \in Acked(AckFrame) <=> \E k \in 0 .. Len(gabs) : p \in Lo(k) .. Hi(k)
  BY <1>1, AckedMembers, Zenon
<1>3. AckAccepted(AckFrame)
  BY <1>1, FrameAccepted, Zenon
<1>4. Acked(AckFrame) \subseteq received
  BY <1>1, <1>2, RangeReceived, Zenon
<1>5. max_pn_seen \in Acked(AckFrame)
  <2>1. Len(gabs) \in Nat
    BY <1>1, SeqParts, Zenon DEF Ordered
  <2>2. Lo(0) = Lowest(gabs) /\ Hi(0) = max_pn_seen
    BY <2>1 DEF Lowest, Lo, Hi
  <2>3. Lowest(gabs) \in Int /\ max_pn_seen \in Int /\ Lowest(gabs) <= max_pn_seen
    <3>1. \A j \in 1 .. Len(gabs) : gabs[j] \in Gap
      BY <1>1, SeqParts, Zenon DEF Ordered
    <3>2. Len(gabs) # 0 => gabs[Len(gabs)].end \in Int
      BY <2>1, <3>1 DEF Gap
    <3> QED BY <1>1, <3>2 DEF Lowest, Started, Between
  <2>4. 0 \in 0 .. Len(gabs) /\ max_pn_seen \in Lo(0) .. Hi(0)
    BY <2>1, <2>2, <2>3
  <2> QED BY <1>2, <2>4, Zenon
<1>6. ASSUME Len(gabs) < MAX_GABS, NEW pn \in received, pn >= min_pn_seen
      PROVE  pn \in Acked(AckFrame)
  BY <1>1, <1>2, <1>6, GabsGood, ReceivedInRange, Zenon
<1> QED BY <1>3, <1>4, <1>5, <1>6, Zenon

\* The ACK frame of quic_frame_ack_create passes the bounds the peer's parser puts on it and
\* names only packets that were received; the largest is always named, and every received
\* packet from min_pn_seen on is, unless the MAX_GABS slots ran out.
THEOREM AckCorrect == Spec => []AckExact
<1> QED BY IInvAckExact, SpecIInv, PTL
=============================================================================
