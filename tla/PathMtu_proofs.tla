---------------------------- MODULE PathMtu_proofs ----------------------------
(* That the search for the path MTU keeps its bracket and that regular       *)
(* packets have the size it ended with, for all sizes, steps, paths and any  *)
(* number of lost probes, path changes and ICMP messages.                    *)
EXTENDS PathMtu, TLAPS

USE SMTT(30)

PlType == [state : States, pmtu : BASE_PLPMTU..MAX_PLPMTU,
           probe_size : BASE_PLPMTU..MAX_PLPMTU,
           probe_high : 0..MAX_PLPMTU, probe_count : 0..MAX_PROBES]

(* What the handlers of path.c keep of the discovery state p.  Bracket does  *)
(* not say where a search starts: a probe of the base size is what the BASE  *)
(* and ERROR states wait for, and one big step up stays within the maximum.  *)
PlSound(p) ==
    /\ p \in PlType
    /\ p.pmtu <= p.probe_size
    /\ p.probe_high # 0 => p.state = "SEARCH" /\ p.probe_size < p.probe_high
    /\ p.state # "SEARCH" => p.probe_size = p.pmtu
    /\ p.state \in {"BASE", "ERROR"} => p.pmtu = BASE_PLPMTU

MssType == 0..max_udp_payload_size

(* The size m of regular packets goes with the discovery state p.            *)
Agrees(p, m) == m \in MssType /\ (p.state \in {"COMPLETE", "ERROR"} => m = Limited(p.pmtu))

(* What a handler may return: a sound state, and an MTU that agrees with it  *)
(* if it is applied to a size m that agreed before.                          *)
Good(r, m) == PlSound(r.pl) /\ Agrees(r.pl, mss_update(r.mtu, m))

CarrierType == [at : {"none", "next", "arrives", "lost"}, size : Nat]

IInv == /\ PlSound(pl) /\ Agrees(pl, mss)
        /\ carrier \in CarrierType /\ path \in Sizes /\ held \in BOOLEAN

(* The constants, one by one.                                                *)
LEMMA Constants ==
  /\ BASE_PLPMTU \in Nat /\ MAX_PLPMTU \in Nat /\ MIN_PLPMTU \in Nat /\ MAX_PROBES \in Nat
  /\ PL_BIG_STEP \in Nat /\ PL_MIN_STEP \in Nat /\ CtrlSize \in Nat
  /\ PL_BIG_STEP > 0 /\ PL_MIN_STEP > 0 /\ MAX_PROBES > 0
  /\ 0 < BASE_PLPMTU /\ BASE_PLPMTU + PL_BIG_STEP <= MAX_PLPMTU
  BY SizesAssumption

(* min() of the code.                                                        *)
LEMMA MinOfTwo ==
  \A a, b \in Int : Min({a, b}) = IF a <= b THEN a ELSE b
  BY DEF Min

(* Regular packets are never larger than the peer takes.                     *)
LEMMA LimitedType == \A mtu \in Nat : Limited(mtu) \in MssType
  BY SizesAssumption, MinOfTwo DEF Limited, MssType

(* A new route starts the search afresh (quic_path_pl_reset).                *)
LEMMA ResetSound == PlSound(pl_reset) /\ pl_reset.state = "BASE"
<1>1. pl_reset \in PlType
  BY Constants DEF pl_reset, PlType, States
<1> QED BY <1>1, Constants DEF PlSound, pl_reset

LEMMA InitIInv == Init => IInv
<1> SUFFICES ASSUME Init PROVE IInv
  BY Zenon
<1>1. PlSound(pl) /\ Agrees(pl, mss)
  BY ResetSound, LimitedType, SizesAssumption DEF Init, Agrees
<1> QED BY <1>1, Zenon DEF Init, IInv, NoCarrier, CarrierType

(* An assignment to one field keeps the type.                                *)
LEMMA Assigned ==
  ASSUME NEW p \in PlType
  PROVE  /\ \A x \in States : [p EXCEPT !.state = x] \in PlType
         /\ \A x \in BASE_PLPMTU..MAX_PLPMTU : [p EXCEPT !.pmtu = x] \in PlType
         /\ \A x \in BASE_PLPMTU..MAX_PLPMTU : [p EXCEPT !.probe_size = x] \in PlType
         /\ \A x \in 0..MAX_PLPMTU : [p EXCEPT !.probe_high = x] \in PlType
         /\ \A x \in 0..MAX_PROBES : [p EXCEPT !.probe_count = x] \in PlType
  BY Zenon DEF PlType

LEMMA Fields ==
  ASSUME NEW p \in PlType
  PROVE  /\ p.state \in States
         /\ p.pmtu \in BASE_PLPMTU..MAX_PLPMTU /\ p.probe_size \in BASE_PLPMTU..MAX_PLPMTU
         /\ p.probe_high \in 0..MAX_PLPMTU /\ p.probe_count \in 0..MAX_PROBES
  BY Zenon DEF PlType

(* A sound state q with the MTU a handler returns for it.                    *)
LEMMA GoodResult ==
  ASSUME NEW q, NEW mtu, NEW m, PlSound(q), m \in MssType,
         \/ mtu \in BASE_PLPMTU..MAX_PLPMTU /\ mtu = q.pmtu
         \/ mtu = 0 /\ Agrees(q, m)
  PROVE  Good(Result(q, mtu), m)
<1>1. Result(q, mtu).pl = q /\ Result(q, mtu).mtu = mtu
  BY Zenon DEF Result
<1>2. CASE mtu \in BASE_PLPMTU..MAX_PLPMTU /\ mtu = q.pmtu
  <2>1. mtu \in Nat /\ mtu # 0
    BY <1>2, Constants
  <2>2. mss_update(mtu, m) = Limited(mtu) /\ Limited(mtu) \in MssType
    BY <2>1, LimitedType, Zenon DEF mss_update
  <2> QED BY <1>1, <1>2, <2>2, Zenon DEF Good, Agrees
<1>3. CASE mtu = 0 /\ Agrees(q, m)
  BY <1>1, <1>3, Zenon DEF Good, mss_update
<1> QED BY <1>2, <1>3, Zenon

(* Back to probing the base size.                                            *)
LEMMA ToBaseSound ==
  ASSUME NEW p \in PlType
  PROVE  /\ ToBase(p) \in PlType /\ ToBase(p).state = "BASE"
         /\ ToBase(p).pmtu = BASE_PLPMTU /\ ToBase(p).probe_size = BASE_PLPMTU
         /\ ToBase(p).probe_high = p.probe_high
<1> DEFINE a == [p EXCEPT !.state = "BASE"]
           b == [a EXCEPT !.probe_size = BASE_PLPMTU]
<1>1. "BASE" \in States /\ BASE_PLPMTU \in BASE_PLPMTU..MAX_PLPMTU
  BY Constants DEF States
<1>2. a \in PlType
  BY <1>1, Assigned, Zenon
<1>3. b \in PlType
  BY <1>1, <1>2, Assigned, Zenon
<1>4. ToBase(p) = [b EXCEPT !.pmtu = BASE_PLPMTU]
  BY Zenon DEF ToBase
<1>5. ToBase(p) \in PlType
  BY <1>1, <1>3, <1>4, Assigned, Zenon
<1> QED BY <1>5, Zenon DEF ToBase, PlType
-------------------------------------------------------------------------------
(* The base size does not get through (quic_path_pl_send, _pl_toobig).       *)
LEMMA ErrorGood ==
  ASSUME NEW p, NEW m, PlSound(p), m \in MssType, p.state = "BASE"
  PROVE  Good(Result([p EXCEPT !.state = "ERROR", !.pmtu = BASE_PLPMTU], BASE_PLPMTU), m)
<1> DEFINE a == [p EXCEPT !.state = "ERROR"]
           q == [p EXCEPT !.state = "ERROR", !.pmtu = BASE_PLPMTU]
<1>1. p \in PlType /\ "ERROR" \in States /\ BASE_PLPMTU \in BASE_PLPMTU..MAX_PLPMTU
  BY Constants DEF PlSound, States
<1>2. a \in PlType
  BY <1>1, Assigned, Zenon
<1>3. q \in PlType
  <2>1. q = [a EXCEPT !.pmtu = BASE_PLPMTU]
    BY Zenon
  <2> QED BY <1>1, <1>2, <2>1, Assigned, Zenon
<1>4. /\ q.state = "ERROR" /\ q.pmtu = BASE_PLPMTU
      /\ q.probe_size = p.probe_size /\ q.probe_high = p.probe_high
  BY <1>1, Zenon DEF PlType
<1> HIDE DEF q
<1>5. PlSound(q)
  BY <1>3, <1>4, Constants, Zenon DEF PlSound
<1>6. Good(Result(q, BASE_PLPMTU), m)
  BY <1>1, <1>4, <1>5, GoodResult, Zenon
<1> QED BY <1>6, Zenon DEF q

(* A larger probe than the confirmed size failed: the search turns round.    *)
LEMMA BracketGood ==
  ASSUME NEW p, NEW m, PlSound(p), m \in MssType, p.state = "SEARCH", p.pmtu # p.probe_size
  PROVE  Good(Result([p EXCEPT !.probe_high = p.probe_size, !.probe_size = p.pmtu], 0), m)
<1> DEFINE a == [p EXCEPT !.probe_high = p.probe_size]
           q == [p EXCEPT !.probe_high = p.probe_size, !.probe_size = p.pmtu]
<1>1. /\ p \in PlType /\ p.pmtu \in BASE_PLPMTU..MAX_PLPMTU
      /\ p.probe_size \in BASE_PLPMTU..MAX_PLPMTU /\ p.probe_size \in 0..MAX_PLPMTU
      /\ p.pmtu < p.probe_size
  BY Fields, Constants DEF PlSound
<1>2. a \in PlType
  BY <1>1, Assigned, Zenon
<1>3. q \in PlType
  <2>1. q = [a EXCEPT !.probe_size = p.pmtu]
    BY Zenon
  <2> QED BY <1>1, <1>2, <2>1, Assigned, Zenon
<1>4. /\ q.state = "SEARCH" /\ q.pmtu = p.pmtu
      /\ q.probe_size = p.pmtu /\ q.probe_high = p.probe_size
  BY <1>1, Zenon DEF PlType
<1> HIDE DEF q
<1>5. PlSound(q) /\ Agrees(q, m)
  BY <1>1, <1>3, <1>4, Constants DEF PlSound, Agrees
<1>6. Good(Result(q, 0), m)
  BY <1>5, GoodResult, Zenon
<1> QED BY <1>6, Zenon DEF q

(* quic_path_pl_send: a probe of this size failed too often ...              *)
LEMMA FailedGood ==
  ASSUME NEW p, NEW m, PlSound(p), Agrees(p, m)
  PROVE  Good(failed(p), m)
<1>1. p \in PlType /\ m \in MssType /\ BASE_PLPMTU \in BASE_PLPMTU..MAX_PLPMTU
  BY Constants DEF PlSound, Agrees
<1>2. CASE p.state = "BASE" /\ p.probe_size = BASE_PLPMTU
  BY <1>1, <1>2, ErrorGood, Zenon DEF failed
<1>3. CASE p.state = "SEARCH" /\ p.pmtu = p.probe_size
  <2> DEFINE b == ToBase(p)
             q == [b EXCEPT !.probe_high = 0]
  <2>1. /\ b \in PlType /\ b.state = "BASE"
        /\ b.pmtu = BASE_PLPMTU /\ b.probe_size = BASE_PLPMTU
    BY <1>1, ToBaseSound, Zenon
  <2> HIDE DEF b
  <2>2. q \in PlType /\ 0 \in 0..MAX_PLPMTU
    BY <2>1, Assigned, Constants
  <2>3. /\ q.state = "BASE" /\ q.pmtu = BASE_PLPMTU /\ q.probe_size = BASE_PLPMTU
        /\ q.probe_high = 0
    BY <2>1, Zenon DEF PlType
  <2>4. failed(p) = Result(q, BASE_PLPMTU)
    BY <1>3, Zenon DEF failed, b
  <2> HIDE DEF q
  <2>5. PlSound(q)
    BY <2>2, <2>3, Constants, SMTT(30) DEF PlSound
  <2> QED BY <1>1, <2>3, <2>4, <2>5, GoodResult, Zenon
<1>4. CASE p.state = "SEARCH" /\ p.pmtu # p.probe_size
  BY <1>1, <1>4, BracketGood, Zenon DEF failed
<1>5. CASE p.state = "COMPLETE"
  <2>1. p.pmtu = p.probe_size /\ p.probe_high = 0
    BY <1>5, Zenon DEF PlSound
  <2> DEFINE q == ToBase(p)
  <2>2. /\ q \in PlType /\ q.state = "BASE" /\ q.probe_high = 0
        /\ q.pmtu = BASE_PLPMTU /\ q.probe_size = BASE_PLPMTU
    BY <1>1, <2>1, ToBaseSound, Zenon
  <2>3. failed(p) = Result(q, BASE_PLPMTU)
    BY <1>5, <2>1, Zenon DEF failed
  <2> HIDE DEF q
  <2>4. PlSound(q)
    BY <2>2, Constants DEF PlSound
  <2> QED BY <1>1, <2>2, <2>3, <2>4, GoodResult, Zenon
<1>6. CASE p.state = "ERROR"
  BY <1>1, <1>6, GoodResult, Zenon DEF failed
<1>7. p.state = "BASE" => p.probe_size = BASE_PLPMTU
  BY Zenon DEF PlSound
<1>8. p.state \in States
  BY <1>1, Fields, Zenon
<1> QED BY <1>2, <1>3, <1>4, <1>5, <1>6, <1>7, <1>8, Zenon DEF States

(* ... or is counted.                                                        *)
LEMMA SendGood ==
  ASSUME NEW p, NEW m, PlSound(p), Agrees(p, m)
  PROVE  Good(pl_send(p), m)
<1>1. PICK r, n : /\ Good(r, m) /\ n \in 0..MAX_PROBES
                  /\ pl_send(p) = Result([r.pl EXCEPT !.probe_count = n], r.mtu)
  <2>1. CASE p.probe_count < MAX_PROBES
    <3> DEFINE r == Result(p, 0)
    <3>1. Good(r, m)
      BY GoodResult, Zenon DEF Agrees
    <3>2. r.pl = p /\ r.mtu = 0
      BY Zenon DEF Result
    <3>3. p.probe_count + 1 \in 0..MAX_PROBES
      BY <2>1, Fields, Constants DEF PlSound
    <3>4. pl_send(p) = Result([r.pl EXCEPT !.probe_count = p.probe_count + 1], r.mtu)
      BY <2>1, <3>2, Zenon DEF pl_send
    <3> QED BY <3>1, <3>3, <3>4, Zenon
  <2>2. CASE ~(p.probe_count < MAX_PROBES)
    BY <2>2, FailedGood, Constants DEF pl_send
  <2> QED BY <2>1, <2>2, Zenon
<1> DEFINE q == [r.pl EXCEPT !.probe_count = n]
<1>2. r.pl \in PlType /\ PlSound(r.pl) /\ Agrees(r.pl, mss_update(r.mtu, m))
  BY <1>1, Zenon DEF Good, PlSound
<1>3. q \in PlType
  BY <1>1, <1>2, Assigned, Zenon
<1>4. /\ q.state = r.pl.state /\ q.pmtu = r.pl.pmtu
      /\ q.probe_size = r.pl.probe_size /\ q.probe_high = r.pl.probe_high
  BY <1>2, Zenon DEF PlType
<1> HIDE DEF q
<1>5. PlSound(q) /\ Agrees(q, mss_update(r.mtu, m))
  BY <1>2, <1>3, <1>4, Zenon DEF PlSound, Agrees
<1>6. pl_send(p).pl = q /\ pl_send(p).mtu = r.mtu
  BY <1>1 DEF Result, q
<1> QED BY <1>5, <1>6, Zenon DEF Good

(* quic_path_pl_recv: the probe was confirmed, and the next one is larger.   *)
LEMMA LargerGood ==
  ASSUME NEW q \in PlType, NEW m, NEW mtu, NEW up \in BASE_PLPMTU..MAX_PLPMTU,
         m \in MssType, q.probe_high = 0, q.pmtu <= up, mtu \in {0, q.pmtu}
  PROVE  Good(Result([q EXCEPT !.state = "SEARCH", !.probe_size = up], mtu), m)
<1> DEFINE a == [q EXCEPT !.state = "SEARCH"]
           r == [q EXCEPT !.state = "SEARCH", !.probe_size = up]
<1>1. a \in PlType
  BY Assigned, Zenon DEF States
<1>2. r \in PlType
  <2>1. r = [a EXCEPT !.probe_size = up]
    BY Zenon
  <2> QED BY <1>1, <2>1, Assigned, Zenon
<1>3. /\ r.state = "SEARCH" /\ r.pmtu = q.pmtu /\ r.probe_size = up /\ r.probe_high = 0
  BY Zenon DEF PlType
<1> HIDE DEF r
<1>4. PlSound(r) /\ Agrees(r, m) /\ r.pmtu \in BASE_PLPMTU..MAX_PLPMTU
  BY <1>2, <1>3, Fields, Zenon DEF PlSound, Agrees
<1>5. Good(Result(r, mtu), m)
  BY <1>3, <1>4, GoodResult, Zenon
<1> QED BY <1>5, Zenon DEF r

(* ... or, in a search, which may end with it.                               *)
LEMMA SearchedGood ==
  ASSUME NEW q \in PlType, NEW m, m \in MssType, q.state = "SEARCH", q.pmtu = q.probe_size,
         q.probe_high # 0 => q.probe_size < q.probe_high
  PROVE  Good(searched(q), m)
<1>1. /\ q.pmtu \in BASE_PLPMTU..MAX_PLPMTU /\ q.probe_size \in BASE_PLPMTU..MAX_PLPMTU
      /\ q.probe_high \in 0..MAX_PLPMTU
  BY Fields, Zenon
<1> DEFINE high == IF q.probe_high = 0 THEN MAX_PLPMTU ELSE q.probe_high
           next == q.probe_size + PL_MIN_STEP
<1>2. CASE q.probe_high = 0 /\ q.probe_size < MAX_PLPMTU
  <2> DEFINE up == Min({q.probe_size + PL_BIG_STEP, MAX_PLPMTU})
             r == [q EXCEPT !.probe_size = up]
  <2>1. up \in BASE_PLPMTU..MAX_PLPMTU /\ q.pmtu <= up
    BY <1>1, Constants, MinOfTwo
  <2>2. searched(q) = Result(r, 0)
    BY <1>2, Zenon DEF searched
  <2> HIDE DEF up
  <2>3. r \in PlType
    BY <2>1, Assigned, Zenon
  <2>4. r.state = "SEARCH" /\ r.pmtu = q.pmtu /\ r.probe_size = up /\ r.probe_high = 0
    BY <1>2, Zenon DEF PlType
  <2> HIDE DEF r
  <2>5. PlSound(r) /\ Agrees(r, m)
    BY <2>1, <2>3, <2>4, Zenon DEF PlSound, Agrees
  <2> QED BY <2>2, <2>5, GoodResult, Zenon
<1>3. CASE ~(q.probe_high = 0 /\ q.probe_size < MAX_PLPMTU) /\ next >= high
  <2> DEFINE a == [q EXCEPT !.probe_high = 0]
             b == [a EXCEPT !.state = "COMPLETE"]
             r == [q EXCEPT !.probe_high = 0, !.state = "COMPLETE", !.probe_size = q.pmtu]
  <2>1. searched(q) = Result(r, q.pmtu)
    BY <1>3, Zenon DEF searched
  <2>2. 0 \in 0..MAX_PLPMTU /\ "COMPLETE" \in States
    BY Constants DEF States
  <2>3. a \in PlType
    BY <2>2, Assigned, Zenon
  <2>4. b \in PlType
    BY <2>2, <2>3, Assigned, Zenon
  <2>5. r \in PlType
    <3>1. r = [b EXCEPT !.probe_size = q.pmtu]
      BY Zenon
    <3> QED BY <1>1, <2>4, <3>1, Assigned, Zenon
  <2>6. /\ r.state = "COMPLETE" /\ r.pmtu = q.pmtu
        /\ r.probe_size = q.pmtu /\ r.probe_high = 0
    BY Zenon DEF PlType
  <2> HIDE DEF r
  <2>7. PlSound(r)
    BY <1>1, <2>5, <2>6 DEF PlSound
  <2> QED BY <1>1, <2>1, <2>6, <2>7, GoodResult, Zenon
<1>4. CASE ~(q.probe_high = 0 /\ q.probe_size < MAX_PLPMTU) /\ ~(next >= high)
  <2> DEFINE a == [q EXCEPT !.probe_high = high]
             r == [q EXCEPT !.probe_high = high, !.probe_size = next]
  <2>1. searched(q) = Result(r, 0)
    BY <1>4, Zenon DEF searched
  <2>2. /\ high \in 0..MAX_PLPMTU /\ next \in BASE_PLPMTU..MAX_PLPMTU
        /\ q.pmtu <= next /\ next < high
    BY <1>1, <1>4, Constants
  <2> HIDE DEF high, next
  <2>3. a \in PlType
    BY <2>2, Assigned, Zenon
  <2>4. r \in PlType
    <3>1. r = [a EXCEPT !.probe_size = next]
      BY Zenon
    <3> QED BY <2>2, <2>3, <3>1, Assigned, Zenon
  <2>5. r.state = "SEARCH" /\ r.pmtu = q.pmtu /\ r.probe_size = next /\ r.probe_high = high
    BY Zenon DEF PlType
  <2> HIDE DEF r
  <2>6. PlSound(r) /\ Agrees(r, m)
    BY <2>2, <2>4, <2>5, Zenon DEF PlSound, Agrees
  <2> QED BY <2>1, <2>6, GoodResult, Zenon
<1> QED BY <1>2, <1>3, <1>4, Zenon

LEMMA RecvGood ==
  ASSUME NEW p, NEW m, PlSound(p), Agrees(p, m)
  PROVE  Good(pl_recv(p), m)
<1> DEFINE a == [p EXCEPT !.pmtu = p.probe_size]
           q == [p EXCEPT !.pmtu = p.probe_size, !.probe_count = 0]
<1>1. /\ p \in PlType /\ m \in MssType /\ p.state \in States
      /\ p.probe_size \in BASE_PLPMTU..MAX_PLPMTU /\ 0 \in 0..MAX_PROBES
  BY Fields, Constants DEF PlSound, Agrees
<1>2. a \in PlType
  BY <1>1, Assigned, Zenon
<1>3. q \in PlType
  <2>1. q = [a EXCEPT !.probe_count = 0]
    BY Zenon
  <2> QED BY <1>1, <1>2, <2>1, Assigned, Zenon
<1>4. /\ q.state = p.state /\ q.pmtu = p.probe_size
      /\ q.probe_size = p.probe_size /\ q.probe_high = p.probe_high
  BY <1>1, Zenon DEF PlType
<1>5. CASE p.state = "SEARCH"
  <2>1. pl_recv(p) = searched(q)
    BY <1>5, Zenon DEF pl_recv
  <2>2. q.probe_high # 0 => q.probe_size < q.probe_high
    BY <1>4, Zenon DEF PlSound
  <2> HIDE DEF q
  <2> QED BY <1>1, <1>3, <1>4, <1>5, <2>1, <2>2, SearchedGood, Zenon
<1>6. CASE p.state # "SEARCH"
  <2>1. PICK up \in BASE_PLPMTU..MAX_PLPMTU, mtu \in {0, q.pmtu} :
          /\ q.pmtu <= up
          /\ pl_recv(p) = Result([q EXCEPT !.state = "SEARCH", !.probe_size = up], mtu)
    <3>1. CASE p.state \in {"BASE", "ERROR"}
      <4>1. p.probe_size = BASE_PLPMTU
        BY <3>1, Zenon DEF PlSound
      <4>2. /\ p.probe_size + PL_BIG_STEP \in BASE_PLPMTU..MAX_PLPMTU
            /\ p.probe_size <= p.probe_size + PL_BIG_STEP
        BY <4>1, Constants
      <4>3. \/ pl_recv(p) = Result([q EXCEPT !.state = "SEARCH",
                                             !.probe_size = p.probe_size + PL_BIG_STEP], 0)
            \/ pl_recv(p) = Result([q EXCEPT !.state = "SEARCH",
                                             !.probe_size = p.probe_size + PL_BIG_STEP], q.pmtu)
        BY <1>4, <3>1, SMTT(30) DEF pl_recv
      <4> QED BY <1>4, <4>2, <4>3, Zenon
    <3>2. CASE p.state = "COMPLETE"
      <4>1. /\ Min({p.probe_size + PL_MIN_STEP, MAX_PLPMTU}) \in BASE_PLPMTU..MAX_PLPMTU
            /\ p.probe_size <= Min({p.probe_size + PL_MIN_STEP, MAX_PLPMTU})
        BY <1>1, Constants, MinOfTwo
      <4>2. pl_recv(p) = Result([q EXCEPT !.state = "SEARCH",
                 !.probe_size = Min({p.probe_size + PL_MIN_STEP, MAX_PLPMTU})], 0)
        BY <1>4, <3>2, Zenon DEF pl_recv
      <4> QED BY <1>4, <4>1, <4>2, Zenon
    <3> QED BY <1>1, <1>6, <3>1, <3>2, Zenon DEF States
  <2>2. q.probe_high = 0
    BY <1>4, <1>6, Zenon DEF PlSound
  <2> HIDE DEF q, a
  <2>3. q \in PlType /\ m \in MssType /\ q.pmtu <= up
    BY <1>1, <1>3, <2>1, SMTT(30)
  <2>4. Good(Result([q EXCEPT !.state = "SEARCH", !.probe_size = up], mtu), m)
    BY <2>2, <2>3, LargerGood, Zenon
  <2> QED BY <2>1, <2>4, Zenon
<1> QED BY <1>5, <1>6, Zenon

(* quic_path_pl_toobig: an ICMP message reports a size.                      *)
LEMMA TooBigGood ==
  ASSUME NEW p, NEW m, PlSound(p), Agrees(p, m), NEW size \in MIN_PLPMTU..MAX_PLPMTU
  PROVE  Good(pl_toobig(p, size), m)
<1>1. /\ p \in PlType /\ m \in MssType /\ BASE_PLPMTU \in BASE_PLPMTU..MAX_PLPMTU
      /\ 0 \in 0..MAX_PROBES /\ 0 \in 0..MAX_PLPMTU /\ size \in Int
      /\ p.pmtu \in BASE_PLPMTU..MAX_PLPMTU /\ p.probe_size \in BASE_PLPMTU..MAX_PLPMTU
      /\ p.probe_high \in 0..MAX_PLPMTU
  BY Fields, Constants DEF PlSound, Agrees
<1> DEFINE b == ToBase(p)
           c == [b EXCEPT !.probe_count = 0]
           back == [b EXCEPT !.probe_count = 0, !.probe_high = 0]
           a == [p EXCEPT !.probe_size = size]
           q == [p EXCEPT !.probe_size = size, !.probe_count = 0]
<1>2. \/ pl_toobig(p, size) = Result(p, 0)
      \/ /\ p.state = "BASE"
         /\ pl_toobig(p, size) =
              Result([p EXCEPT !.state = "ERROR", !.pmtu = BASE_PLPMTU], BASE_PLPMTU)
      \/ pl_toobig(p, size) = Result(back, BASE_PLPMTU)
      \/ /\ p.state = "SEARCH" /\ size > p.pmtu /\ size < p.probe_size
         /\ pl_toobig(p, size) = Result(q, 0)
  BY <1>1 DEF pl_toobig
<1>3. CASE pl_toobig(p, size) = Result(p, 0)
  BY <1>1, <1>3, GoodResult, SMTT(30)
<1>4. CASE /\ p.state = "BASE"
           /\ pl_toobig(p, size) =
                Result([p EXCEPT !.state = "ERROR", !.pmtu = BASE_PLPMTU], BASE_PLPMTU)
  BY <1>1, <1>4, ErrorGood, Zenon
<1>5. Good(Result(back, BASE_PLPMTU), m)
  <2>1. /\ b \in PlType /\ b.state = "BASE"
        /\ b.pmtu = BASE_PLPMTU /\ b.probe_size = BASE_PLPMTU
    BY <1>1, ToBaseSound, Zenon
  <2> HIDE DEF b
  <2>2. c \in PlType
    BY <1>1, <2>1, Assigned, Zenon
  <2>3. back \in PlType
    <3>1. back = [c EXCEPT !.probe_high = 0]
      BY Zenon
    <3> QED BY <1>1, <2>2, <3>1, Assigned, Zenon
  <2>4. /\ back.state = "BASE" /\ back.pmtu = BASE_PLPMTU
        /\ back.probe_size = BASE_PLPMTU /\ back.probe_high = 0
    BY <2>1, Zenon DEF PlType
  <2> HIDE DEF back
  <2>5. PlSound(back)
    BY <2>3, <2>4, Constants DEF PlSound
  <2> QED BY <1>1, <2>4, <2>5, GoodResult, Zenon
<1>6. CASE /\ p.state = "SEARCH" /\ size > p.pmtu /\ size < p.probe_size
           /\ pl_toobig(p, size) = Result(q, 0)
  <2>1. size \in BASE_PLPMTU..MAX_PLPMTU
    BY <1>1, <1>6, Constants
  <2>2. a \in PlType
    BY <1>1, <2>1, Assigned, Zenon
  <2>3. q \in PlType
    <3>1. q = [a EXCEPT !.probe_count = 0]
      BY Zenon
    <3> QED BY <1>1, <2>2, <3>1, Assigned, Zenon
  <2>4. /\ q.state = "SEARCH" /\ q.pmtu = p.pmtu
        /\ q.probe_size = size /\ q.probe_high = p.probe_high
    BY <1>1, <1>6, Zenon DEF PlType
  <2> HIDE DEF q
  <2>5. PlSound(q) /\ Agrees(q, m)
    BY <1>1, <1>6, <2>1, <2>3, <2>4, Constants DEF PlSound, Agrees
  <2> QED BY <1>6, <2>5, GoodResult, <1>1, Zenon
<1> HIDE DEF back, q
<1> QED BY <1>2, <1>3, <1>4, <1>5, <1>6, Zenon
-------------------------------------------------------------------------------
(* A packet takes the number of the probe.                                   *)
LEMMA SentCarrier == \A size \in Nat : Sent(size) \in CarrierType
  BY Zenon DEF Sent, CarrierType

(* quic_outq_transmit_probe.                                                 *)
LEMMA ProbeSound ==
  ASSUME NEW p, NEW old, PlSound(p), Agrees(p, old), transmit_probe(p, old)
  PROVE  PlSound(pl') /\ Agrees(pl', mss') /\ carrier' \in CarrierType
<1>1. Good(pl_send(p), old)
  BY SendGood, Zenon
<1>2. PlSound(pl') /\ Agrees(pl', mss')
  BY <1>1, Zenon DEF transmit_probe, Good
<1>3. p.probe_size \in Nat
  BY Fields, Constants DEF PlSound
<1>4. Sent(p.probe_size) \in CarrierType /\ NextCarrier \in CarrierType
  BY <1>3, SentCarrier, Zenon DEF NextCarrier, CarrierType
<1> QED BY <1>2, <1>4, Zenon DEF transmit_probe

LEMMA NextIInv == IInv /\ [Next]_vars => IInv'
<1> SUFFICES ASSUME IInv, [Next]_vars PROVE IInv'
  BY Zenon
<1> USE DEF IInv
<1>1. CASE PmtuTimer
  <2>1. transmit_probe(pl, mss)
    BY <1>1, Zenon DEF PmtuTimer
  <2>2. PlSound(pl') /\ Agrees(pl', mss') /\ carrier' \in CarrierType
    BY <2>1, ProbeSound, Zenon
  <2> QED BY <1>1, <2>2, Zenon DEF PmtuTimer
<1>2. CASE PathConfirm
  <2> DEFINE r == pl_recv(pl)
             now == mss_update(r.mtu, mss)
  <2>1. PlSound(r.pl) /\ Agrees(r.pl, now)
    BY RecvGood, Zenon DEF Good
  <2>2. \/ pl' = r.pl /\ carrier' = NoCarrier /\ mss' = now
        \/ transmit_probe(r.pl, now)
    BY <1>2, Zenon DEF PathConfirm
  <2> HIDE DEF r, now
  <2>3. PlSound(pl') /\ Agrees(pl', mss') /\ carrier' \in CarrierType
    <3>1. CASE pl' = r.pl /\ carrier' = NoCarrier /\ mss' = now
      BY <2>1, <3>1, Zenon DEF NoCarrier, CarrierType
    <3>2. CASE transmit_probe(r.pl, now)
      BY <2>1, <3>2, ProbeSound, Zenon
    <3> QED BY <2>2, <3>1, <3>2, Zenon
  <2> QED BY <1>2, <2>3, Zenon DEF PathConfirm
<1>3. ASSUME NEW size \in MIN_PLPMTU..MAX_PLPMTU, TooBig(size) PROVE IInv'
  <2>1. Good(pl_toobig(pl, size), mss)
    BY TooBigGood, Zenon
  <2>2. PlSound(pl') /\ Agrees(pl', mss')
    BY <1>3, <2>1, Zenon DEF TooBig, Good
  <2> QED BY <1>3, <2>2, Zenon DEF TooBig
<1>4. CASE Lose
  <2>1. carrier' \in CarrierType
    BY <1>4, Zenon DEF Lose, CarrierType
  <2> QED BY <1>4, <2>1, Zenon DEF Lose
<1>5. CASE Hold
  BY <1>5, Zenon DEF Hold
<1>6. ASSUME NEW opens \in BOOLEAN, SendCtrl(opens) PROVE IInv'
  <2>1. carrier' \in CarrierType
    BY <1>6, SentCarrier, Constants, Zenon DEF SendCtrl
  <2> QED BY <1>6, <2>1, Zenon DEF SendCtrl
<1>7. ASSUME NEW size \in Sizes, NEW routed \in BOOLEAN, PathChange(size, routed) PROVE IInv'
  <2>1. PlSound(pl') /\ Agrees(pl', mss') /\ carrier' \in CarrierType
    <3>1. CASE routed
      BY <1>7, <3>1, ResetSound, LimitedType, SizesAssumption DEF PathChange, Agrees, NoCarrier, CarrierType
    <3>2. CASE ~routed
      BY <1>7, <3>2, Zenon DEF PathChange
    <3> QED BY <3>1, <3>2, Zenon
  <2> QED BY <1>7, <2>1, Zenon DEF PathChange
<1>8. CASE UNCHANGED vars
  BY <1>8, Zenon DEF vars
<1> QED BY <1>1, <1>2, <1>3, <1>4, <1>5, <1>6, <1>7, <1>8, Zenon DEF Next

(* At every moment what path.c has confirmed lies below the size that failed, *)
(* the probe between the two, and no step takes a size out of its range.      *)
(* When the search is over or has given up, regular packets have its size, or *)
(* the peer's max_udp_payload_size if that is less.                           *)
THEOREM SearchCorrect == Spec => [](TypeOK /\ SearchSound)
<1>1. IInv => TypeOK /\ SearchSound
  BY Zenon DEF IInv, PlSound, PlType, Agrees, MssType, CarrierType, TypeOK, SearchSound, Bracket, MssAgrees
<1> QED BY <1>1, InitIInv, NextIInv, PTL DEF Spec

(* No variable leaves its type: the probe and the confirmed size stay between *)
(* the base and the largest PLPMTU, regular packets within the peer's limit,  *)
(* and the probe counter within MAX_PROBES (the pl fields of struct           *)
(* quic_path_group), on every route.                                          *)
THEOREM SearchTypes == Spec => []TypeOK
  BY SearchCorrect, PTL
===============================================================================
