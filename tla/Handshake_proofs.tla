--------------------------- MODULE Handshake_proofs ---------------------------
(* That a connection ID never has a request and a socket, and that no packet   *)
(* stays in a backlog whose key is installed, for any number of Retry packets, *)
(* any amplification limit, any backlog and any losses.                        *)
EXTENDS Handshake, TLAPS, WellFoundedInduction

USE SMTT(30)

-------------------------------------------------------------------------------
(* Sequences                                                                   *)

IsSeq(q) == \E S : q \in Seq(S)

(* A non-empty set of naturals has a least element.                            *)
LEMMA LeastNat ==
  ASSUME NEW S, S \subseteq Nat, S # {}
  PROVE  \E x \in S : \A y \in S : x <= y
<1> DEFINE R == OpToRel(<, Nat)
<1>1. \E x \in S : \A y \in S : ~(<<y, x>> \in R)
  BY NatLessThanWellFounded, WFMin, Zenon
<1>2. \A x, y \in Nat : y < x => <<y, x>> \in R
  BY Zenon DEF OpToRel
<1> HIDE DEF R
<1>3. PICK x \in S : \A y \in S : ~(<<y, x>> \in R)
  BY <1>1, Zenon
<1>4. \A y \in S : ~(y < x)
  BY <1>2, <1>3, Zenon
<1> QED BY <1>4

(* The parts of a sequence.                                                    *)
LEMMA SeqParts ==
  ASSUME NEW q, IsSeq(q)
  PROVE  Len(q) \in Nat /\ DOMAIN q = 1 .. Len(q)
<1>1. PICK S : q \in Seq(S)
  BY Zenon DEF IsSeq
<1> QED BY <1>1

LEMMA Appended ==
  ASSUME NEW q, IsSeq(q), NEW p
  PROVE  /\ IsSeq(Append(q, p)) /\ DOMAIN Append(q, p) = 1 .. Len(q) + 1
         /\ Len(Append(q, p)) = Len(q) + 1
         /\ \A i \in 1 .. Len(q) + 1 : Append(q, p)[i] = IF i <= Len(q) THEN q[i] ELSE p
<1>1. PICK S : q \in Seq(S)
  BY Zenon DEF IsSeq
<1> DEFINE T == S \cup {p}
<1>2. q \in Seq(T) /\ p \in T
  BY <1>1
<1> HIDE DEF T
<1>3. Append(q, p) \in Seq(T)
  BY <1>2
<1> QED BY <1>2, <1>3 DEF IsSeq

LEMMA Tailed ==
  ASSUME NEW q, IsSeq(q), q # <<>>
  PROVE  /\ IsSeq(Tail(q)) /\ Len(q) \in Nat \ {0} /\ Len(Tail(q)) = Len(q) - 1
         /\ DOMAIN Tail(q) = 1 .. Len(q) - 1 /\ Head(q) = q[1]
         /\ \A i \in 1 .. Len(q) - 1 : Tail(q)[i] = q[i + 1]
<1>1. PICK S : q \in Seq(S)
  BY Zenon DEF IsSeq
<1>2. Tail(q) \in Seq(S) /\ Len(q) \in Nat \ {0}
  BY <1>1
<1> QED BY <1>1, <1>2 DEF IsSeq

-------------------------------------------------------------------------------
(* What sending and processing leave alone in a socket                         *)

Fields == {"state", "dest", "ikey", "token", "tx", "rx", "queue", "sent", "lost", "recent",
           "got", "read", "todo", "backlog", "need_sack", "sack_flag", "validated", "credit",
           "blocked", "timer", "peer"}
PacketLevels == {"initial", "handshake", "app"}

(* t is s but for what transmission changes.                                   *)
Same(s, t) ==
  /\ DOMAIN t = Fields
  /\ t.state = s.state /\ t.dest = s.dest /\ t.rx = s.rx /\ t.todo = s.todo
  /\ t.backlog = s.backlog /\ t.need_sack \subseteq s.need_sack

LEMMA SameTransitive ==
  ASSUME NEW s, NEW t, NEW u, Same(s, t), Same(t, u)
  PROVE  Same(s, u)
  BY Zenon DEF Same

LEMMA TimerSame ==
  ASSUME NEW s, DOMAIN s = Fields
  PROVE  Same(s, update_loss_timer(s))
  BY Zenon DEF Same, update_loss_timer, Fields

LEMMA MarkSame ==
  ASSUME NEW s, DOMAIN s = Fields, NEW F, NEW aged
  PROVE  Same(s, retransmit_mark(s, F, aged))
  BY Zenon DEF Same, retransmit_mark, Fields

LEMMA DiscardSame ==
  ASSUME NEW s, DOMAIN s = Fields, NEW l
  PROVE  Same(s, Discard(s, l))
  BY Zenon DEF Same, Discard, Fields

LEMMA PackedSame ==
  ASSUME NEW e, NEW s, DOMAIN s = Fields, NEW F, NEW owed
  PROVE  Same(s, Packed(e, s, F, owed))
<1> DEFINE tracked == F \cap Names
           long == {f \in F : LevelOf(f) # "app"}
           p == [s EXCEPT !.sent = Without(@, tracked) \o InOrder(tracked),
                          !.lost = @ \ tracked,
                          !.queue = @ \ F,
                          !.need_sack = @ \ owed,
                          !.recent = IF long = {} THEN @
                                     ELSE IF At(long, "handshake") = {} THEN "initial" ELSE "handshake",
                          !.credit = IF e # "client" /\ ~s.validated THEN @ - Cardinality(F) ELSE @]
<1>1. Packed(e, s, F, owed) = IF tracked = {} THEN p ELSE update_loss_timer(p)
  BY Zenon DEF Packed
<1> HIDE DEF tracked, long
<1>2. Same(s, p)
  BY Zenon DEF Same, Fields
<1> HIDE DEF p
<1>3. Same(p, update_loss_timer(p))
  BY <1>2, TimerSame, Zenon DEF Same
<1> QED BY <1>1, <1>2, <1>3, SameTransitive

(* The packets that leave: from this end, to the destination it uses.          *)
OutGood(e, s, out) ==
  \A q \in out : /\ q.to = (IF e = "client" THEN "server" ELSE "client")
                 /\ q.dcid = s.dest /\ q.from = e /\ q.level \in PacketLevels

LEMMA LevelTypes == \A f : LevelOf(f) \in PacketLevels
  BY Zenon DEF LevelOf, PacketLevels

LEMMA SentGood ==
  ASSUME NEW e, NEW s, NEW F, NEW owed, owed \subseteq PacketLevels
  PROVE  OutGood(e, s, Sent(e, s, F, owed))
<1>1. \A l \in PacketLevels : \A f, acks : OutGood(e, s, {Packet(e, s, l, f, acks)})
  BY DEF Packet, OutGood
<1>2. ASSUME NEW q \in Sent(e, s, F, owed)
      PROVE  \E l \in PacketLevels : \E f, acks : q = Packet(e, s, l, f, acks)
  BY <1>2, LevelTypes, Zenon DEF Sent
<1> QED BY <1>1, <1>2 DEF OutGood

(* Sending, whatever is sent.                                                  *)
Sends(e, s, r) == Same(s, r.s) /\ OutGood(e, s, r.out)

LEMMA TransmitSends ==
  ASSUME NEW e, NEW s, DOMAIN s = Fields, s.need_sack \subseteq PacketLevels, NEW filling
  PROVE  Sends(e, s, transmit(e, s, filling))
<1> DEFINE n == Allowed(e, s, Cardinality(Ready(s)))
           F == First(Ready(s), n)
           owed == s.need_sack \cap s.tx
           hit == n < Cardinality(Ready(s))
           b == [s EXCEPT !.blocked = @ \/ (hit /\ filling)]
           p == Packed(e, b, F, owed)
           q == [p EXCEPT !.blocked = @ \/ hit]
           out == Sent(e, s, F, owed)
<1>1. transmit(e, s, filling) = [s |-> q, out |-> out]
  BY Zenon DEF transmit
<1>2. OutGood(e, s, out)
  BY SentGood, Zenon
<1> HIDE DEF n, F, hit, owed
<1>3. Same(s, b)
  BY Zenon DEF Same, Fields
<1>4. Same(b, p)
  <2> HIDE DEF b
  <2> QED BY <1>3, PackedSame, Zenon DEF Same
<1> HIDE DEF b, p
<1>5. Same(p, q)
  BY <1>4, Zenon DEF Same, Fields
<1> HIDE DEF q
<1>6. Same(s, q)
  BY <1>3, <1>4, <1>5, SameTransitive, Zenon
<1> QED BY <1>1, <1>2, <1>6 DEF Sends

LEMMA SingleSends ==
  ASSUME NEW e, NEW s, DOMAIN s = Fields, s.need_sack \subseteq PacketLevels, NEW l
  PROVE  Sends(e, s, transmit_single(e, s, l))
<1> DEFINE F == Single(s, l)
           n == Allowed(e, s, Cardinality(F))
           owed == s.need_sack \cap s.tx \cap {l}
           p == Packed(e, s, First(F, n), owed)
           q == [p EXCEPT !.blocked = @ \/ n < Cardinality(F)]
           out == Sent(e, s, First(F, n), owed)
<1>1. transmit_single(e, s, l) = [s |-> q, out |-> out]
  BY Zenon DEF transmit_single
<1>2. OutGood(e, s, out)
  BY SentGood, Zenon
<1>3. Same(s, p)
  BY PackedSame, Zenon
<1> HIDE DEF F, n, owed, p
<1>4. Same(p, q)
  BY <1>3, Zenon DEF Same, Fields
<1> HIDE DEF q
<1>5. Same(s, q)
  BY <1>3, <1>4, SameTransitive, Zenon
<1> QED BY <1>1, <1>2, <1>5 DEF Sends

(* quic_outq_transmit_pto without loss_time, as one operator.                  *)
Probed(e, s, l, filling) ==
  LET r == transmit_single(e, s, l)
      q == transmit(e, [r.s EXCEPT !.queue = @ \cup {Ping(l)}], filling)
      o == IF \E p \in r.out : p.frame \in Names THEN r ELSE [q EXCEPT !.out = @ \cup r.out]
  IN  [o EXCEPT !.s = update_loss_timer(@)]

LEMMA ProbedSends ==
  ASSUME NEW e, NEW s, DOMAIN s = Fields, s.need_sack \subseteq PacketLevels, NEW l, NEW filling
  PROVE  Sends(e, s, Probed(e, s, l, filling))
<1> DEFINE r == transmit_single(e, s, l)
           k == [r.s EXCEPT !.queue = @ \cup {Ping(l)}]
           q == transmit(e, k, filling)
           v == [q EXCEPT !.out = @ \cup r.out]
           o == IF \E p \in r.out : p.frame \in Names THEN r ELSE v
<1>0. DOMAIN r = {"s", "out"} /\ DOMAIN q = {"s", "out"}
  BY Zenon DEF transmit, transmit_single
<1>1. Sends(e, s, r)
  BY SingleSends, Zenon
<1> HIDE DEF r
<1>2. Same(r.s, k)
  BY <1>1, Zenon DEF Sends, Same, Fields
<1> HIDE DEF k
<1>3. Same(s, k)
  BY <1>1, <1>2, SameTransitive, Zenon DEF Sends
<1>4. Sends(e, k, q)
  BY <1>3, TransmitSends, Zenon DEF Same
<1> HIDE DEF q
<1>5. Sends(e, s, q)
  BY <1>3, <1>4, SameTransitive, Zenon DEF Sends, OutGood, Same
<1>6. v.s = q.s /\ v.out = q.out \cup r.out /\ DOMAIN v = {"s", "out"}
  BY <1>0, Zenon
<1>7. Probed(e, s, l, filling) = [o EXCEPT !.s = update_loss_timer(@)] /\ DOMAIN o = {"s", "out"}
  <2>1. Probed(e, s, l, filling) = [o EXCEPT !.s = update_loss_timer(@)]
    BY Zenon DEF Probed, o, q, k, r
  <2> HIDE DEF v
  <2> QED BY <1>0, <1>6, <2>1, Zenon
<1> HIDE DEF v
<1>8. Sends(e, s, o)
  BY <1>1, <1>5, <1>6, Zenon DEF Sends, OutGood
<1> HIDE DEF o
<1>9. Same(o.s, update_loss_timer(o.s))
  BY <1>8, TimerSame, Zenon DEF Sends, Same
<1> DEFINE x == [o EXCEPT !.s = update_loss_timer(@)]
<1>10. x.s = update_loss_timer(o.s) /\ x.out = o.out
  BY <1>7, Zenon
<1> HIDE DEF x
<1>11. Sends(e, s, x)
  BY <1>8, <1>9, <1>10, SameTransitive, Zenon DEF Sends
<1> QED BY <1>7, <1>11, Zenon DEF x

(* The last key makes the socket established.                                  *)
LEMMA CompletedSends ==
  ASSUME NEW e, NEW s, DOMAIN s = Fields, s.need_sack \subseteq PacketLevels, NEW filling
  PROVE  LET r == Completed(e, s, filling)
         IN  Sends(e, [s EXCEPT !.state = "established"], r)
<1> DEFINE d == IF e = "client" THEN s ELSE Discard(s, "handshake")
           q == [d EXCEPT !.queue = @ \cup {IF e = "client" THEN "CIDS" ELSE "DONE"}]
           r == transmit(e, q, filling)
           x == [r EXCEPT !.s.state = "established"]
           u == [s EXCEPT !.state = "established"]
<1>1. Same(s, d)
  BY DiscardSame, Zenon DEF Same
<1>2. Completed(e, s, filling) = x
  BY Zenon DEF Completed
<1> HIDE DEF d
<1>3. Same(d, q)
  BY <1>1, Zenon DEF Same, Fields
<1> HIDE DEF q
<1>4. Same(s, q)
  BY <1>1, <1>3, SameTransitive, Zenon
<1>5. Sends(e, q, r)
  BY <1>4, TransmitSends, Zenon DEF Same
<1>6. DOMAIN r = {"s", "out"}
  BY Zenon DEF transmit
<1> HIDE DEF r
<1>7. Same(s, r.s) /\ OutGood(e, s, r.out)
  BY <1>4, <1>5, SameTransitive, Zenon DEF Sends, OutGood, Same
<1>8. x.s = [r.s EXCEPT !.state = "established"] /\ x.out = r.out
  BY <1>6, Zenon
<1> HIDE DEF x
<1>9. Same(u, x.s)
  BY <1>7, <1>8, Zenon DEF Same, Fields
<1>10. u.dest = s.dest
  BY Zenon DEF Fields
<1> HIDE DEF u
<1>11. Sends(e, u, x)
  BY <1>7, <1>8, <1>9, <1>10, Zenon DEF Sends, OutGood
<1> QED BY <1>2, <1>11, Zenon DEF u

-------------------------------------------------------------------------------
(* A socket, a packet and the listener in order, when the sockets H of the     *)
(* server are hashed.  The client only follows an ID its owner has hashed.     *)

DestGood(d, H) == \E k \in {"first", "own"}, x \in Servers : d = <<k, x>> /\ (k = "own" => x \in H)

SockGood(e, s, H) ==
  /\ DOMAIN s = Fields /\ s.need_sack \subseteq PacketLevels /\ IsSeq(s.backlog)
  /\ \A i \in DOMAIN s.backlog : /\ s.backlog[i].level \in PacketLevels \ s.rx
                                 /\ e = "client" => s.backlog[i].from \in H
  /\ e = "client" => s.state # "closed" /\ DestGood(s.dest, H)
  /\ s.state = "closed" => s.todo = <<>> /\ ~s.timer /\ ~s.sack_flag

PacketGood(p, H) ==
  \/ p.to = "client" /\ p.level = "retry" /\ p.from \in Retries
  \/ p.to = "client" /\ p.level \in PacketLevels /\ p.from \in H
  \/ p.to = "server" /\ p.level \in PacketLevels /\ DestGood(p.dcid, H)

LEMMA SameGood ==
  ASSUME NEW e, NEW s, NEW t, NEW H, SockGood(e, s, H), Same(s, t), t.state # "closed"
  PROVE  SockGood(e, t, H)
  BY Zenon DEF SockGood, Same

(* quic_packet_process                                                         *)
LEMMA FrameSame ==
  \A s, p, aged : DOMAIN s = Fields => Same(s, frame_process(s, p, aged))
<1>AckedSame.
  ASSUME NEW s, DOMAIN s = Fields, NEW a, NEW aged
  PROVE  Same(s, Acked(s, a, aged))
  <2> USE <1>AckedSame
  <2> DEFINE d == [s EXCEPT !.sent = Without(@, a.frames), !.lost = @ \ a.frames]
  <2>1. Same(s, d)
    BY Zenon DEF Same, Fields
  <2> HIDE DEF d
  <2>2. \A F : Same(d, retransmit_mark(d, F, aged))
    BY <2>1, MarkSame, Zenon DEF Same
  <2>3. \A F : Same(s, retransmit_mark(d, F, aged))
    BY <2>1, <2>2, SameTransitive, Zenon
  <2> QED BY <2>3, Zenon DEF Acked, d
<1> SUFFICES ASSUME NEW s, DOMAIN s = Fields, NEW p, NEW aged
             PROVE  Same(s, frame_process(s, p, aged))
  BY Zenon
<1> DEFINE a == IF p.acks = {} THEN s ELSE Acked(s, CHOOSE x \in p.acks : TRUE, aged)
           g == IF p.frame \in Names THEN [a EXCEPT !.got = @ \cup {p.frame}] ELSE a
           f == IF p.frame = "SH" /\ "SH" \notin s.got THEN [g EXCEPT !.peer = p.from]
                ELSE IF p.frame = "DONE" THEN Discard(g, "handshake") ELSE g
<1>1. frame_process(s, p, aged) = IF p.acks = {} THEN f ELSE update_loss_timer(f)
  BY Zenon DEF frame_process
<1>2. Same(s, a)
  <2>1. Same(s, s)
    BY Zenon DEF Same
  <2>2. \A x : Same(s, Acked(s, x, aged))
    BY <1>AckedSame, Zenon
  <2> QED BY <2>1, <2>2, Zenon
<1> HIDE DEF a
<1>3. Same(a, g)
  BY <1>2, Zenon DEF Same, Fields
<1> HIDE DEF g
<1>4. Same(g, f)
  <2>1. Same(g, [g EXCEPT !.peer = p.from]) /\ Same(g, g)
    BY <1>3, Zenon DEF Same, Fields
  <2>2. Same(g, Discard(g, "handshake"))
    BY <1>3, DiscardSame, Zenon DEF Same
  <2> QED BY <2>1, <2>2, Zenon
<1> HIDE DEF f
<1>5. Same(f, update_loss_timer(f))
  BY <1>4, TimerSame, Zenon DEF Same
<1>6. Same(s, f)
  BY <1>2, <1>3, <1>4, SameTransitive, Zenon
<1>7. Same(s, update_loss_timer(f))
  BY <1>5, <1>6, SameTransitive, Zenon
<1> QED BY <1>1, <1>6, <1>7, Zenon

LEMMA ProcessGood ==
  ASSUME NEW e, NEW s, NEW H, SockGood(e, s, H), s.state # "closed", H \subseteq Servers,
         NEW p, p.level \in PacketLevels, e = "client" => p.from \in H, NEW aged
  PROVE  SockGood(e, process(e, s, p, aged), H) /\ process(e, s, p, aged).state = s.state
<1>1. CASE p.level \notin s.rx
  <2> DEFINE t == [s EXCEPT !.backlog = IF Len(@) < BacklogMax THEN Append(@, p) ELSE @]
  <2>1. process(e, s, p, aged) = t
    BY <1>1, Zenon DEF process
  <2>2. /\ DOMAIN t = Fields /\ t.state = s.state /\ t.dest = s.dest /\ t.rx = s.rx
        /\ t.need_sack = s.need_sack
        /\ t.backlog = s.backlog \/ t.backlog = Append(s.backlog, p)
    BY Zenon DEF SockGood, Fields
  <2> HIDE DEF t
  <2>3. CASE t.backlog = s.backlog
    BY <2>1, <2>2, <2>3, Zenon DEF SockGood
  <2>4. CASE t.backlog = Append(s.backlog, p)
    <3> DEFINE q == s.backlog
    <3>1. /\ IsSeq(t.backlog) /\ DOMAIN t.backlog = 1 .. Len(q) + 1
          /\ Len(q) \in Nat /\ DOMAIN q = 1 .. Len(q)
          /\ \A i \in 1 .. Len(q) + 1 : t.backlog[i] = IF i <= Len(q) THEN q[i] ELSE p
      BY <2>4, Appended, SeqParts DEF SockGood
    <3>2. \A i \in 1 .. Len(q) : q[i].level \in PacketLevels \ s.rx /\ (e = "client" => q[i].from \in H)
      BY <3>1, Zenon DEF SockGood
    <3> HIDE DEF q
    <3>3. \A i \in DOMAIN t.backlog : /\ t.backlog[i].level \in PacketLevels \ s.rx
                                      /\ e = "client" => t.backlog[i].from \in H
      BY <1>1, <3>1, <3>2
    <3> QED BY <2>1, <2>2, <3>1, <3>3, Zenon DEF SockGood
  <2> QED BY <2>2, <2>3, <2>4, Zenon
<1>2. CASE p.level \in s.rx /\ p.key # KeyOf(s, p.level)
  BY <1>2, Zenon DEF process
<1>3. CASE p.level \in s.rx /\ p.key = KeyOf(s, p.level)
  <2> DEFINE f == frame_process(s, p, aged)
             v == Validation(e, f, p)
             o == Owing(e, v, p)
             u == Unblocked(o, p)
  <2>1. process(e, s, p, aged) = u
    BY <1>3, Zenon DEF process
  <2>2. Same(s, f)
    BY FrameSame, Zenon DEF SockGood
  <2> HIDE DEF f
  <2>3. Same(f, v)
    <3> DEFINE w == [f EXCEPT !.validated = TRUE]
               c == [f EXCEPT !.credit = IF e = "client" THEN @ ELSE Min({@ + Credit, MaxCredit})]
    <3>1. Same(f, w) /\ Same(f, c) /\ Same(f, f)
      BY <2>2, Zenon DEF Same, Fields
    <3>2. v \in {f, Discard(w, "initial"), c}
      BY Zenon DEF Validation
    <3> HIDE DEF w, c
    <3>3. Same(f, Discard(w, "initial"))
      BY <3>1, DiscardSame, SameTransitive DEF Same
    <3> QED BY <3>1, <3>2, <3>3, Zenon
  <2> HIDE DEF v
  <2>4. Same(s, v)
    BY <2>2, <2>3, SameTransitive, Zenon
  <2>5. SockGood(e, v, H) /\ v.state = s.state
    BY <2>4, SameGood, Zenon DEF Same
  <2>6. /\ DOMAIN o = Fields /\ o.state = v.state /\ o.rx = v.rx /\ o.todo = v.todo
        /\ o.backlog = v.backlog /\ o.need_sack \subseteq PacketLevels
        /\ o.dest = v.dest \/ (e = "client" /\ o.dest = <<"own", p.from>>)
    BY <2>5, Zenon DEF Owing, SockGood, Fields
  <2> HIDE DEF o
  <2>7. e = "client" => DestGood(<<"own", p.from>>, H)
    BY Zenon DEF DestGood
  <2>8. SockGood(e, o, H) /\ o.state = s.state
    BY <2>5, <2>6, <2>7, Zenon DEF SockGood
  <2>9. Same(o, u)
    <3> DEFINE w == [o EXCEPT !.blocked = FALSE]
    <3>1. Same(o, w) /\ Same(o, o)
      BY <2>6, Zenon DEF Same, Fields
    <3>2. u \in {o, update_loss_timer(w)}
      BY Zenon DEF Unblocked
    <3> HIDE DEF w
    <3>3. Same(o, update_loss_timer(w))
      BY <3>1, TimerSame, SameTransitive, Zenon DEF Same
    <3> QED BY <3>1, <3>2, <3>3, Zenon
  <2> HIDE DEF u
  <2> QED BY <2>1, <2>8, <2>9, SameGood, Zenon DEF Same
<1> QED BY <1>1, <1>2, <1>3, Zenon

(* The recursion of processAll: its value after n packets.                     *)
Rounds(f, e, s, ps, aged, m) ==
  /\ f = [n \in 0 .. m |-> f[n]]
  /\ \A n \in 0 .. m : f[n] = IF n = 0 THEN s ELSE process(e, f[n - 1], ps[n], aged)

LEMMA ProcessAllRounds ==
  \A e, s, ps, aged : IsSeq(ps) =>
    \E f : Rounds(f, e, s, ps, aged, Len(ps)) /\ processAll(e, s, ps, aged) = f[Len(ps)]
<1>RoundsExist.
  ASSUME NEW e, NEW s, NEW ps, NEW aged
  PROVE  \A m \in Nat : \E f : Rounds(f, e, s, ps, aged, m)
  <2> USE <1>RoundsExist
  <2> DEFINE A == {m \in Nat : ~\E f : Rounds(f, e, s, ps, aged, m)}
  <2> SUFFICES ASSUME A # {} PROVE FALSE
    BY Zenon
  <2>1. PICK m \in A : \A y \in A : m <= y
    BY LeastNat, Zenon
  <2>2. m \in Nat /\ ~\E f : Rounds(f, e, s, ps, aged, m)
    BY <2>1, Zenon
  <2>3. m # 0
    <3> DEFINE f == [n \in 0 .. 0 |-> s]
    <3>1. f = [n \in 0 .. 0 |-> f[n]] /\ \A n \in 0 .. 0 : n = 0 /\ f[n] = s
      OBVIOUS
    <3> HIDE DEF f
    <3>2. Rounds(f, e, s, ps, aged, 0)
      BY <3>1, Zenon DEF Rounds
    <3> QED BY <2>2, <3>2, Zenon
  <2>4. m - 1 \in Nat /\ m - 1 \notin A
    BY <2>1, <2>2, <2>3
  <2>5. PICK f : Rounds(f, e, s, ps, aged, m - 1)
    BY <2>4, Zenon
  <2> DEFINE last == process(e, f[m - 1], ps[m], aged)
             g == [n \in 0 .. m |-> IF n = m THEN last ELSE f[n]]
  <2> HIDE DEF last
  <2>6. ASSUME NEW n \in 0 .. m
        PROVE  g[n] = IF n = 0 THEN s ELSE process(e, g[n - 1], ps[n], aged)
    <3>1. CASE n = m
      <4>1. m - 1 \in 0 .. m /\ m - 1 # m
        BY <2>2, <2>3
      <4>2. g[m - 1] = f[m - 1] /\ g[m] = last
        BY <2>2, <4>1
      <4> HIDE DEF g
      <4> QED BY <2>3, <3>1, <4>2, Zenon DEF last
    <3>2. CASE n # m
      <4>1. n \in 0 .. m - 1 /\ (n # 0 => n - 1 \in 0 .. m /\ n - 1 # m)
        BY <2>2, <3>2
      <4>2. f[n] = IF n = 0 THEN s ELSE process(e, f[n - 1], ps[n], aged)
        BY <2>5, <4>1, Zenon DEF Rounds
      <4>3. g[n] = f[n] /\ (n # 0 => g[n - 1] = f[n - 1])
        BY <3>2, <4>1, Zenon
      <4> HIDE DEF g
      <4> QED BY <4>2, <4>3, Zenon
    <3> QED BY <3>1, <3>2, Zenon
  <2>7. g = [n \in 0 .. m |-> g[n]]
    BY Zenon
  <2> HIDE DEF g
  <2>8. Rounds(g, e, s, ps, aged, m)
    BY <2>6, <2>7, Zenon DEF Rounds
  <2> QED BY <2>2, <2>8, Zenon
<1> SUFFICES ASSUME NEW e, NEW s, NEW ps, IsSeq(ps), NEW aged
             PROVE  \E f : Rounds(f, e, s, ps, aged, Len(ps)) /\ processAll(e, s, ps, aged) = f[Len(ps)]
  BY Zenon
<1> DEFINE Is(f) == f = [n \in 0 .. Len(ps) |->
                           IF n = 0 THEN s ELSE process(e, f[n - 1], ps[n], aged)]
           done == CHOOSE f : Is(f)
<1>1. Len(ps) \in Nat
  BY SeqParts, Zenon
<1>2. PICK f : Rounds(f, e, s, ps, aged, Len(ps))
  BY <1>1, <1>RoundsExist, Zenon
<1>3. Is(f)
  BY <1>2, Zenon DEF Rounds
<1>4. Is(done)
  BY <1>3, Zenon
<1>5. processAll(e, s, ps, aged) = done[Len(ps)]
  BY Zenon DEF processAll
<1> HIDE DEF done
<1>6. Rounds(done, e, s, ps, aged, Len(ps))
  <2>1. DOMAIN done = 0 .. Len(ps) /\ done = [n \in 0 .. Len(ps) |-> done[n]]
    BY <1>4, Zenon
  <2>2. \A n \in 0 .. Len(ps) : done[n] = IF n = 0 THEN s ELSE process(e, done[n - 1], ps[n], aged)
    BY <1>4, Zenon
  <2> QED BY <2>1, <2>2, Zenon DEF Rounds
<1> QED BY <1>5, <1>6, Zenon

(* Whatever a sequence of packets does to a socket, it stays in order.         *)
LEMMA ProcessAllGood ==
  ASSUME NEW e, NEW s, NEW H, SockGood(e, s, H), s.state # "closed", H \subseteq Servers,
         NEW ps, IsSeq(ps), NEW aged,
         \A i \in DOMAIN ps : ps[i].level \in PacketLevels /\ (e = "client" => ps[i].from \in H)
  PROVE  SockGood(e, processAll(e, s, ps, aged), H) /\ processAll(e, s, ps, aged).state = s.state
<1>1. PICK f : Rounds(f, e, s, ps, aged, Len(ps)) /\ processAll(e, s, ps, aged) = f[Len(ps)]
  BY ProcessAllRounds, Zenon
<1>2. Len(ps) \in Nat /\ DOMAIN ps = 1 .. Len(ps)
  BY SeqParts, Zenon
<1> DEFINE Holds(n) == SockGood(e, f[n], H) /\ f[n].state = s.state
           A == {n \in 0 .. Len(ps) : ~Holds(n)}
<1>3. A = {}
  <2> SUFFICES ASSUME A # {} PROVE FALSE
    BY Zenon
  <2>1. A \subseteq Nat
    BY <1>2
  <2>2. PICK n \in A : \A y \in A : n <= y
    BY <2>1, LeastNat, Zenon
  <2>3. n \in 0 .. Len(ps) /\ ~Holds(n)
    BY <2>2, Zenon
  <2>4. n # 0
    BY <1>1, <1>2, <2>3, Zenon DEF Rounds
  <2>5. n - 1 \in 0 .. Len(ps) /\ n \in DOMAIN ps
    BY <1>2, <2>3, <2>4
  <2>6. n - 1 \notin A
    BY <2>1, <2>2, <2>3
  <2>7. Holds(n - 1)
    BY <2>5, <2>6, Zenon
  <2>8. f[n] = process(e, f[n - 1], ps[n], aged)
    BY <1>1, <2>3, <2>4, Zenon DEF Rounds
  <2>9. Holds(n)
    BY <2>5, <2>7, <2>8, ProcessGood
  <2> QED BY <2>3, <2>9, Zenon
<1>4. Len(ps) \in 0 .. Len(ps)
  BY <1>2
<1> QED BY <1>1, <1>3, <1>4, Zenon

-------------------------------------------------------------------------------
(* The inductive invariant                                                     *)

Accepted == {s \in Servers : sk[s].state # "closed"}

SockInv == DOMAIN sk = Socks /\ \A e \in Socks : SockGood(e, sk[e], Accepted)

NetInv == \A p \in net : PacketGood(p, Accepted)

(* A request belongs to an ID without a socket, and to one only.               *)
RequestInv ==
  /\ IsSeq(reqs)
  /\ \A i \in DOMAIN reqs :
       /\ reqs[i].dcid \in Servers \ Accepted /\ DOMAIN reqs[i] = {"dcid", "backlog"}
       /\ IsSeq(reqs[i].backlog)
       /\ \A j \in DOMAIN reqs[i].backlog : reqs[i].backlog[j].level \in PacketLevels
  /\ \A i, j \in DOMAIN reqs : reqs[i].dcid = reqs[j].dcid => i = j
  /\ accepting = "setup" => reqs # <<>>

(* What waits for the listener was sent to an ID the client chose or was given *)
(* by a Retry, never to one a socket chose itself.                             *)
ToFirst(p) == p.level \in PacketLevels /\ \E x \in Servers : p.dcid = <<"first", x>>

WaitingInv == IsSeq(waiting) /\ \A i \in DOMAIN waiting : ToFirst(waiting[i])

IInv == SockInv /\ NetInv /\ RequestInv /\ WaitingInv

LEMMA InitIInv == Init => IInv
<1> SUFFICES ASSUME Init PROVE IInv
  BY Zenon
<1>1. IsSeq(<<>>) /\ DOMAIN <<>> = {}
  <2>1. <<>> \in Seq({})
    OBVIOUS
  <2> QED BY <2>1 DEF IsSeq
<1>2. DOMAIN NewSock = Fields /\ DOMAIN NoSock = Fields
  BY Zenon DEF NewSock, NoSock, Fields
<1>3. \A s \in Servers : s # "client" /\ sk[s] = NoSock
  BY RetryAssumption, Zenon DEF Init, Servers, Socks
<1>4. Accepted = {}
  BY <1>3 DEF Accepted, NoSock, NewSock
<1>5. \A s \in Servers : SockGood(s, sk[s], {})
  <2>1. /\ NoSock.need_sack = {} /\ NoSock.backlog = <<>> /\ NoSock.todo = <<>>
        /\ NoSock.timer = FALSE /\ NoSock.sack_flag = FALSE
    BY Zenon DEF NoSock, NewSock
  <2> QED BY <1>1, <1>2, <1>3, <2>1, Zenon DEF SockGood
<1>6. SockGood("client", sk["client"], {})
  <2>1. sk["client"] = [NewSock EXCEPT !.dest = <<"first", "orig">>, !.ikey = "orig",
                                       !.todo = <<Msg("CH")>>]
    BY Zenon DEF Init, Socks
  <2>2. DestGood(<<"first", "orig">>, {})
    BY Zenon DEF DestGood, Servers
  <2> QED BY <1>1, <1>2, <2>1, <2>2 DEF SockGood, NewSock, Fields
<1>7. SockInv
  BY <1>4, <1>5, <1>6, Zenon DEF SockInv, Init, Socks
<1> QED BY <1>1, <1>7, Zenon DEF IInv, NetInv, RequestInv, WaitingInv, Init

(* A socket that is not hashed has nothing to do.                              *)
LEMMA ClosedIdle ==
  ASSUME IInv, NEW e \in Socks, sk[e].todo # <<>> \/ sk[e].timer \/ sk[e].sack_flag
  PROVE  sk[e].state # "closed"
  BY Zenon DEF IInv, SockInv, SockGood

-------------------------------------------------------------------------------
(* libquic, the timers and the client                                          *)

(* The packets that waited for the key go through quic_packet_process again.   *)
LEMMA InstalledGood ==
  ASSUME NEW e, NEW s, NEW H, SockGood(e, s, H), s.state # "closed", H \subseteq Servers,
         NEW k, NEW aged
  PROVE  SockGood(e, Installed(e, s, k, aged), H) /\ Installed(e, s, k, aged).state = s.state
<1>1. CASE k.dir = "tx"
  <2> DEFINE t == [s EXCEPT !.tx = @ \cup {k.level}]
  <2>1. Same(s, t)
    BY Zenon DEF SockGood, Same, Fields
  <2>2. Installed(e, s, k, aged) = t
    BY <1>1, Zenon DEF Installed
  <2> HIDE DEF t
  <2> QED BY <2>1, <2>2, SameGood, Zenon DEF Same
<1>2. CASE k.dir # "tx"
  <2> DEFINE t == [s EXCEPT !.rx = @ \cup {k.level}, !.backlog = <<>>,
                            !.token = IF k.level = "app" THEN None ELSE @]
  <2>1. Installed(e, s, k, aged) = processAll(e, t, s.backlog, aged)
    BY <1>2, Zenon DEF Installed
  <2>2. /\ DOMAIN t = Fields /\ t.state = s.state /\ t.dest = s.dest
        /\ t.backlog = <<>> /\ t.need_sack = s.need_sack
    BY Zenon DEF SockGood, Fields
  <2> HIDE DEF t
  <2>3. IsSeq(<<>>) /\ DOMAIN <<>> = {}
    <3>1. <<>> \in Seq({})
      OBVIOUS
    <3> QED BY <3>1 DEF IsSeq
  <2>4. SockGood(e, t, H)
    BY <2>2, <2>3, Zenon DEF SockGood
  <2>5. /\ IsSeq(s.backlog)
        /\ \A i \in DOMAIN s.backlog : /\ s.backlog[i].level \in PacketLevels
                                       /\ e = "client" => s.backlog[i].from \in H
    BY Zenon DEF SockGood
  <2> QED BY <2>1, <2>2, <2>4, <2>5, ProcessAllGood
<1> QED BY <1>1, <1>2, Zenon

-------------------------------------------------------------------------------
(* The listener                                                                *)

(* A packet nobody else takes was sent to an ID of the client's choice: one    *)
(* that a socket chose itself leads to that socket.                            *)
LEMMA ListenerPackets ==
  ASSUME IInv, NEW p \in net, Lookup(p) = {}
  PROVE  ToFirst(p)
<1>1. p.to = "server" /\ p.level \in PacketLevels /\ DestGood(p.dcid, Accepted)
  BY Zenon DEF Lookup, IInv, NetInv, PacketGood
<1>2. PICK k \in {"first", "own"}, x \in Servers :
        p.dcid = <<k, x>> /\ (k = "own" => x \in Accepted)
  BY <1>1, Zenon DEF DestGood
<1>3. x \notin Accepted
  BY <1>1, <1>2 DEF Lookup, Hashed, Accepted
<1> QED BY <1>1, <1>2, <1>3, Zenon DEF ToFirst

LEMMA NextIInv == IInv /\ [Next]_vars => IInv'
(* More sockets leave everything in order.                                     *)
<1>GoodGrows.
  ASSUME NEW H, NEW G, H \subseteq G
  PROVE  /\ \A e, s : SockGood(e, s, H) => SockGood(e, s, G)
         /\ \A p : PacketGood(p, H) => PacketGood(p, G)
  <2> USE <1>GoodGrows
  <2>1. \A d : DestGood(d, H) => DestGood(d, G)
    BY Zenon DEF DestGood
  <2> QED BY <2>1, Zenon DEF SockGood, PacketGood
(* One socket changes, and stays hashed if it was.                             *)
<1>SockMoves.
  ASSUME IInv, NEW e \in Socks, NEW t, sk' = [sk EXCEPT ![e] = t], SockGood(e, t, Accepted),
         t.state = "closed" <=> sk[e].state = "closed"
  PROVE  Accepted' = Accepted /\ SockInv'
  <2> USE <1>SockMoves
  <2>1. DOMAIN sk' = Socks /\ \A x \in Socks : sk'[x] = IF x = e THEN t ELSE sk[x]
    BY Zenon DEF IInv, SockInv
  <2>2. \A x \in Socks : sk'[x].state = "closed" <=> sk[x].state = "closed"
    BY <2>1, Zenon
  <2>3. Accepted' = Accepted
    BY <2>2, Zenon DEF Accepted, Socks
  <2> QED BY <2>1, <2>3, Zenon DEF SockInv, IInv
(* A socket sends, and the listener does nothing.                              *)
<1>EmitGood.
  ASSUME IInv, NEW e \in Socks, NEW s, SockGood(e, s, Accepted), s.state # "closed",
         sk[e].state # "closed", NEW r, Sends(e, s, r), NEW n, n \subseteq net,
         Emit(e, r, n), UNCHANGED listener
  PROVE  IInv'
  <2> USE <1>EmitGood
  <2>1. SockGood(e, r.s, Accepted) /\ r.s.state # "closed"
    BY SameGood, Zenon DEF Sends, Same
  <2>2. Accepted' = Accepted /\ SockInv'
    BY <2>1, <1>SockMoves, Zenon DEF Emit
  <2>3. \A p \in r.out : PacketGood(p, Accepted)
    <3> SUFFICES ASSUME NEW p \in r.out PROVE PacketGood(p, Accepted)
      BY Zenon
    <3>1. /\ p.to = (IF e = "client" THEN "server" ELSE "client")
          /\ p.dcid = s.dest /\ p.from = e /\ p.level \in PacketLevels
      BY Zenon DEF Sends, OutGood
    <3>2. CASE e = "client"
      BY <3>1, <3>2, Zenon DEF PacketGood, SockGood
    <3>3. CASE e # "client"
      BY <3>1, <3>3, Zenon DEF PacketGood, Accepted, Socks
    <3> QED BY <3>2, <3>3, Zenon
  <2>4. NetInv'
    BY <2>2, <2>3, Zenon DEF NetInv, IInv, Emit
  <2> QED BY <2>2, <2>4, Zenon DEF IInv, RequestInv, WaitingInv, listener
<1>RecvMsgInv. ASSUME IInv, NEW e \in Socks, RecvMsg(e) PROVE IInv'
  <2> USE <1>RecvMsgInv
  <2> DEFINE t == [sk[e] EXCEPT !.read = @ + 1, !.todo = Response(Script(e)[sk[e].read + 1])]
  <2>1. SockGood(e, sk[e], Accepted) /\ sk[e].state # "closed"
    BY Zenon DEF IInv, SockInv, RecvMsg, Readable
  <2>2. sk' = [sk EXCEPT ![e] = t]
    BY Zenon DEF RecvMsg
  <2>3. /\ DOMAIN t = Fields /\ t.state = sk[e].state /\ t.dest = sk[e].dest /\ t.rx = sk[e].rx
        /\ t.backlog = sk[e].backlog /\ t.need_sack = sk[e].need_sack
    BY <2>1, Zenon DEF SockGood, Fields
  <2> HIDE DEF t
  <2>4. SockGood(e, t, Accepted)
    BY <2>1, <2>3, Zenon DEF SockGood
  <2>5. Accepted' = Accepted /\ SockInv'
    BY <2>1, <2>2, <2>3, <2>4, <1>SockMoves, Zenon
  <2> QED BY <2>5, Zenon DEF RecvMsg, IInv, NetInv, RequestInv, WaitingInv, listener
<1>SendMsgInv. ASSUME IInv, NEW e \in Socks, SendMsg(e) PROVE IInv'
  <2> USE <1>SendMsgInv
  <2> DEFINE s == [sk[e] EXCEPT !.queue = @ \cup {Head(sk[e].todo).frame}, !.todo = Tail(@)]
  <2>1. SockGood(e, sk[e], Accepted) /\ sk[e].state # "closed"
    BY ClosedIdle, Zenon DEF IInv, SockInv, SendMsg
  <2>2. /\ DOMAIN s = Fields /\ s.state = sk[e].state /\ s.dest = sk[e].dest /\ s.rx = sk[e].rx
        /\ s.backlog = sk[e].backlog /\ s.need_sack = sk[e].need_sack
    BY <2>1, Zenon DEF SockGood, Fields
  <2>3. PICK r : Emit(e, r, net) /\ (r = [s |-> s, out |-> {}] \/ \E filling : r = transmit(e, s, filling))
    BY Zenon DEF SendMsg
  <2> HIDE DEF s
  <2>4. SockGood(e, s, Accepted)
    BY <2>1, <2>2, Zenon DEF SockGood
  <2>5. Sends(e, s, r)
    <3>1. CASE r = [s |-> s, out |-> {}]
      BY <2>2, <3>1, Zenon DEF Sends, Same, OutGood
    <3>2. CASE \E filling : r = transmit(e, s, filling)
      BY <2>4, <3>2, TransmitSends, Zenon DEF SockGood
    <3> QED BY <2>3, <3>1, <3>2, Zenon
  <2> QED BY <2>1, <2>2, <2>3, <2>4, <2>5, <1>EmitGood, Zenon DEF SendMsg
<1>SetSecretInv. ASSUME IInv, NEW e \in Socks, SetSecret(e) PROVE IInv'
  <2> USE <1>SetSecretInv
  <2> DEFINE u == [sk[e] EXCEPT !.todo = Tail(@)]
  <2>1. SockGood(e, sk[e], Accepted) /\ sk[e].state # "closed" /\ Accepted \subseteq Servers
    BY ClosedIdle, Zenon DEF IInv, SockInv, SetSecret, Accepted
  <2>2. /\ DOMAIN u = Fields /\ u.state = sk[e].state /\ u.dest = sk[e].dest /\ u.rx = sk[e].rx
        /\ u.backlog = sk[e].backlog /\ u.need_sack = sk[e].need_sack
    BY <2>1, Zenon DEF SockGood, Fields
  <2>3. PICK aged, filling, s :
          /\ s = Installed(e, u, Head(sk[e].todo), aged)
          /\ \/ Emit(e, Completed(e, s, filling), net)
             \/ Emit(e, [s |-> s, out |-> {}], net)
    BY Zenon DEF SetSecret
  <2> HIDE DEF u
  <2>4. SockGood(e, u, Accepted)
    BY <2>1, <2>2, Zenon DEF SockGood
  <2>5. SockGood(e, s, Accepted) /\ s.state # "closed"
    BY <2>1, <2>2, <2>3, <2>4, InstalledGood
  <2>6. UNCHANGED listener
    BY Zenon DEF SetSecret
  <2>7. CASE Emit(e, [s |-> s, out |-> {}], net)
    <3>1. Sends(e, s, [s |-> s, out |-> {}])
      BY <2>5, Zenon DEF Sends, Same, OutGood, SockGood
    <3> QED BY <2>1, <2>5, <2>6, <2>7, <3>1, <1>EmitGood, Zenon
  <2>8. CASE Emit(e, Completed(e, s, filling), net)
    <3> DEFINE v == [s EXCEPT !.state = "established"]
    <3>1. Sends(e, v, Completed(e, s, filling))
      BY <2>5, CompletedSends, Zenon DEF SockGood
    <3>2. /\ DOMAIN v = Fields /\ v.state = "established" /\ v.dest = s.dest /\ v.rx = s.rx
          /\ v.backlog = s.backlog /\ v.need_sack = s.need_sack
      BY <2>5, Zenon DEF SockGood, Fields
    <3> HIDE DEF v
    <3>3. SockGood(e, v, Accepted)
      BY <2>5, <3>2, Zenon DEF SockGood
    <3> QED BY <2>1, <2>6, <2>8, <3>1, <3>2, <3>3, <1>EmitGood, Zenon
  <2> QED BY <2>3, <2>7, <2>8, Zenon
<1>SackTimerInv. ASSUME IInv, NEW e \in Socks, SackTimer(e) PROVE IInv'
  <2> USE <1>SackTimerInv
  <2> DEFINE s == [sk[e] EXCEPT !.sack_flag = FALSE]
  <2>1. SockGood(e, sk[e], Accepted) /\ sk[e].state # "closed"
    BY ClosedIdle, Zenon DEF IInv, SockInv, SackTimer
  <2>2. PICK filling : Emit(e, transmit(e, s, filling), net)
    BY Zenon DEF SackTimer
  <2>3. Same(sk[e], s)
    BY <2>1, Zenon DEF SockGood, Same, Fields
  <2> HIDE DEF s
  <2>4. SockGood(e, s, Accepted) /\ s.state # "closed"
    BY <2>1, <2>3, SameGood, Zenon DEF Same
  <2>5. Sends(e, s, transmit(e, s, filling))
    BY <2>4, TransmitSends, Zenon DEF SockGood
  <2> QED BY <2>1, <2>2, <2>4, <2>5, <1>EmitGood, Zenon DEF SackTimer
<1>LossTimerInv. ASSUME IInv, NEW e \in Socks, LossTimer(e) PROVE IInv'
  <2> USE <1>LossTimerInv
  <2>1. SockGood(e, sk[e], Accepted) /\ sk[e].state # "closed"
    BY ClosedIdle, Zenon DEF IInv, SockInv, LossTimer
  <2>2. PICK filling, F, s : /\ s = update_loss_timer(retransmit_mark(sk[e], F, TRUE))
                             /\ Emit(e, transmit(e, s, filling), net)
    BY Zenon DEF LossTimer
  <2>3. Same(sk[e], s)
    <3>1. Same(sk[e], retransmit_mark(sk[e], F, TRUE))
      BY <2>1, MarkSame, Zenon DEF SockGood
    <3>2. Same(retransmit_mark(sk[e], F, TRUE), s)
      BY <2>2, <3>1, TimerSame, Zenon DEF Same
    <3> QED BY <3>1, <3>2, SameTransitive, Zenon
  <2>4. SockGood(e, s, Accepted) /\ s.state # "closed"
    BY <2>1, <2>3, SameGood, Zenon DEF Same
  <2>5. Sends(e, s, transmit(e, s, filling))
    BY <2>4, TransmitSends, Zenon DEF SockGood
  <2> QED BY <2>1, <2>2, <2>4, <2>5, <1>EmitGood, Zenon DEF LossTimer
<1>PtoInv. ASSUME IInv, NEW e \in Socks, Pto(e) PROVE IInv'
  <2> USE <1>PtoInv
  <2>1. SockGood(e, sk[e], Accepted) /\ sk[e].state # "closed"
    BY ClosedIdle, Zenon DEF IInv, SockInv, Pto
  <2>2. PICK filling : Emit(e, Probed(e, sk[e], pto_level(sk[e]), filling), net)
    BY Zenon DEF Pto, Probed
  <2>3. Sends(e, sk[e], Probed(e, sk[e], pto_level(sk[e]), filling))
    BY <2>1, ProbedSends, Zenon DEF SockGood
  <2> QED BY <2>1, <2>2, <2>3, <1>EmitGood, Zenon DEF Pto
<1>ReceiveInv. ASSUME IInv, NEW p \in net, Receive(p) PROVE IInv'
  <2> USE <1>ReceiveInv
  <2>0. PICK e \in Lookup(p) : \E aged : sk' = [sk EXCEPT ![e] = process(e, sk[e], p, aged)]
    BY Zenon DEF Receive
  <2>1. PICK aged : sk' = [sk EXCEPT ![e] = process(e, sk[e], p, aged)]
    BY <2>0, Zenon
  <2>2. PacketGood(p, Accepted) /\ p.level # "retry" /\ Accepted \subseteq Servers
    BY Zenon DEF IInv, NetInv, Receive, Accepted
  <2>3. /\ e \in Socks /\ SockGood(e, sk[e], Accepted) /\ sk[e].state # "closed"
        /\ e = "client" => p.to = "client"
    BY RetryAssumption, Zenon DEF Lookup, Hashed, IInv, SockInv, SockGood, Socks, Servers
  <2>4. p.level \in PacketLevels /\ (e = "client" => p.from \in Accepted)
    BY <2>2, <2>3, Zenon DEF PacketGood
  <2> DEFINE t == process(e, sk[e], p, aged)
  <2>5. SockGood(e, t, Accepted) /\ t.state = sk[e].state
    BY <2>2, <2>3, <2>4, ProcessGood
  <2> HIDE DEF t
  <2>6. Accepted' = Accepted /\ SockInv'
    BY <2>1, <2>3, <2>5, <1>SockMoves, Zenon DEF t
  <2> QED BY <2>6, Zenon DEF Receive, IInv, NetInv, RequestInv, WaitingInv, listener
<1>ReceiveRetryInv. ASSUME IInv, NEW p \in net, ReceiveRetry(p) PROVE IInv'
  <2> USE <1>ReceiveRetryInv
  <2> DEFINE s == sk["client"]
             r == [s EXCEPT !.token = p.token, !.ikey = p.from, !.dest = <<"first", p.from>>]
             m == update_loss_timer(retransmit_mark(r, At(Range(s.sent), "initial"), TRUE))
  <2>1. Emit("client", transmit("client", m, FALSE), net \ {p}) /\ UNCHANGED listener
    BY Zenon DEF ReceiveRetry, RetryAccepted
  <2>2. "client" \in Socks /\ SockGood("client", s, Accepted) /\ s.state # "closed"
    BY Zenon DEF IInv, SockInv, SockGood, Socks
  <2>3. p.from \in Servers
    BY Zenon DEF IInv, NetInv, PacketGood, PacketLevels, ReceiveRetry, Servers
  <2>4. /\ DOMAIN r = Fields /\ r.state = s.state /\ r.dest = <<"first", p.from>> /\ r.rx = s.rx
        /\ r.todo = s.todo /\ r.backlog = s.backlog /\ r.need_sack = s.need_sack
    BY <2>2, Zenon DEF SockGood, Fields
  <2> HIDE DEF r
  <2>5. SockGood("client", r, Accepted)
    BY <2>2, <2>3, <2>4, Zenon DEF SockGood, DestGood
  <2>6. Same(r, m)
    <3> DEFINE k == retransmit_mark(r, At(Range(s.sent), "initial"), TRUE)
    <3>1. Same(r, k)
      BY <2>4, MarkSame, Zenon
    <3> HIDE DEF k
    <3>2. Same(k, update_loss_timer(k))
      BY <3>1, TimerSame, Zenon DEF Same
    <3>3. Same(r, update_loss_timer(k))
      BY <3>1, <3>2, SameTransitive, Zenon
    <3> QED BY <3>3, Zenon DEF k
  <2> HIDE DEF m
  <2>7. SockGood("client", m, Accepted) /\ m.state # "closed"
    BY <2>2, <2>4, <2>5, <2>6, SameGood, Zenon DEF Same
  <2>8. Sends("client", m, transmit("client", m, FALSE))
    BY <2>7, TransmitSends, Zenon DEF SockGood
  <2> QED BY <2>1, <2>2, <2>7, <2>8, <1>EmitGood, Zenon
(* What the listener is given: an Initial packet, or a later one, to an ID of  *)
(* the client's choice.                                                        *)
<1>ListenInv.
  ASSUME IInv, NEW p, ToFirst(p), NEW n, n \subseteq net, Listen(p, n),
         UNCHANGED <<accepting, validate_peer_address>>
  PROVE  SockInv' /\ NetInv' /\ RequestInv'
  <2> USE <1>ListenInv
  <2>0. Accepted \subseteq Servers
    BY Zenon DEF Accepted
  <2>1. CASE QueueToRequest(p, n)
    <3>1. sk' = sk /\ net' = n
      BY <2>1, Zenon DEF QueueToRequest
    <3>2. Accepted' = Accepted /\ SockInv' /\ NetInv'
      BY <3>1, Zenon DEF Accepted, SockInv, NetInv, IInv
    <3>3. /\ DOMAIN reqs' = DOMAIN reqs
          /\ \A i \in DOMAIN reqs :
               \/ reqs'[i] = reqs[i]
               \/ reqs'[i] = [reqs[i] EXCEPT !.backlog = Append(@, p)]
      BY <2>1, Zenon DEF QueueToRequest
    <3>4. IsSeq(reqs') /\ Len(reqs') = Len(reqs)
      <4>1. Len(reqs) \in Nat /\ DOMAIN reqs = 1 .. Len(reqs)
        BY SeqParts, Zenon DEF IInv, RequestInv
      <4>2. reqs' = [i \in 1 .. Len(reqs) |-> reqs'[i]]
        BY <2>1, <4>1, Zenon DEF QueueToRequest
      <4> DEFINE S == {reqs'[i] : i \in 1 .. Len(reqs)}
      <4>3. reqs' \in [1 .. Len(reqs) -> S]
        BY <4>2, Zenon
      <4> HIDE DEF S
      <4>4. reqs' \in Seq(S) /\ Len(reqs') = Len(reqs)
        BY <4>1, <4>3
      <4> QED BY <4>4, Zenon DEF IsSeq
    <3>5. ASSUME NEW i \in DOMAIN reqs
          PROVE  /\ reqs'[i].dcid = reqs[i].dcid /\ DOMAIN reqs'[i] = {"dcid", "backlog"}
                 /\ IsSeq(reqs'[i].backlog)
                 /\ \A j \in DOMAIN reqs'[i].backlog : reqs'[i].backlog[j].level \in PacketLevels
      <4> DEFINE q == reqs[i].backlog
      <4>1. /\ DOMAIN reqs[i] = {"dcid", "backlog"} /\ IsSeq(q)
            /\ \A j \in DOMAIN q : q[j].level \in PacketLevels
        BY Zenon DEF IInv, RequestInv
      <4>2. CASE reqs'[i] = reqs[i]
        BY <4>1, <4>2, Zenon
      <4>3. CASE reqs'[i] = [reqs[i] EXCEPT !.backlog = Append(@, p)]
        <5>1. /\ reqs'[i].dcid = reqs[i].dcid /\ DOMAIN reqs'[i] = {"dcid", "backlog"}
              /\ reqs'[i].backlog = Append(q, p)
          BY <4>1, <4>3, Zenon
        <5> HIDE DEF q
        <5>2. /\ Len(q) \in Nat /\ DOMAIN q = 1 .. Len(q)
              /\ IsSeq(Append(q, p)) /\ DOMAIN Append(q, p) = 1 .. Len(q) + 1
              /\ \A j \in 1 .. Len(q) + 1 : Append(q, p)[j] = IF j <= Len(q) THEN q[j] ELSE p
          BY <4>1, Appended, SeqParts, Zenon
        <5>3. \A j \in 1 .. Len(q) + 1 : Append(q, p)[j].level \in PacketLevels
          BY <4>1, <5>2 DEF ToFirst
        <5> QED BY <5>1, <5>2, <5>3, Zenon
      <4> QED BY <3>3, <4>2, <4>3, Zenon
    <3>6. accepting' = "setup" => reqs' # <<>>
      <4>1. Len(reqs) \in Nat /\ IsSeq(reqs) /\ (accepting = "setup" => reqs # <<>>)
        BY SeqParts, Zenon DEF IInv, RequestInv
      <4>2. reqs' = <<>> => Len(reqs) = 0
        BY <3>4, Zenon
      <4>3. reqs # <<>> => Len(reqs) # 0
        BY <4>1, Tailed, Zenon
      <4> QED BY <4>1, <4>2, <4>3, Zenon
    <3>7. RequestInv'
      BY <3>2, <3>3, <3>4, <3>5, <3>6, Zenon DEF RequestInv, IInv
    <3> QED BY <3>2, <3>7, Zenon
  <2>2. CASE ProcessAccepted(p, n)
    <3>1. PICK x \in Servers : p.dcid = <<"first", x>>
      BY Zenon DEF ToFirst
    <3>2. PICK aged : sk' = [sk EXCEPT ![x] = process(x, sk[x], p, aged)]
      <4>1. p.dcid[2] = x
        BY <3>1
      <4> QED BY <2>2, <4>1, Zenon DEF ProcessAccepted
    <3>3. /\ x \in Socks /\ x # "client" /\ SockGood(x, sk[x], Accepted) /\ sk[x].state # "closed"
      BY <2>2, <3>1, RetryAssumption DEF ProcessAccepted, accept_sock_exists, Hashed, IInv, SockInv, Socks, Servers
    <3> DEFINE t == process(x, sk[x], p, aged)
    <3>4. SockGood(x, t, Accepted) /\ t.state = sk[x].state
      BY <2>0, <3>3, ProcessGood DEF ToFirst
    <3> HIDE DEF t
    <3>5. Accepted' = Accepted /\ SockInv'
      BY <3>2, <3>3, <3>4, <1>SockMoves, Zenon DEF t
    <3> QED BY <2>2, <3>5, Zenon DEF ProcessAccepted, IInv, NetInv, RequestInv
  <2>3. CASE Ignore(p, n)
    BY <2>3, Zenon DEF Ignore, IInv, SockInv, NetInv, RequestInv, Accepted
  <2>4. CASE SendRetry(p, n)
    <3>1. PICK r \in Retries : net' = n \cup {RetryPacket(r)}
      BY <2>4, Zenon DEF SendRetry
    <3>2. sk' = sk /\ reqs' = reqs /\ Accepted' = Accepted
      BY <2>4, Zenon DEF SendRetry, Accepted
    <3>3. PacketGood(RetryPacket(r), Accepted)
      BY Zenon DEF PacketGood, RetryPacket
    <3> QED BY <3>1, <3>2, <3>3, Zenon DEF IInv, SockInv, NetInv, RequestInv
  <2>5. CASE MakeRequest(p, n)
    <3>1. PICK x \in Servers : p.dcid = <<"first", x>>
      BY Zenon DEF ToFirst
    <3> DEFINE q == [dcid |-> x, backlog |-> <<p>>]
    <3>2. sk' = sk /\ net' = n /\ reqs' = Append(reqs, q)
      BY <2>5, <3>1 DEF MakeRequest
    <3>3. Accepted' = Accepted /\ SockInv' /\ NetInv'
      BY <3>2, Zenon DEF Accepted, SockInv, NetInv, IInv
    <3>4. x \notin Accepted /\ \A i \in DOMAIN reqs : reqs[i].dcid # x
      BY <2>5, <3>1 DEF MakeRequest, accept_sock_exists, Hashed, Accepted, Requested
    <3>5. /\ DOMAIN q = {"dcid", "backlog"} /\ q.dcid = x /\ IsSeq(q.backlog)
          /\ \A j \in DOMAIN q.backlog : q.backlog[j].level \in PacketLevels
      <4>1. <<p>> \in Seq({p}) /\ DOMAIN <<p>> = {1} /\ <<p>>[1] = p
        OBVIOUS
      <4> QED BY <4>1, Zenon DEF IsSeq, ToFirst
    <3> HIDE DEF q
    <3>6. /\ Len(reqs) \in Nat /\ DOMAIN reqs = 1 .. Len(reqs)
          /\ IsSeq(reqs') /\ DOMAIN reqs' = 1 .. Len(reqs) + 1 /\ Len(reqs') = Len(reqs) + 1
          /\ \A i \in 1 .. Len(reqs) + 1 : reqs'[i] = IF i <= Len(reqs) THEN reqs[i] ELSE q
      BY <3>2, Appended, SeqParts, Zenon DEF IInv, RequestInv
    <3>7. reqs' # <<>>
      BY <3>6
    <3>8. \A i \in DOMAIN reqs' : reqs'[i] = q \/ (i \in DOMAIN reqs /\ reqs'[i] = reqs[i])
      BY <3>6
    <3>9. \A i, j \in DOMAIN reqs' : reqs'[i].dcid = reqs'[j].dcid => i = j
      <4> SUFFICES ASSUME NEW i \in DOMAIN reqs', NEW j \in DOMAIN reqs', reqs'[i].dcid = reqs'[j].dcid
                   PROVE  i = j
        BY Zenon
      <4>1. CASE i \in DOMAIN reqs /\ j \in DOMAIN reqs
        BY <3>6, <4>1 DEF IInv, RequestInv
      <4>2. CASE i \notin DOMAIN reqs
        BY <3>4, <3>5, <3>6, <4>2
      <4>3. CASE j \notin DOMAIN reqs
        BY <3>4, <3>5, <3>6, <4>3
      <4> QED BY <4>1, <4>2, <4>3, Zenon
    <3>10. RequestInv'
      BY <3>3, <3>4, <3>5, <3>6, <3>7, <3>8, <3>9, Zenon DEF RequestInv, IInv
    <3> QED BY <3>3, <3>10, Zenon
  <2> QED BY <2>1, <2>2, <2>3, <2>4, <2>5, Zenon DEF Listen
<1>ReceiveListenInv. ASSUME IInv, NEW p \in net, ReceiveListen(p) PROVE IInv'
  <2> USE <1>ReceiveListenInv
  <2>1. ToFirst(p)
    BY ListenerPackets, Zenon DEF ReceiveListen
  <2>2. CASE Listen(p, net \ {p}) /\ waiting' = waiting
    <3>1. SockInv' /\ NetInv' /\ RequestInv'
      BY <2>1, <2>2, <1>ListenInv, Zenon DEF ReceiveListen
    <3> QED BY <2>2, <3>1, Zenon DEF IInv, WaitingInv
  <2>3. CASE waiting' = Append(waiting, p) /\ net' = net \ {p} /\ UNCHANGED <<sk, reqs>>
    <3>1. SockInv' /\ NetInv' /\ RequestInv'
      BY <2>3, Zenon DEF ReceiveListen, IInv, SockInv, NetInv, RequestInv, Accepted
    <3>2. /\ Len(waiting) \in Nat /\ DOMAIN waiting = 1 .. Len(waiting)
          /\ IsSeq(waiting') /\ DOMAIN waiting' = 1 .. Len(waiting) + 1
          /\ \A i \in 1 .. Len(waiting) + 1 :
               waiting'[i] = IF i <= Len(waiting) THEN waiting[i] ELSE p
      BY <2>3, Appended, SeqParts, Zenon DEF IInv, WaitingInv
    <3>3. \A i \in 1 .. Len(waiting) : ToFirst(waiting[i])
      BY <3>2, Zenon DEF IInv, WaitingInv
    <3>4. \A i \in DOMAIN waiting' : ToFirst(waiting'[i])
      BY <2>1, <3>2, <3>3
    <3>5. WaitingInv'
      BY <3>2, <3>4, Zenon DEF WaitingInv, ToFirst
    <3> QED BY <3>1, <3>5, Zenon DEF IInv
  <2> QED BY <2>2, <2>3, Zenon DEF ReceiveListen
<1>ListenerBacklogInv. ASSUME IInv, ListenerBacklog PROVE IInv'
  <2> USE <1>ListenerBacklogInv
  <2>1. /\ IsSeq(waiting') /\ Len(waiting) \in Nat \ {0} /\ Head(waiting) = waiting[1]
        /\ DOMAIN waiting' = 1 .. Len(waiting) - 1
        /\ \A i \in 1 .. Len(waiting) - 1 : waiting'[i] = waiting[i + 1]
    BY Tailed, Zenon DEF ListenerBacklog, IInv, WaitingInv
  <2>2. DOMAIN waiting = 1 .. Len(waiting)
    BY SeqParts, Zenon DEF IInv, WaitingInv
  <2>3. \A i \in 1 .. Len(waiting) : ToFirst(waiting[i])
    BY <2>2, Zenon DEF IInv, WaitingInv
  <2>4. ToFirst(Head(waiting)) /\ \A i \in DOMAIN waiting' : ToFirst(waiting'[i])
    BY <2>1, <2>3
  <2>5. SockInv' /\ NetInv' /\ RequestInv'
    BY <2>4, <1>ListenInv, Zenon DEF ListenerBacklog
  <2>6. WaitingInv'
    BY <2>1, <2>4, Zenon DEF WaitingInv, ToFirst
  <2> QED BY <2>5, <2>6, Zenon DEF IInv
(* The new socket leaves the requests, and the others are for other IDs.       *)
<1>AcceptSetupInv. ASSUME IInv, AcceptSetup PROVE IInv'
  <2> USE <1>AcceptSetupInv
  <2>1. reqs # <<>> /\ IsSeq(reqs)
    BY Zenon DEF AcceptSetup, IInv, RequestInv
  <2>2. /\ IsSeq(reqs') /\ Len(reqs) \in Nat \ {0} /\ Head(reqs) = reqs[1]
        /\ DOMAIN reqs' = 1 .. Len(reqs) - 1
        /\ \A i \in 1 .. Len(reqs) - 1 : reqs'[i] = reqs[i + 1]
        /\ DOMAIN reqs = 1 .. Len(reqs)
    BY <2>1, Tailed, SeqParts, Zenon DEF AcceptSetup
  <2> DEFINE s == reqs[1].dcid
             ps == reqs[1].backlog
             n == [NewSock EXCEPT !.dest = <<"own", "client">>, !.ikey = s, !.peer = s]
  <2>3. PICK aged : sk' = [sk EXCEPT ![s] = processAll(s, n, ps, aged)]
    BY <2>2, Zenon DEF AcceptSetup
  <2>4. /\ s \in Servers \ Accepted /\ s \in Socks /\ s # "client" /\ IsSeq(ps)
        /\ \A j \in DOMAIN ps : ps[j].level \in PacketLevels
    BY <2>2, RetryAssumption DEF IInv, RequestInv, Servers, Socks
  <2> HIDE DEF ps, s
  <2> DEFINE G == Accepted \cup {s}
  <2>5. G \subseteq Servers /\ Accepted \subseteq G
    BY <2>4, Zenon DEF Accepted
  <2>6. SockGood(s, n, G) /\ n.state = "establishing"
    <3>1. /\ DOMAIN n = Fields /\ n.need_sack = {} /\ n.backlog = <<>> /\ n.state = "establishing"
      BY Zenon DEF NewSock, Fields
    <3>2. IsSeq(<<>>) /\ DOMAIN <<>> = {}
      <4>1. <<>> \in Seq({})
        OBVIOUS
      <4> QED BY <4>1 DEF IsSeq
    <3> HIDE DEF n
    <3> QED BY <2>4, <3>1, <3>2, Zenon DEF SockGood
  <2> HIDE DEF n, G
  <2> DEFINE t == processAll(s, n, ps, aged)
  <2>7. SockGood(s, t, G) /\ t.state = "establishing"
    BY <2>4, <2>5, <2>6, ProcessAllGood
  <2>8. sk' = [sk EXCEPT ![s] = t]
    BY <2>3, Zenon
  <2> HIDE DEF t
  <2>9. DOMAIN sk' = Socks /\ \A x \in Socks : sk'[x] = IF x = s THEN t ELSE sk[x]
    BY <2>4, <2>8, Zenon DEF IInv, SockInv
  <2>10. Accepted' = G
    BY <2>4, <2>7, <2>9, Zenon DEF Accepted, G, Socks
  <2>11. \A x \in Socks : SockGood(x, sk'[x], G)
    BY <2>5, <2>7, <2>9, <1>GoodGrows, Zenon DEF IInv, SockInv
  <2>12. SockInv'
    BY <2>9, <2>10, <2>11, Zenon DEF SockInv
  <2>13. NetInv'
    BY <2>5, <2>10, <1>GoodGrows, Zenon DEF NetInv, IInv, AcceptSetup
  <2>14. \A i \in DOMAIN reqs' : i + 1 \in DOMAIN reqs /\ i + 1 # 1 /\ reqs'[i] = reqs[i + 1]
    BY <2>2
  <2>15. \A i \in DOMAIN reqs' : reqs'[i].dcid # s
    BY <2>2, <2>14 DEF IInv, RequestInv, s
  <2>16. \A i, j \in DOMAIN reqs' : reqs'[i].dcid = reqs'[j].dcid => i = j
    <3> SUFFICES ASSUME NEW i \in DOMAIN reqs', NEW j \in DOMAIN reqs', reqs'[i].dcid = reqs'[j].dcid
                 PROVE  i = j
      BY Zenon
    <3>1. i + 1 = j + 1
      BY <2>14, ZenonT(30) DEF IInv, RequestInv
    <3> QED BY <2>2, <3>1
  <2>17. RequestInv'
    BY <2>2, <2>10, <2>14, <2>15, <2>16 DEF RequestInv, IInv, AcceptSetup, G
  <2> QED BY <2>12, <2>13, <2>17, Zenon DEF IInv, WaitingInv, AcceptSetup
<1> SUFFICES ASSUME IInv, [Next]_vars PROVE IInv'
  BY Zenon
<1>1. ASSUME NEW p \in net, Lose(p) PROVE IInv'
  BY <1>1, Zenon DEF Lose, listener, IInv, SockInv, NetInv, RequestInv, WaitingInv, Accepted
<1>2. CASE Accept
  BY <1>2, Zenon DEF Accept, IInv, SockInv, NetInv, RequestInv, WaitingInv, Accepted
<1>3. CASE Release
  BY <1>3, Zenon DEF Release, IInv, SockInv, NetInv, RequestInv, WaitingInv, Accepted
<1>4. CASE UNCHANGED vars
  BY <1>4, Zenon DEF vars, IInv, SockInv, NetInv, RequestInv, WaitingInv, Accepted
<1>5. CASE User
  BY <1>5, <1>RecvMsgInv, <1>SendMsgInv, <1>SetSecretInv, Zenon DEF User
<1>6. CASE Listener
  BY <1>2, <1>3, <1>6, <1>AcceptSetupInv, <1>ListenerBacklogInv, Zenon DEF Listener
<1>7. CASE Deliver
  BY <1>7, <1>ReceiveInv, <1>ReceiveListenInv, <1>ReceiveRetryInv, Zenon DEF Deliver
<1>8. CASE Timers
  BY <1>8, <1>SackTimerInv, <1>LossTimerInv, Zenon DEF Timers
<1>9. CASE \E e \in Socks : Pto(e)
  BY <1>9, <1>PtoInv, Zenon
<1> QED BY <1>1, <1>4, <1>5, <1>6, <1>7, <1>8, <1>9, Zenon DEF Next, Progress

-------------------------------------------------------------------------------
(* The theorems                                                                *)

(* A connection ID never has both a request sock and an accepted socket, so    *)
(* that accept() makes one socket per connection: for any number of Retry      *)
(* packets, of repeated or delayed Initial packets, and however packets        *)
(* interleave with accept() (quic_accept_sock_exists).                         *)
THEOREM OneSocketOnly == Spec => []OneSocket
<1>1. IInv => OneSocket
  BY Zenon DEF IInv, RequestInv, OneSocket, Hashed, Accepted
<1> QED BY <1>1, InitIInv, NextIInv, PTL DEF Spec

(* A packet that came before its key does not stay in the backlog once the key *)
(* is there, whatever else the packets processed with it do, for any size of   *)
(* the backlog (quic_sock_set_crypto_secret).                                  *)
THEOREM BacklogDrained == Spec => []NothingStranded
<1>1. IInv => NothingStranded
  BY Zenon DEF IInv, SockInv, SockGood, NothingStranded
<1> QED BY <1>1, InitIInv, NextIInv, PTL DEF Spec
===============================================================================
