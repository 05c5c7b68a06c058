------------------------ MODULE HandshakeSession_proofs ------------------------
(* That the server only believes what the client proved, that every variable   *)
(* keeps its type and that the amplification limit is kept, for any number of  *)
(* Retry packets, any limit, any backlog and any losses.                       *)
EXTENDS Handshake_proofs, FiniteSetTheorems

USE SMTT(30)

-------------------------------------------------------------------------------
(* Sequences without repetition                                                *)

Row(q) == IsSeq(q) /\ \A i, j \in DOMAIN q : q[i] = q[j] => i = j

LEMMA RowEmpty == Row(<<>>) /\ Range(<<>>) = {}
<1>1. <<>> \in Seq({}) /\ DOMAIN <<>> = {}
  OBVIOUS
<1> QED BY <1>1, Zenon DEF Row, IsSeq, Range

(* The recursion of Without: what is left of the first n elements.             *)
Left(f, q, F, m) ==
  /\ f = [n \in 0 .. m |-> f[n]]
  /\ \A n \in 0 .. m : f[n] = IF n = 0 THEN <<>> ELSE IF q[n] \in F THEN f[n - 1]
                                                 ELSE Append(f[n - 1], q[n])

(* Without removes the frames of F from a row, and nothing else.               *)
LEMMA WithoutRow ==
  \A q, F : Row(q) =>
    Row(Without(q, F)) /\ Range(Without(q, F)) = Range(q) \ F
<1>RowAppend.
  ASSUME NEW q, Row(q), NEW p, p \notin Range(q)
  PROVE  Row(Append(q, p)) /\ Range(Append(q, p)) = Range(q) \cup {p}
  <2> USE <1>RowAppend
  <2> DEFINE r == Append(q, p)
  <2>1. /\ IsSeq(r) /\ DOMAIN r = 1 .. Len(q) + 1 /\ Len(q) \in Nat /\ DOMAIN q = 1 .. Len(q)
        /\ \A i \in 1 .. Len(q) + 1 : r[i] = IF i <= Len(q) THEN q[i] ELSE p
    BY Appended, SeqParts, Zenon DEF Row
  <2> HIDE DEF r
  <2>2. \A i \in DOMAIN r : (i \in DOMAIN q /\ r[i] = q[i]) \/ (i = Len(q) + 1 /\ r[i] = p)
    BY <2>1
  <2>3. \A i \in DOMAIN q : i \in DOMAIN r /\ r[i] = q[i]
    BY <2>1
  <2>4. Len(q) + 1 \in DOMAIN r /\ r[Len(q) + 1] = p
    BY <2>1
  <2>5. Range(r) = Range(q) \cup {p}
    BY <2>2, <2>3, <2>4, Zenon DEF Range
  <2>6. \A i \in DOMAIN q : q[i] # p
    BY Zenon DEF Range
  <2>7. Row(r)
    BY <2>1, <2>2, <2>6, Zenon DEF Row
  <2> QED BY <2>5, <2>7, Zenon DEF r
<1>LeftExists.
  ASSUME NEW q, NEW F
  PROVE  \A m \in Nat : \E f : Left(f, q, F, m)
  <2> USE <1>LeftExists
  <2> DEFINE A == {m \in Nat : ~\E f : Left(f, q, F, m)}
  <2> SUFFICES ASSUME A # {} PROVE FALSE
    BY Zenon
  <2>1. PICK m \in A : \A y \in A : m <= y
    BY LeastNat, Zenon
  <2>2. m \in Nat /\ ~\E f : Left(f, q, F, m)
    BY <2>1, Zenon
  <2>3. m # 0
    <3> DEFINE f == [n \in 0 .. 0 |-> <<>>]
    <3>1. f = [n \in 0 .. 0 |-> f[n]] /\ \A n \in 0 .. 0 : n = 0 /\ f[n] = <<>>
      OBVIOUS
    <3> HIDE DEF f
    <3>2. Left(f, q, F, 0)
      BY <3>1, Zenon DEF Left
    <3> QED BY <2>2, <3>2, Zenon
  <2>4. m - 1 \in Nat /\ m - 1 \notin A
    BY <2>1, <2>2, <2>3
  <2>5. PICK f : Left(f, q, F, m - 1)
    BY <2>4, Zenon
  <2> DEFINE last == IF q[m] \in F THEN f[m - 1] ELSE Append(f[m - 1], q[m])
             g == [n \in 0 .. m |-> IF n = m THEN last ELSE f[n]]
  <2> HIDE DEF last
  <2>6. ASSUME NEW n \in 0 .. m
        PROVE  g[n] = IF n = 0 THEN <<>> ELSE IF q[n] \in F THEN g[n - 1] ELSE Append(g[n - 1], q[n])
    <3>1. CASE n = m
      <4>1. m - 1 \in 0 .. m /\ m - 1 # m
        BY <2>2, <2>3
      <4>2. g[m - 1] = f[m - 1] /\ g[m] = last
        BY <2>2, <4>1
      <4> HIDE DEF g
      <4> QED BY <2>3, <3>1, <4>2, Zenon DEF last
    <3>2. CASE n # m
      <4>1. n \in 0 .. m - 1 /\ (n # 0 => n - 1 \in 0 .. m /\ n - 1 # m)
        BY <2>2, <3>2
      <4>2. f[n] = IF n = 0 THEN <<>> ELSE IF q[n] \in F THEN f[n - 1] ELSE Append(f[n - 1], q[n])
        BY <2>5, <4>1, Zenon DEF Left
      <4>3. g[n] = f[n] /\ (n # 0 => g[n - 1] = f[n - 1])
        BY <3>2, <4>1, Zenon
      <4> HIDE DEF g
      <4> QED BY <4>2, <4>3, Zenon
    <3> QED BY <3>1, <3>2, Zenon
  <2>7. g = [n \in 0 .. m |-> g[n]]
    BY Zenon
  <2> HIDE DEF g
  <2>8. Left(g, q, F, m)
    BY <2>6, <2>7, Zenon DEF Left
  <2> QED BY <2>2, <2>8, Zenon
<1> SUFFICES ASSUME NEW q, Row(q), NEW F
             PROVE  Row(Without(q, F)) /\ Range(Without(q, F)) = Range(q) \ F
  BY Zenon
<1> DEFINE Is(f) == f = [n \in 0 .. Len(q) |->
                           IF n = 0 THEN <<>> ELSE IF q[n] \in F THEN f[n - 1] ELSE Append(f[n - 1], q[n])]
           left == CHOOSE f : Is(f)
<1>1. Len(q) \in Nat /\ DOMAIN q = 1 .. Len(q)
  BY SeqParts, Zenon DEF Row
<1>2. PICK f : Left(f, q, F, Len(q))
  BY <1>1, <1>LeftExists, Zenon
<1>3. Is(f)
  BY <1>2, Zenon DEF Left
<1>4. Is(left)
  BY <1>3, Zenon
<1>5. Without(q, F) = left[Len(q)]
  BY Zenon DEF Without
<1> HIDE DEF left
<1>6. \A n \in 0 .. Len(q) :
        left[n] = IF n = 0 THEN <<>> ELSE IF q[n] \in F THEN left[n - 1] ELSE Append(left[n - 1], q[n])
  BY <1>4, Zenon
<1> HIDE DEF Is
<1> DEFINE Seen(n) == {q[i] : i \in 1 .. n}
           Holds(n) == Row(left[n]) /\ Range(left[n]) = Seen(n) \ F
           A == {n \in 0 .. Len(q) : ~Holds(n)}
<1>7. A = {}
  <2> SUFFICES ASSUME A # {} PROVE FALSE
    BY Zenon
  <2>1. A \subseteq Nat
    BY <1>1
  <2>2. PICK n \in A : \A y \in A : n <= y
    BY <2>1, LeastNat, Zenon
  <2>3. n \in 0 .. Len(q) /\ ~Holds(n)
    BY <2>2, Zenon
  <2>4. n # 0
    <3>1. Seen(0) = {}
      OBVIOUS
    <3>2. 0 \in 0 .. Len(q)
      BY <1>1
    <3>3. left[0] = <<>>
      BY <1>6, <3>2, Zenon
    <3> QED BY <2>3, <3>1, <3>3, RowEmpty, Zenon
  <2>5. n - 1 \in 0 .. Len(q) /\ n \in DOMAIN q
    BY <1>1, <2>3, <2>4
  <2>6. n - 1 \notin A
    <3>1. n \in Nat /\ ~(n <= n - 1)
      BY <1>1, <2>3
    <3> QED BY <2>2, <3>1, Zenon
  <2>7. Row(left[n - 1]) /\ Range(left[n - 1]) = Seen(n - 1) \ F
    BY <2>5, <2>6, Zenon
  <2>8. left[n] = IF q[n] \in F THEN left[n - 1] ELSE Append(left[n - 1], q[n])
    BY <1>6, <2>3, <2>4, Zenon
  <2>9. Seen(n) = Seen(n - 1) \cup {q[n]}
    <3>1. \A i \in 1 .. n : i \in 1 .. n - 1 \/ i = n
      BY <1>1, <2>3
    <3>2. n \in 1 .. n /\ \A i \in 1 .. n - 1 : i \in 1 .. n
      BY <1>1, <2>3, <2>4
    <3> QED BY <3>1, <3>2, Zenon
  <2>10. q[n] \notin Seen(n - 1)
    <3>1. \A i \in 1 .. n - 1 : i \in DOMAIN q /\ i # n
      BY <1>1, <2>3
    <3> QED BY <2>5, <3>1, Zenon DEF Row
  <2> HIDE DEF Seen
  <2>11. CASE q[n] \in F
    BY <2>3, <2>7, <2>8, <2>9, <2>11, Zenon
  <2>12. CASE q[n] \notin F
    <3>1. q[n] \notin Range(left[n - 1])
      BY <2>7, <2>10, Zenon
    <3>2. Row(left[n]) /\ Range(left[n]) = Range(left[n - 1]) \cup {q[n]}
      BY <2>7, <2>8, <2>12, <3>1, <1>RowAppend
    <3> QED BY <2>3, <2>7, <2>9, <2>12, <3>2, Zenon
  <2> QED BY <2>11, <2>12, Zenon
<1>8. Holds(Len(q))
  BY <1>1, <1>7
<1>9. Seen(Len(q)) = Range(q)
  BY <1>1, Zenon DEF Range
<1> HIDE DEF Seen
<1> QED BY <1>5, <1>8, <1>9, Zenon

-------------------------------------------------------------------------------
(* The amplification limit                                                     *)

LEMMA Places ==
  /\ Names \subseteq Range(Order) /\ IsFiniteSet(Range(Order))
  /\ \A f \in Range(Order) : Place[f] \in 1 .. 10
  /\ \A f, g \in Range(Order) : Place[f] = Place[g] => f = g
<1>1. DOMAIN Order = 1 .. 10
  BY DEF Order
<1>2. /\ Order[1] = "CH" /\ Order[2] = "SH" /\ Order[4] = "CERT" /\ Order[5] = "SFIN"
      /\ Order[6] = "FIN" /\ Order[8] = "DONE" /\ Order[9] = "CIDS"
  BY Zenon DEF Order
<1>3. Names \subseteq Range(Order)
  BY <1>1, <1>2 DEF Names, Range
<1>4. IsFiniteSet(Range(Order))
  <2>1. Len(Order) = 10 /\ Order = [i \in 1 .. 10 |-> Order[i]]
    BY DEF Order
  <2>2. Order \in [1 .. 10 -> Range(Order)]
    BY <1>1, <2>1, Zenon DEF Range
  <2>3. Order \in Seq(Range(Order))
    <3>1. \A n \in Nat : \A S, q : q \in [1 .. n -> S] => q \in Seq(S)
      OBVIOUS
    <3>2. 10 \in Nat
      BY Zenon
    <3> QED BY <2>2, <3>1, <3>2, Zenon
  <2>4. \A f \in Range(Order) : \E i \in 1 .. Len(Order) : Order[i] = f
    BY <1>1, <2>1, Zenon DEF Range
  <2> QED BY <2>3, <2>4, Zenon DEF IsFiniteSet
<1>5. \A f \in Range(Order) : Place[f] \in DOMAIN Order /\ Order[Place[f]] = f
  <2> SUFFICES ASSUME NEW f \in Range(Order)
               PROVE  Place[f] \in DOMAIN Order /\ Order[Place[f]] = f
    BY Zenon
  <2>1. Place[f] = CHOOSE i \in DOMAIN Order : Order[i] = f
    BY Zenon DEF Place
  <2>2. \E i \in DOMAIN Order : Order[i] = f
    BY Zenon DEF Range
  <2> QED BY <2>1, <2>2, Zenon
<1> QED BY <1>1, <1>3, <1>4, <1>5, Zenon

-------------------------------------------------------------------------------
(* What sending leaves alone                                                   *)

(* The messages a socket has in its hands.                                     *)
Frames(s) == Names \cap (s.queue \cup Range(s.sent))

(* A message in flight is tracked once, has a send key and can be lost, and    *)
(* the server has not spent more than its credit.                              *)
Tracks(s) ==
  /\ Row(s.sent) /\ Range(s.sent) \subseteq Names /\ s.lost \subseteq Range(s.sent)
  /\ s.queue \subseteq Range(Order) /\ \A f \in Range(s.sent) : LevelOf(f) \in s.tx
  /\ s.credit \in 0 .. MaxCredit

Rest(s, t) ==
  /\ DOMAIN t = Fields /\ t.tx = s.tx /\ t.got = s.got /\ t.read = s.read
  /\ t.ikey = s.ikey /\ t.peer = s.peer /\ t.token = s.token /\ t.validated = s.validated

Kept(s, t) == Rest(s, t) /\ Tracks(t) /\ Frames(t) \subseteq Frames(s)

LEMMA KeptTransitive ==
  ASSUME NEW s, NEW t, NEW u, Kept(s, t), Kept(t, u)
  PROVE  Kept(s, u)
  BY Zenon DEF Kept, Rest

(* A change of other fields only.                                              *)
Untouched(s, t) ==
  Rest(s, t) /\ t.queue = s.queue /\ t.sent = s.sent /\ t.lost = s.lost /\ t.credit = s.credit

LEMMA UntouchedKept ==
  ASSUME NEW s, NEW t, Tracks(s), Untouched(s, t)
  PROVE  Kept(s, t)
  BY Zenon DEF Kept, Untouched, Rest, Tracks, Frames

LEMMA TimerKept ==
  ASSUME NEW s, DOMAIN s = Fields, Tracks(s)
  PROVE  Kept(s, update_loss_timer(s))
<1>1. Untouched(s, update_loss_timer(s))
  BY Zenon DEF update_loss_timer, Untouched, Rest, Fields
<1> QED BY <1>1, UntouchedKept, Zenon

(* Frames are taken out of flight, and some of them are queued again.          *)
LEMMA TakenKept ==
  ASSUME NEW s, NEW t, Tracks(s), Rest(s, t), NEW F, t.sent = Without(s.sent, F),
         t.lost = s.lost \ F, t.credit = s.credit, t.queue \subseteq s.queue \cup Range(s.sent)
  PROVE  Kept(s, t)
<1>1. Row(t.sent) /\ Range(t.sent) = Range(s.sent) \ F
  BY WithoutRow DEF Tracks
<1>2. Range(s.sent) \subseteq Range(Order)
  BY Places, Zenon DEF Tracks
<1> QED BY <1>1, <1>2, Zenon DEF Kept, Tracks, Frames, Rest

LEMMA MarkKept ==
  ASSUME NEW s, DOMAIN s = Fields, Tracks(s), NEW F, F \subseteq Range(s.sent), NEW aged
  PROVE  Kept(s, retransmit_mark(s, F, aged))
<1>1. CASE aged
  <2> DEFINE t == [s EXCEPT !.sent = Without(@, F), !.lost = @ \ F, !.queue = @ \cup F]
  <2>1. /\ Rest(s, t) /\ t.sent = Without(s.sent, F) /\ t.lost = s.lost \ F /\ t.credit = s.credit
        /\ t.queue = s.queue \cup F
    BY Zenon DEF Rest, Fields
  <2> HIDE DEF t
  <2>2. Kept(s, t)
    BY <2>1, TakenKept, Zenon
  <2> QED BY <1>1, <2>2, Zenon DEF retransmit_mark, t
<1>2. CASE ~aged
  <2> DEFINE t == [s EXCEPT !.lost = @ \cup F]
  <2>1. /\ Rest(s, t) /\ t.sent = s.sent /\ t.lost = s.lost \cup F /\ t.credit = s.credit
        /\ t.queue = s.queue
    BY Zenon DEF Rest, Fields
  <2> HIDE DEF t
  <2>2. Kept(s, t)
    BY <2>1, Zenon DEF Kept, Rest, Tracks, Frames
  <2> QED BY <1>2, <2>2, Zenon DEF retransmit_mark, t
<1> QED BY <1>1, <1>2, Zenon

LEMMA DiscardKept ==
  ASSUME NEW s, DOMAIN s = Fields, Tracks(s), NEW l
  PROVE  Kept(s, Discard(s, l))
<1> DEFINE F == At(Range(s.sent), l)
           t == [s EXCEPT !.sent = Without(@, F), !.lost = @ \ F]
<1>1. /\ Rest(s, t) /\ t.sent = Without(s.sent, F) /\ t.lost = s.lost \ F /\ t.credit = s.credit
      /\ t.queue = s.queue
  BY Zenon DEF Rest, Fields
<1> HIDE DEF t, F
<1>2. Kept(s, t)
  BY <1>1, TakenKept, Zenon
<1> QED BY <1>2, Zenon DEF Discard, t, F

(* quic_packet_pack_frames, of frames that the limit lets through.             *)
LEMMA PackedKept ==
  \A e, s, F, owed :
    /\ DOMAIN s = Fields /\ Tracks(s) /\ F \subseteq s.queue \cup Range(s.sent)
    /\ \A f \in F : LevelOf(f) \in s.tx
    /\ e # "client" /\ ~s.validated => Cardinality(F) \in Nat /\ Cardinality(F) <= s.credit
    => Kept(s, Packed(e, s, F, owed))
<1>RowOne.
  ASSUME NEW f
  PROVE  Row(<<f>>) /\ Range(<<f>>) = {f}
  <2> USE <1>RowOne
  <2>1. <<f>> \in Seq({f}) /\ DOMAIN <<f>> = {1} /\ <<f>>[1] = f
    OBVIOUS
  <2> QED BY <2>1, Zenon DEF Row, IsSeq, Range
<1>RowConcat.
  ASSUME NEW q, NEW r, Row(q), Row(r), Range(q) \cap Range(r) = {}
  PROVE  Row(q \o r) /\ Range(q \o r) = Range(q) \cup Range(r)
  <2> USE <1>RowConcat
  <2> DEFINE c == q \o r
  <2>1. /\ Len(q) \in Nat /\ DOMAIN q = 1 .. Len(q) /\ Len(r) \in Nat /\ DOMAIN r = 1 .. Len(r)
    BY SeqParts, Zenon DEF Row
  <2>2. PICK S, T : q \in Seq(S) /\ r \in Seq(T)
    BY Zenon DEF Row, IsSeq
  <2>3. q \in Seq(S \cup T) /\ r \in Seq(S \cup T)
    BY <2>2
  <2>4. c \in Seq(S \cup T) /\ Len(c) = Len(q) + Len(r)
    BY <2>3
  <2>5. \A i \in 1 .. Len(q) + Len(r) : c[i] = IF i <= Len(q) THEN q[i] ELSE r[i - Len(q)]
    BY <2>3
  <2>6. DOMAIN c = 1 .. Len(q) + Len(r) /\ IsSeq(c)
    BY <2>1, <2>4 DEF IsSeq
  <2> HIDE DEF c
  <2>7. \A i \in DOMAIN c : \/ i \in DOMAIN q /\ c[i] = q[i]
                            \/ i - Len(q) \in DOMAIN r /\ i \notin DOMAIN q /\ c[i] = r[i - Len(q)]
    BY <2>1, <2>5, <2>6
  <2>8. \A i \in DOMAIN q : i \in DOMAIN c /\ c[i] = q[i]
    BY <2>1, <2>5, <2>6
  <2>9. \A i \in DOMAIN r : i + Len(q) \in DOMAIN c /\ c[i + Len(q)] = r[i]
    BY <2>1, <2>5, <2>6
  <2>10. Range(c) = Range(q) \cup Range(r)
    BY <2>7, <2>8, <2>9 DEF Range
  <2>11. ASSUME NEW i \in DOMAIN c, NEW j \in DOMAIN c, c[i] = c[j]
         PROVE  i = j
    <3>1. \A x \in DOMAIN q, y \in DOMAIN r : q[x] # r[y]
      BY Zenon DEF Range
    <3>2. CASE i \in DOMAIN q /\ j \in DOMAIN q
      BY <2>8, <2>11, <3>2, Zenon DEF Row
    <3>3. CASE i \notin DOMAIN q /\ j \notin DOMAIN q
      <4>1. i - Len(q) = j - Len(q)
        BY <2>7, <2>11, <3>3, Zenon DEF Row
      <4> QED BY <2>1, <2>6, <4>1
    <3> QED BY <2>7, <2>11, <3>1, <3>2, <3>3, Zenon
  <2>12. Row(c)
    BY <2>6, <2>11, Zenon DEF Row
  <2> QED BY <2>10, <2>12, Zenon DEF c
(* InOrder makes a row of the frames it is given.                              *)
<1>InOrderRow.
  ASSUME NEW F, F \subseteq Names
  PROVE  Row(InOrder(F)) /\ Range(InOrder(F)) = F
  <2> USE <1>InOrderRow
  <2> DEFINE If(f) == IF f \in F THEN <<f>> ELSE <<>>
             q1 == If("CH") \o If("SH")
             q2 == q1 \o If("CERT")
             q3 == q2 \o If("SFIN")
             q4 == q3 \o If("FIN")
             q5 == q4 \o If("DONE")
             q6 == q5 \o If("CIDS")
  <2>1. InOrder(F) = q6
    BY Zenon DEF InOrder
  <2>2. \A f : Row(If(f)) /\ Range(If(f)) = F \cap {f}
    BY RowEmpty, <1>RowOne, Zenon
  <2> HIDE DEF If
  <2>3. Row(q1) /\ Range(q1) = F \cap {"CH", "SH"}
    BY <2>2, <1>RowConcat
  <2> HIDE DEF q1
  <2>4. Row(q2) /\ Range(q2) = F \cap {"CH", "SH", "CERT"}
    BY <2>2, <2>3, <1>RowConcat
  <2> HIDE DEF q2
  <2>5. Row(q3) /\ Range(q3) = F \cap {"CH", "SH", "CERT", "SFIN"}
    BY <2>2, <2>4, <1>RowConcat
  <2> HIDE DEF q3
  <2>6. Row(q4) /\ Range(q4) = F \cap {"CH", "SH", "CERT", "SFIN", "FIN"}
    BY <2>2, <2>5, <1>RowConcat
  <2> HIDE DEF q4
  <2>7. Row(q5) /\ Range(q5) = F \cap {"CH", "SH", "CERT", "SFIN", "FIN", "DONE"}
    BY <2>2, <2>6, <1>RowConcat
  <2> HIDE DEF q5
  <2>8. Row(q6) /\ Range(q6) = F \cap {"CH", "SH", "CERT", "SFIN", "FIN", "DONE", "CIDS"}
    BY <2>2, <2>7, <1>RowConcat
  <2> HIDE DEF q6
  <2>9. F \cap {"CH", "SH", "CERT", "SFIN", "FIN", "DONE", "CIDS"} = F
    BY Zenon DEF Names
  <2> QED BY <2>1, <2>8, <2>9, Zenon
<1> SUFFICES ASSUME NEW e, NEW s, DOMAIN s = Fields, Tracks(s), NEW F, NEW owed,
                    F \subseteq s.queue \cup Range(s.sent), \A f \in F : LevelOf(f) \in s.tx,
                    e # "client" /\ ~s.validated => Cardinality(F) \in Nat /\ Cardinality(F) <= s.credit
             PROVE  Kept(s, Packed(e, s, F, owed))
  BY Zenon
<1> DEFINE tracked == F \cap Names
           long == {f \in F : LevelOf(f) # "app"}
           p == [s EXCEPT !.sent = Without(@, tracked) \o InOrder(tracked),
                          !.lost = @ \ tracked,
                          !.queue = @ \ F,
                          !.need_sack = @ \ owed,
                          !.recent = IF long = {} THEN @
                                     ELSE IF At(long, "handshake") = {} THEN "initial" ELSE "handshake",
                          !.credit = IF e # "client" /\ ~s.validated THEN @ - Cardinality(F) ELSE @]
<1>1. Packed(e, s, F, owed) = IF tracked = {} THEN p ELSE update_loss_timer(p)
  BY Zenon DEF Packed
<1>2. tracked \subseteq Names /\ tracked \subseteq F
  BY Zenon
<1> HIDE DEF tracked, long
<1>3. /\ Rest(s, p) /\ p.sent = Without(s.sent, tracked) \o InOrder(tracked)
      /\ p.lost = s.lost \ tracked /\ p.queue = s.queue \ F
      /\ p.credit = IF e # "client" /\ ~s.validated THEN s.credit - Cardinality(F) ELSE s.credit
  BY Zenon DEF Rest, Fields
<1> HIDE DEF p
<1>4. Row(p.sent) /\ Range(p.sent) = (Range(s.sent) \ tracked) \cup tracked
  <2>1. Row(Without(s.sent, tracked)) /\ Range(Without(s.sent, tracked)) = Range(s.sent) \ tracked
    BY WithoutRow, Zenon DEF Tracks
  <2>2. Row(InOrder(tracked)) /\ Range(InOrder(tracked)) = tracked
    BY <1>2, <1>InOrderRow, Zenon
  <2> QED BY <1>3, <2>1, <2>2, <1>RowConcat
<1>5. p.credit \in 0 .. MaxCredit
  <2>1. s.credit \in 0 .. MaxCredit
    BY Zenon DEF Tracks
  <2>2. CASE e # "client" /\ ~s.validated
    <3>1. p.credit = s.credit - Cardinality(F)
      BY <1>3, <2>2, Zenon
    <3>2. Cardinality(F) \in Nat /\ Cardinality(F) <= s.credit
      BY <2>2, Zenon
    <3> QED BY <2>1, <3>1, <3>2, BoundsAssumption
  <2>3. CASE ~(e # "client" /\ ~s.validated)
    BY <1>3, <2>1, <2>3, Zenon
  <2> QED BY <2>2, <2>3, Zenon
<1>6. p.tx = s.tx
  BY <1>3, Zenon DEF Rest
<1>7. Kept(s, p)
  <2>1. Tracks(p)
    BY <1>2, <1>3, <1>4, <1>5, <1>6, Zenon DEF Tracks
  <2>2. Frames(p) \subseteq Frames(s)
    BY <1>2, <1>3, <1>4, Zenon DEF Frames
  <2> QED BY <1>3, <2>1, <2>2, Zenon DEF Kept
<1>8. Kept(p, update_loss_timer(p))
  BY <1>7, TimerKept, Zenon DEF Kept, Rest
<1> QED BY <1>1, <1>7, <1>8, KeptTransitive

(* The limit lets no more through than there is credit for.                    *)
LEMMA AllowedBound ==
  \A e, s, F : Tracks(s) /\ F \subseteq Range(Order) =>
    LET n == Allowed(e, s, Cardinality(F))
    IN  e # "client" /\ ~s.validated =>
          Cardinality(First(F, n)) \in Nat /\ Cardinality(First(F, n)) <= s.credit
(* Among the first n frames of a queue are at most n.                          *)
<1>FirstBound.
  ASSUME NEW F, F \subseteq Range(Order), NEW n \in Nat
  PROVE  Cardinality(First(F, n)) \in Nat /\ Cardinality(First(F, n)) <= n
  <2> USE <1>FirstBound
  <2> DEFINE G == First(F, n)
  <2>1. IsFiniteSet(F) /\ G \subseteq F /\ IsFiniteSet(G)
    <3>1. G \subseteq F
      BY Zenon DEF First
    <3> QED BY <3>1, Places, FS_Subset, Zenon
  <2>2. Cardinality(G) \in Nat
    BY <2>1, FS_CardinalityType, Zenon
  <2>3. CASE G = {}
    BY <2>2, <2>3, FS_EmptySet
  <2>4. CASE G # {}
    <3> DEFINE D == {10 - Place[g] : g \in G}
    <3>1. D \subseteq Nat /\ D # {}
      BY <2>1, <2>4, Places
    <3>2. PICK d \in D : \A y \in D : d <= y
      BY <3>1, LeastNat, Zenon
    <3>3. PICK g \in G : d = 10 - Place[g]
      BY <3>2, Zenon
    <3>4. \A h \in G : 10 - Place[g] <= 10 - Place[h]
      BY <3>2, <3>3, Zenon
    <3>5. \A h \in G \ {g} : Place[h] < Place[g]
      BY <2>1, <3>3, <3>4, Places
    <3>6. G \ {g} \subseteq Ahead(F, g)
      BY <2>1, <3>5, Zenon DEF Ahead
    <3>7. Cardinality(Ahead(F, g)) < n
      BY <3>3, Zenon DEF First
    <3>8. IsFiniteSet(Ahead(F, g)) /\ Cardinality(Ahead(F, g)) \in Nat
      <4>1. Ahead(F, g) \subseteq F
        BY Zenon DEF Ahead
      <4> QED BY <2>1, <4>1, FS_Subset, FS_CardinalityType, Zenon
    <3>9. Cardinality(G \ {g}) \in Nat /\ Cardinality(G \ {g}) <= Cardinality(Ahead(F, g))
      BY <3>6, <3>8, FS_Subset, FS_CardinalityType, Zenon
    <3>10. Cardinality(G \ {g}) = Cardinality(G) - 1
      BY <2>1, <3>3, FS_RemoveElement, Zenon
    <3> HIDE DEF G
    <3>11. Cardinality(G) <= n
      BY <2>2, <3>7, <3>8, <3>9, <3>10
    <3> QED BY <2>2, <3>11, Zenon DEF G
  <2> QED BY <2>2, <2>3, <2>4, Zenon
<1> SUFFICES ASSUME NEW e, NEW s, Tracks(s), NEW F, F \subseteq Range(Order)
             PROVE  LET n == Allowed(e, s, Cardinality(F))
                    IN  e # "client" /\ ~s.validated =>
                          Cardinality(First(F, n)) \in Nat /\ Cardinality(First(F, n)) <= s.credit
  BY Zenon
<1> DEFINE n == Allowed(e, s, Cardinality(F))
<1> SUFFICES ASSUME e # "client", ~s.validated
             PROVE  Cardinality(First(F, n)) \in Nat /\ Cardinality(First(F, n)) <= s.credit
  BY Zenon
<1>1. Cardinality(F) \in Nat
  BY Places, FS_Subset, FS_CardinalityType, Zenon
<1>2. s.credit \in Nat
  BY BoundsAssumption DEF Tracks
<1>3. n = IF s.credit < Cardinality(F) THEN s.credit ELSE Cardinality(F)
  BY Zenon DEF Allowed
<1>4. n \in Nat /\ n <= s.credit
  BY <1>1, <1>2, <1>3
<1> HIDE DEF n
<1>5. Cardinality(First(F, n)) \in Nat /\ Cardinality(First(F, n)) <= n
  BY <1>4, <1>FirstBound, Zenon
<1> QED BY <1>2, <1>4, <1>5

(* The packets that leave: at levels with a send key, with a message of this   *)
(* socket, a PING or nothing.                                                  *)
Pings == Range(Order) \ Names
AckFrames == [level : Range(Levels), frames : SUBSET Names]
OutShown(e, s, out) ==
  \A q \in out : \E l \in s.tx, f \in Frames(s) \cup Pings \cup {None}, acks \in SUBSET AckFrames :
    /\ q = Packet(e, s, l, f, acks) /\ l \in PacketLevels
    /\ f # None => l = LevelOf(f)

LEMMA SentShown ==
  ASSUME NEW e, NEW s, Tracks(s), s.got \subseteq Names, NEW F, NEW owed,
         F \subseteq s.queue \cup Range(s.sent), \A f \in F : LevelOf(f) \in s.tx,
         owed \subseteq s.tx \cap PacketLevels
  PROVE  OutShown(e, s, Sent(e, s, F, owed))
<1> DEFINE Ack(l) == IF l \in owed THEN {[level |-> l, frames |-> At(s.got, l)]} ELSE {}
           Leads(f) == \A g \in Ahead(F, f) : LevelOf(g) # LevelOf(f)
<1>1. Range(Levels) = PacketLevels
  <2>1. DOMAIN Levels = {1, 2, 3} /\ Levels[1] = "initial" /\ Levels[2] = "handshake" /\ Levels[3] = "app"
    BY DEF Levels
  <2> QED BY <2>1, Zenon DEF Range, PacketLevels
<1>2. \A l : Ack(l) \in SUBSET AckFrames
  <2>1. \A l \in owed : At(s.got, l) \in SUBSET Names /\ l \in Range(Levels)
    BY <1>1, Zenon DEF At
  <2>2. \A l \in owed : [level |-> l, frames |-> At(s.got, l)] \in AckFrames
    BY <2>1, Zenon DEF AckFrames
  <2> QED BY <2>2, Zenon
<1>3. F \subseteq Frames(s) \cup Pings
  BY Places, Zenon DEF Frames, Pings, Tracks
<1> HIDE DEF Ack
<1> SUFFICES ASSUME NEW q \in Sent(e, s, F, owed)
             PROVE  \E l \in s.tx, f \in Frames(s) \cup Pings \cup {None}, acks \in SUBSET AckFrames :
                      /\ q = Packet(e, s, l, f, acks) /\ l \in PacketLevels
                      /\ f # None => l = LevelOf(f)
  BY Zenon DEF OutShown
<1>4. CASE \E f \in F : q = Packet(e, s, LevelOf(f), f, IF Leads(f) THEN Ack(LevelOf(f)) ELSE {})
  <2>1. PICK f \in F : q = Packet(e, s, LevelOf(f), f, IF Leads(f) THEN Ack(LevelOf(f)) ELSE {})
    BY <1>4, Zenon
  <2> DEFINE a == IF Leads(f) THEN Ack(LevelOf(f)) ELSE {}
  <2>2. a \in SUBSET AckFrames
    BY <1>2, Zenon
  <2> HIDE DEF a
  <2>3. LevelOf(f) \in s.tx /\ LevelOf(f) \in PacketLevels /\ f \in Frames(s) \cup Pings
    BY <1>3, LevelTypes, Zenon
  <2> QED BY <2>1, <2>2, <2>3, Zenon DEF a
<1>5. CASE \E l \in owed : q = Packet(e, s, l, None, Ack(l))
  BY <1>2, <1>5, Zenon
<1>6. \/ \E f \in F : q = Packet(e, s, LevelOf(f), f, IF Leads(f) THEN Ack(LevelOf(f)) ELSE {})
      \/ \E l \in owed : q = Packet(e, s, l, None, Ack(l))
  BY Zenon DEF Sent, Ack
<1> QED BY <1>4, <1>5, <1>6, Zenon

(* Sending keeps the state of the session.                                     *)
Shows(e, s, r) == Kept(s, r.s) /\ OutShown(e, s, r.out)

LEMMA TransmitShows ==
  ASSUME NEW e, NEW s, DOMAIN s = Fields, s.need_sack \subseteq PacketLevels, Tracks(s),
         s.got \subseteq Names, NEW filling
  PROVE  Shows(e, s, transmit(e, s, filling))
<1> DEFINE R == Ready(s)
           n == Allowed(e, s, Cardinality(R))
           F == First(R, n)
           owed == s.need_sack \cap s.tx
           hit == n < Cardinality(R)
           b == [s EXCEPT !.blocked = @ \/ (hit /\ filling)]
           p == Packed(e, b, F, owed)
           q == [p EXCEPT !.blocked = @ \/ hit]
           out == Sent(e, s, F, owed)
<1>1. transmit(e, s, filling) = [s |-> q, out |-> out]
  BY Zenon DEF transmit
<1>2. /\ F \subseteq s.queue /\ R \subseteq Range(Order)
      /\ \A f \in F : LevelOf(f) \in s.tx
  BY Zenon DEF First, Ready, Tracks
<1>3. e # "client" /\ ~s.validated => Cardinality(F) \in Nat /\ Cardinality(F) <= s.credit
  BY <1>2, AllowedBound, Zenon
<1>4. owed \subseteq s.tx \cap PacketLevels
  BY Zenon
<1> HIDE DEF F, owed, hit, n, R
<1>5. OutShown(e, s, out)
  BY <1>2, <1>4, SentShown, Zenon
<1>6. Untouched(s, b)
  BY Zenon DEF Untouched, Rest, Fields
<1> HIDE DEF b
<1>7. Kept(s, b)
  BY <1>6, UntouchedKept, Zenon
<1>8. Kept(b, p)
  <2>1. /\ DOMAIN b = Fields /\ Tracks(b) /\ F \subseteq b.queue \cup Range(b.sent)
        /\ \A f \in F : LevelOf(f) \in b.tx
        /\ b.credit = s.credit /\ b.validated = s.validated
    BY <1>2, <1>6, <1>7, Zenon DEF Untouched, Rest, Kept
  <2> QED BY <1>3, <2>1, PackedKept, Zenon
<1> HIDE DEF p
<1>9. Untouched(p, q)
  BY <1>8, Zenon DEF Untouched, Kept, Rest, Fields
<1> HIDE DEF q
<1>10. Kept(p, q)
  BY <1>8, <1>9, UntouchedKept, Zenon DEF Kept
<1>11. Kept(s, q)
  BY <1>7, <1>8, <1>10, KeptTransitive, Zenon
<1> HIDE DEF out
<1> QED BY <1>1, <1>5, <1>11 DEF Shows

(* The same packets, sent by a socket that differs in other fields.            *)
LEMMA OutMoves ==
  ASSUME NEW e, NEW s, NEW t, Rest(s, t), t.dest = s.dest, Frames(t) \subseteq Frames(s),
         NEW out, OutShown(e, t, out)
  PROVE  OutShown(e, s, out)
<1>1. \A l, f, acks : Packet(e, t, l, f, acks) = Packet(e, s, l, f, acks)
  BY Zenon DEF Packet, Rest
<1>2. t.tx = s.tx
  BY Zenon DEF Rest
<1> SUFFICES ASSUME NEW q \in out
             PROVE  \E l \in s.tx, f \in Frames(s) \cup Pings \cup {None}, acks \in SUBSET AckFrames :
                      /\ q = Packet(e, s, l, f, acks) /\ l \in PacketLevels
                      /\ f # None => l = LevelOf(f)
  BY Zenon DEF OutShown
<1>3. PICK l \in t.tx, f \in Frames(t) \cup Pings \cup {None}, acks \in SUBSET AckFrames :
        /\ q = Packet(e, t, l, f, acks) /\ l \in PacketLevels
        /\ f # None => l = LevelOf(f)
  BY Zenon DEF OutShown
<1>4. f \in Frames(s) \cup Pings \cup {None}
  BY <1>3, Zenon
<1> QED BY <1>1, <1>2, <1>3, <1>4

(* The socket as the last key finds it, with what it is about to queue.        *)
Ended(e, s) ==
  [s EXCEPT !.state = "established",
            !.queue = @ \cup {IF e = "client" THEN "CIDS" ELSE "DONE"}]

-------------------------------------------------------------------------------
(* The session: what the two ends know of each other                           *)

(* What the client, in state c, must have done to send packet p to the server. *)
Shown(p, c) ==
  /\ p \in Packets
  /\ p.level # "initial" => p.key = c.peer /\ c.peer \in Servers
  /\ p.level = "handshake" => "handshake" \in c.tx
  /\ p.frame # "SH" /\ (p.frame = "FIN" => p.level = "handshake" /\ c.state = "established")

Typed(s) ==
  /\ s.state \in {"closed", "establishing", "established"} /\ s.read \in Nat
  /\ s.got \subseteq Names /\ s.token \in Retries \cup {None}
  /\ s.ikey \in Socks \cup {None} /\ s.peer \in Socks \cup {None}
  /\ s.state # "closed" => s.dest \in {"first", "own"} \X Socks
  /\ \A i \in DOMAIN s.backlog : s.backlog[i] \in Packets

(* The client knows its peer, and has keys, once it has the ServerHello, and   *)
(* makes a Finished message when it has all keys.                              *)
ClientCore(c) ==
  /\ c.peer \in Servers \cup {None} /\ ("SH" \in c.got <=> c.peer # None)
  /\ "handshake" \in c.tx \/ "app" \in c.tx => "SH" \in c.got
  /\ c.read # 0 => "SH" \in c.got
  /\ "SH" \notin Frames(c) /\ ("FIN" \in Frames(c) => c.state = "established")

ServerCore(e, s, c) ==
  /\ s.state # "closed" => s.peer = e
  /\ s.validated => c.peer = e /\ "handshake" \in c.tx
  /\ "FIN" \in s.got => c.peer = e /\ c.state = "established" /\ s.validated
  /\ "app" \in s.rx \/ s.state = "established" => "FIN" \in s.got
  /\ \A i \in DOMAIN s.backlog : Shown(s.backlog[i], c)

Core(e, s, c) ==
  Tracks(s) /\ Typed(s) /\ IF e = "client" THEN ClientCore(s) ELSE ServerCore(e, s, c)

(* The client goes on and forgets nothing it has proved.                       *)
Later(c, d) ==
  /\ c.peer # None => d.peer = c.peer
  /\ c.tx \subseteq d.tx
  /\ c.state = "established" => d.state = "established"

LEMMA LaterKeeps ==
  ASSUME NEW c, NEW d, Later(c, d)
  PROVE  /\ \A p : Shown(p, c) => Shown(p, d)
         /\ \A e, s : e # "client" /\ e # None /\ Core(e, s, c) => Core(e, s, d)
<1>1. None \notin Servers
  BY RetryAssumption, Zenon DEF None, Servers
<1>2. \A p : Shown(p, c) => Shown(p, d)
  BY <1>1, Zenon DEF Shown, Later
<1>3. ASSUME NEW e, NEW s, e # "client", e # None, ServerCore(e, s, c)
      PROVE  ServerCore(e, s, d)
  BY <1>2, <1>3, Zenon DEF ServerCore, Later
<1>4. ASSUME NEW e, NEW s, e # "client", e # None, Core(e, s, c)
      PROVE  Core(e, s, d)
  BY <1>3, <1>4, Zenon DEF Core
<1> QED BY <1>2, <1>4, Zenon

(* A packet that its keys open: what quic_packet_process changes.              *)
Opens(e, s, p, t) ==
  /\ DOMAIN t = Fields /\ Tracks(t) /\ Frames(t) \subseteq Frames(s)
  /\ t.state = s.state /\ t.tx = s.tx /\ t.rx = s.rx /\ t.todo = s.todo /\ t.read = s.read
  /\ t.ikey = s.ikey /\ t.token = s.token /\ t.backlog = s.backlog
  /\ t.got = s.got \cup (Names \cap {p.frame})
  /\ t.peer = IF p.frame = "SH" /\ "SH" \notin s.got THEN p.from ELSE s.peer
  /\ t.validated <=> s.validated \/ p.level = "handshake"
  /\ t.dest = s.dest \/ (e = "client" /\ t.dest = <<"own", p.from>>)

(* What a packet leaves alone.                                                 *)
Grown(e, s, t) ==
  /\ t.tx = s.tx /\ t.rx = s.rx /\ t.state = s.state /\ t.todo = s.todo /\ t.read = s.read
  /\ s.got \subseteq t.got /\ (e = "client" => Later(s, t))

(* A packet that the client was entitled to send leaves the server entitled to *)
(* what it believes.                                                           *)
Arrives(e, p, c) ==
  /\ p \in Packets /\ p.level \in PacketLevels
  /\ IF e = "client" THEN p.from \in Servers ELSE Shown(p, c)

LEMMA ProcessCore ==
  \A e, s, c, p, aged :
    /\ Core(e, s, c) /\ s.state # "closed" /\ (e = "client" \/ e \in Servers)
    /\ DOMAIN s = Fields /\ IsSeq(s.backlog) /\ Arrives(e, p, c)
    => LET t == process(e, s, p, aged) IN Core(e, t, c) /\ Grown(e, s, t)
<1>ProcessOpens.
  \A e, s, p, aged :
    /\ DOMAIN s = Fields /\ Tracks(s)
    /\ p.level \in s.rx /\ p.key = KeyOf(s, p.level) /\ p.level \in PacketLevels
    => Opens(e, s, p, process(e, s, p, aged))
  <2>FrameOpens.
    \A s, p, aged : DOMAIN s = Fields /\ Tracks(s) =>
      LET t == frame_process(s, p, aged)
      IN  /\ Same(s, t) /\ Tracks(t) /\ Frames(t) \subseteq Frames(s)
          /\ t.tx = s.tx /\ t.read = s.read /\ t.ikey = s.ikey /\ t.token = s.token
          /\ t.got = s.got \cup (Names \cap {p.frame}) /\ t.validated = s.validated
          /\ t.peer = IF p.frame = "SH" /\ "SH" \notin s.got THEN p.from ELSE s.peer
    <3>AckedKept.
      ASSUME NEW s, DOMAIN s = Fields, Tracks(s), NEW a, NEW aged
      PROVE  Kept(s, Acked(s, a, aged))
      <4> USE <3>AckedKept
      <4> DEFINE hit == {i \in DOMAIN s.sent : s.sent[i] \in a.frames}
                 older == {s.sent[j] : j \in {j \in DOMAIN s.sent :
                             /\ LevelOf(s.sent[j]) = a.level /\ s.sent[j] \notin a.frames
                             /\ \E i \in hit : j < i}}
                 d == [s EXCEPT !.sent = Without(@, a.frames), !.lost = @ \ a.frames]
                 F == older \cup At(d.lost, a.level)
      <4>1. Acked(s, a, aged) = retransmit_mark(d, F, aged)
        BY Zenon DEF Acked
      <4>2. /\ Rest(s, d) /\ d.sent = Without(s.sent, a.frames) /\ d.lost = s.lost \ a.frames
            /\ d.credit = s.credit /\ d.queue = s.queue
        BY Zenon DEF Rest, Fields
      <4>3. older \subseteq Range(s.sent) \ a.frames
        BY Zenon DEF Range
      <4> HIDE DEF d, older, hit
      <4>4. Kept(s, d)
        BY <4>2, TakenKept, Zenon
      <4>5. F \subseteq Range(d.sent)
        <5>1. Range(d.sent) = Range(s.sent) \ a.frames
          BY <4>2, WithoutRow, ZenonT(30) DEF Tracks
        <5>2. At(d.lost, a.level) \subseteq d.lost
          BY Zenon DEF At
        <5> QED BY <4>3, <4>4, <5>1, <5>2, Zenon DEF Kept, Tracks
      <4> HIDE DEF F
      <4>6. Kept(d, retransmit_mark(d, F, aged))
        BY <4>4, <4>5, MarkKept, Zenon DEF Kept, Rest
      <4> QED BY <4>1, <4>4, <4>6, KeptTransitive, Zenon
    <3> SUFFICES ASSUME NEW s, DOMAIN s = Fields, Tracks(s), NEW p, NEW aged
                 PROVE  LET t == frame_process(s, p, aged)
                        IN  /\ Same(s, t) /\ Tracks(t) /\ Frames(t) \subseteq Frames(s)
                            /\ t.tx = s.tx /\ t.read = s.read /\ t.ikey = s.ikey /\ t.token = s.token
                            /\ t.got = s.got \cup (Names \cap {p.frame}) /\ t.validated = s.validated
                            /\ t.peer = IF p.frame = "SH" /\ "SH" \notin s.got THEN p.from ELSE s.peer
      OBVIOUS
    <3> DEFINE a == IF p.acks = {} THEN s ELSE Acked(s, CHOOSE x \in p.acks : TRUE, aged)
               g == IF p.frame \in Names THEN [a EXCEPT !.got = @ \cup {p.frame}] ELSE a
               f == IF p.frame = "SH" /\ "SH" \notin s.got THEN [g EXCEPT !.peer = p.from]
                    ELSE IF p.frame = "DONE" THEN Discard(g, "handshake") ELSE g
               t == frame_process(s, p, aged)
    <3>1. t = IF p.acks = {} THEN f ELSE update_loss_timer(f)
      BY Zenon DEF frame_process
    <3>2. Same(s, t)
      BY FrameSame, Zenon
    <3>3. Kept(s, a)
      <4>1. Kept(s, s)
        BY Zenon DEF Kept, Rest
      <4>2. \A x : Kept(s, Acked(s, x, aged))
        BY <3>AckedKept, Zenon
      <4> QED BY <4>1, <4>2, Zenon
    <3> HIDE DEF a, t
    <3>4. /\ DOMAIN g = Fields /\ g.tx = a.tx /\ g.read = a.read /\ g.ikey = a.ikey /\ g.token = a.token
          /\ g.peer = a.peer /\ g.validated = a.validated /\ g.queue = a.queue /\ g.sent = a.sent
          /\ g.lost = a.lost /\ g.credit = a.credit
          /\ g.got = a.got \cup (Names \cap {p.frame})
      BY <3>3, Zenon DEF Kept, Rest, Fields
    <3> HIDE DEF g
    <3>5. Tracks(g) /\ Frames(g) \subseteq Frames(s)
      BY <3>3, <3>4, Zenon DEF Kept, Tracks, Frames
    <3> DEFINE New == p.frame = "SH" /\ "SH" \notin s.got
    <3>6. /\ DOMAIN f = Fields /\ f.tx = g.tx /\ f.read = g.read /\ f.ikey = g.ikey /\ f.token = g.token
          /\ f.got = g.got /\ f.validated = g.validated /\ Tracks(f) /\ Frames(f) \subseteq Frames(g)
          /\ f.peer = IF New THEN p.from ELSE g.peer
      <4>1. CASE New
        <5> DEFINE h == [g EXCEPT !.peer = p.from]
        <5>1. /\ DOMAIN h = Fields /\ h.tx = g.tx /\ h.read = g.read /\ h.ikey = g.ikey
              /\ h.token = g.token /\ h.got = g.got /\ h.validated = g.validated /\ h.queue = g.queue
              /\ h.sent = g.sent /\ h.lost = g.lost /\ h.credit = g.credit /\ h.peer = p.from
          BY <3>4, Zenon DEF Fields
        <5>2. f = h
          BY <4>1, Zenon
        <5> HIDE DEF h, f
        <5>3. Tracks(h) /\ Frames(h) \subseteq Frames(g)
          BY <3>5, <5>1, Zenon DEF Tracks, Frames
        <5> QED BY <4>1, <5>1, <5>2, <5>3, Zenon
      <4>2. CASE ~New
        <5>1. f \in {Discard(g, "handshake"), g}
          BY <4>2, Zenon
        <5>2. Kept(g, Discard(g, "handshake")) /\ Kept(g, g)
          BY <3>4, <3>5, DiscardKept, ZenonT(30) DEF Kept, Rest
        <5> HIDE DEF f
        <5>3. Kept(g, f)
          BY <5>1, <5>2, Zenon
        <5> QED BY <4>2, <5>3, Zenon DEF Kept, Rest
      <4> QED BY <4>1, <4>2, Zenon
    <3> HIDE DEF f
    <3>7. Kept(f, update_loss_timer(f))
      BY <3>6, TimerKept, Zenon
    <3>8. Kept(f, f)
      BY <3>6, Zenon DEF Kept, Rest
    <3>9. Kept(f, t)
      BY <3>1, <3>7, <3>8, Zenon
    <3>10. s.got = a.got /\ s.peer = a.peer /\ s.validated = a.validated /\ s.tx = a.tx
           /\ s.read = a.read /\ s.ikey = a.ikey /\ s.token = a.token
      BY <3>3, Zenon DEF Kept, Rest
    <3>11. /\ t.got = f.got /\ t.peer = f.peer /\ t.validated = f.validated /\ t.tx = f.tx
           /\ t.read = f.read /\ t.ikey = f.ikey /\ t.token = f.token
           /\ Tracks(t) /\ Frames(t) \subseteq Frames(f)
      BY <3>9, Zenon DEF Kept, Rest
    <3>12. Frames(t) \subseteq Frames(s)
      BY <3>5, <3>6, <3>11, Zenon
    <3>13. /\ t.tx = s.tx /\ t.read = s.read /\ t.ikey = s.ikey /\ t.token = s.token
           /\ t.got = s.got \cup (Names \cap {p.frame}) /\ t.validated = s.validated
           /\ t.peer = IF p.frame = "SH" /\ "SH" \notin s.got THEN p.from ELSE s.peer
      BY <3>4, <3>6, <3>10, <3>11, Zenon
    <3> QED BY <3>2, <3>11, <3>12, <3>13, Zenon DEF t
  <2> SUFFICES ASSUME NEW e, NEW s, DOMAIN s = Fields, Tracks(s), NEW p, NEW aged,
                      p.level \in s.rx, p.key = KeyOf(s, p.level), p.level \in PacketLevels
               PROVE  Opens(e, s, p, process(e, s, p, aged))
    BY Zenon
  <2> DEFINE f == frame_process(s, p, aged)
             v == Validation(e, f, p)
             o == Owing(e, v, p)
             u == Unblocked(o, p)
  <2>1. process(e, s, p, aged) = u
    BY Zenon DEF process
  <2>2. /\ Same(s, f) /\ Tracks(f) /\ Frames(f) \subseteq Frames(s)
        /\ f.tx = s.tx /\ f.read = s.read /\ f.ikey = s.ikey /\ f.token = s.token
        /\ f.got = s.got \cup (Names \cap {p.frame}) /\ f.validated = s.validated
        /\ f.peer = IF p.frame = "SH" /\ "SH" \notin s.got THEN p.from ELSE s.peer
    BY <2>FrameOpens
  <2> HIDE DEF f
  <2> DEFINE Like(x, y) ==
               /\ DOMAIN y = Fields /\ Tracks(y) /\ Frames(y) \subseteq Frames(x)
               /\ y.state = x.state /\ y.tx = x.tx /\ y.rx = x.rx /\ y.todo = x.todo
               /\ y.read = x.read /\ y.ikey = x.ikey /\ y.token = x.token
               /\ y.backlog = x.backlog /\ y.got = x.got /\ y.peer = x.peer
  <2>3. \A x, y : Same(x, y) /\ Kept(x, y) => Like(x, y) /\ y.dest = x.dest /\ y.validated = x.validated
    BY Zenon DEF Same, Kept, Rest
  <2>4. Like(f, v) /\ v.dest = f.dest /\ (v.validated <=> f.validated \/ p.level = "handshake")
    <3>1. CASE f.validated \/ p.level = "app"
      <4>1. v = f
        BY <3>1, Zenon DEF Validation
      <4>2. Like(f, f)
        BY <2>2, Zenon DEF Same
      <4> HIDE DEF Like, v
      <4>3. p.level = "app" => p.level # "handshake"
        BY Zenon
      <4> QED BY <3>1, <4>1, <4>2, <4>3, Zenon
    <3>2. CASE ~f.validated /\ p.level = "handshake"
      <4> DEFINE w == [f EXCEPT !.validated = TRUE]
      <4>1. v = Discard(w, "initial")
        BY <3>2, Zenon DEF Validation
      <4>2. /\ Like(f, w) /\ w.dest = f.dest /\ w.validated = TRUE
        <5>1. /\ DOMAIN w = Fields /\ w.queue = f.queue /\ w.sent = f.sent /\ w.lost = f.lost
              /\ w.credit = f.credit /\ w.state = f.state /\ w.tx = f.tx /\ w.rx = f.rx
              /\ w.todo = f.todo /\ w.read = f.read /\ w.ikey = f.ikey /\ w.token = f.token
              /\ w.backlog = f.backlog /\ w.got = f.got /\ w.peer = f.peer
              /\ w.dest = f.dest /\ w.validated = TRUE
          BY <2>2, Zenon DEF Same, Fields
        <5> HIDE DEF w
        <5> QED BY <2>2, <5>1, Zenon DEF Tracks, Frames
      <4> HIDE DEF w, v
      <4>3. Same(w, v) /\ Kept(w, v)
        BY <4>1, <4>2, DiscardSame, DiscardKept, Zenon
      <4>4. Like(w, v) /\ v.dest = w.dest /\ v.validated = w.validated
        BY <2>3, <4>3, Zenon
      <4> QED BY <3>2, <4>2, <4>4, Zenon
    <3>3. CASE ~f.validated /\ p.level = "initial"
      <4> DEFINE c == IF e = "client" THEN f.credit ELSE Min({f.credit + Credit, MaxCredit})
                 w == [f EXCEPT !.credit = c]
      <4>1. v = w
        BY <3>3, Zenon DEF Validation
      <4>2. /\ DOMAIN w = Fields /\ w.queue = f.queue /\ w.sent = f.sent /\ w.lost = f.lost
            /\ w.credit = c /\ w.state = f.state /\ w.tx = f.tx /\ w.rx = f.rx
            /\ w.todo = f.todo /\ w.read = f.read /\ w.ikey = f.ikey /\ w.token = f.token
            /\ w.backlog = f.backlog /\ w.got = f.got /\ w.peer = f.peer
            /\ w.dest = f.dest /\ w.validated = f.validated
        BY <2>2, Zenon DEF Same, Fields
      <4>3. c \in 0 .. MaxCredit
        <5>1. f.credit \in 0 .. MaxCredit /\ MaxCredit \in Nat /\ Credit \in Nat
          BY <2>2, CreditAssumption, BoundsAssumption, Zenon DEF Tracks
        <5>2. \A a, b \in Nat : Min({a, b}) \in {a, b} /\ Min({a, b}) <= b
          <6> SUFFICES ASSUME NEW a \in Nat, NEW b \in Nat
                       PROVE  Min({a, b}) \in {a, b} /\ Min({a, b}) <= b
            BY Zenon
          <6>1. \E x \in {a, b} : \A y \in {a, b} : x <= y
            OBVIOUS
          <6>2. Min({a, b}) \in {a, b} /\ \A y \in {a, b} : Min({a, b}) <= y
            BY <6>1, Zenon DEF Min
          <6> QED BY <6>2, Zenon
        <5>3. f.credit + Credit \in Nat
          BY <5>1
        <5> QED BY <5>1, <5>2, <5>3
      <4> HIDE DEF c, w, v
      <4>4. Tracks(w) /\ Frames(w) \subseteq Frames(f)
        BY <2>2, <4>2, <4>3, Zenon DEF Tracks, Frames
      <4> QED BY <3>3, <4>1, <4>2, <4>4, Zenon
    <3> QED BY <3>1, <3>2, <3>3, Zenon DEF PacketLevels
  <2> HIDE DEF v
  <2>5. /\ Like(v, o) /\ o.validated = v.validated
        /\ o.dest = v.dest \/ (e = "client" /\ o.dest = <<"own", p.from>>)
    <3>1. /\ DOMAIN o = Fields /\ o.queue = v.queue /\ o.sent = v.sent /\ o.lost = v.lost
          /\ o.credit = v.credit /\ o.state = v.state /\ o.tx = v.tx /\ o.rx = v.rx
          /\ o.todo = v.todo /\ o.read = v.read /\ o.ikey = v.ikey /\ o.token = v.token
          /\ o.backlog = v.backlog /\ o.got = v.got /\ o.peer = v.peer /\ o.validated = v.validated
          /\ o.dest = v.dest \/ (e = "client" /\ o.dest = <<"own", p.from>>)
      BY <2>4, Zenon DEF Owing, Fields
    <3> HIDE DEF o
    <3> QED BY <2>4, <3>1, Zenon DEF Tracks, Frames
  <2> HIDE DEF o
  <2>6. Like(o, u) /\ u.dest = o.dest /\ u.validated = o.validated
    <3> DEFINE w == [o EXCEPT !.blocked = FALSE]
    <3>1. Same(o, w) /\ Untouched(o, w) /\ Same(o, o) /\ Untouched(o, o)
      BY <2>5, Zenon DEF Same, Untouched, Rest, Fields
    <3>2. u \in {o, update_loss_timer(w)}
      BY Zenon DEF Unblocked
    <3> HIDE DEF w, u
    <3>3. Kept(o, w) /\ Kept(o, o)
      BY <2>5, <3>1, UntouchedKept, Zenon
    <3>4. Same(w, update_loss_timer(w)) /\ Kept(w, update_loss_timer(w))
      BY <3>3, TimerSame, TimerKept, Zenon DEF Kept, Rest
    <3>5. Same(o, u) /\ Kept(o, u)
      BY <3>1, <3>2, <3>3, <3>4, SameTransitive, KeptTransitive
    <3> QED BY <2>3, <3>5, Zenon
  <2> HIDE DEF u
  <2>7. /\ Like(f, u) /\ (u.validated <=> f.validated \/ p.level = "handshake")
        /\ u.dest = f.dest \/ (e = "client" /\ u.dest = <<"own", p.from>>)
    BY <2>4, <2>5, <2>6, Zenon
  <2>8. f.state = s.state /\ f.rx = s.rx /\ f.todo = s.todo /\ f.backlog = s.backlog /\ f.dest = s.dest
    BY <2>2, Zenon DEF Same
  <2>9. u.validated <=> s.validated \/ p.level = "handshake"
    BY <2>2, <2>7, Zenon
  <2>10. u.dest = s.dest \/ (e = "client" /\ u.dest = <<"own", p.from>>)
    BY <2>7, <2>8, Zenon
  <2>11. /\ DOMAIN u = Fields /\ Tracks(u) /\ Frames(u) \subseteq Frames(s)
         /\ u.state = s.state /\ u.tx = s.tx /\ u.rx = s.rx /\ u.todo = s.todo /\ u.read = s.read
         /\ u.ikey = s.ikey /\ u.token = s.token /\ u.backlog = s.backlog
         /\ u.got = s.got \cup (Names \cap {p.frame})
         /\ u.peer = IF p.frame = "SH" /\ "SH" \notin s.got THEN p.from ELSE s.peer
    BY <2>2, <2>7, <2>8, Zenon
  <2>12. Opens(e, s, p, u)
    BY <2>9, <2>10, <2>11, Zenon DEF Opens
  <2> QED BY <2>1, <2>12, Zenon
<1>PutOffCore.
  ASSUME NEW e, NEW s, NEW c, Core(e, s, c), DOMAIN s = Fields, IsSeq(s.backlog),
         NEW p, Arrives(e, p, c)
  PROVE  LET t == [s EXCEPT !.backlog = IF Len(@) < BacklogMax THEN Append(@, p) ELSE @]
         IN  Core(e, t, c) /\ Grown(e, s, t)
  <2> USE <1>PutOffCore
  <2> DEFINE t == [s EXCEPT !.backlog = IF Len(@) < BacklogMax THEN Append(@, p) ELSE @]
  <2>1. /\ t.state = s.state /\ t.dest = s.dest /\ t.ikey = s.ikey /\ t.token = s.token
        /\ t.tx = s.tx /\ t.rx = s.rx /\ t.queue = s.queue /\ t.sent = s.sent /\ t.lost = s.lost
        /\ t.got = s.got /\ t.read = s.read /\ t.todo = s.todo /\ t.validated = s.validated
        /\ t.credit = s.credit /\ t.peer = s.peer
        /\ t.backlog = s.backlog \/ t.backlog = Append(s.backlog, p)
    BY Zenon DEF Fields
  <2> HIDE DEF t
  <2>2. /\ Len(s.backlog) \in Nat /\ DOMAIN s.backlog = 1 .. Len(s.backlog)
        /\ DOMAIN Append(s.backlog, p) = 1 .. Len(s.backlog) + 1
        /\ \A i \in 1 .. Len(s.backlog) + 1 :
             Append(s.backlog, p)[i] = IF i <= Len(s.backlog) THEN s.backlog[i] ELSE p
    BY Appended, SeqParts, Zenon
  <2>3. \A i \in DOMAIN t.backlog :
          t.backlog[i] = p \/ \E j \in DOMAIN s.backlog : t.backlog[i] = s.backlog[j]
    <3>1. CASE t.backlog = s.backlog
      BY <3>1, Zenon
    <3>2. CASE t.backlog = Append(s.backlog, p)
      BY <2>2, <3>2
    <3> QED BY <2>1, <3>1, <3>2, Zenon
  <2>4. Tracks(t) /\ Frames(t) = Frames(s)
    BY <2>1, Zenon DEF Core, Tracks, Frames
  <2>5. Typed(t)
    BY <2>1, <2>3, Zenon DEF Core, Typed, Arrives
  <2>6. e = "client" => ClientCore(t)
    BY <2>1, <2>4, Zenon DEF Core, ClientCore
  <2>7. e # "client" => ServerCore(e, t, c)
    BY <2>1, <2>3, Zenon DEF Core, ServerCore, Arrives
  <2>8. Core(e, t, c)
    BY <2>4, <2>5, <2>6, <2>7, Zenon DEF Core
  <2>9. Grown(e, s, t)
    BY <2>1, Zenon DEF Grown, Later
  <2> QED BY <2>8, <2>9, Zenon DEF t
<1>OpensCore.
  ASSUME NEW e, NEW s, NEW c, Core(e, s, c), s.state # "closed", e = "client" \/ e \in Servers,
         NEW p, Arrives(e, p, c), p.key = KeyOf(s, p.level), NEW t, Opens(e, s, p, t)
  PROVE  Core(e, t, c) /\ Grown(e, s, t)
  <2> USE <1>OpensCore
  <2>1. None \notin Servers /\ Servers \subseteq Socks /\ "client" \notin Servers
    BY RetryAssumption, Zenon DEF None, Servers, Socks
  <2>2. p.from \in Socks
    BY Zenon DEF Arrives, Packets
  <2>3. t.got = s.got \cup (Names \cap {p.frame}) /\ s.got \subseteq Names
    BY Zenon DEF Opens, Core, Typed
  <2>4. "SH" \in t.got <=> "SH" \in s.got \/ p.frame = "SH"
    BY <2>3, Zenon DEF Names
  <2>5. t.peer = IF p.frame = "SH" /\ "SH" \notin s.got THEN p.from ELSE s.peer
    BY Zenon DEF Opens
  <2>6. Typed(t)
    <3>1. t.peer \in Socks \cup {None}
      BY <2>2, <2>5, Zenon DEF Core, Typed
    <3>2. s.dest \in {"first", "own"} \X Socks /\ <<"own", p.from>> \in {"first", "own"} \X Socks
      BY <2>2, Zenon DEF Core, Typed
    <3>3. t.dest \in {"first", "own"} \X Socks
      BY <3>2, Zenon DEF Opens
    <3> QED BY <2>3, <3>1, <3>3, Zenon DEF Core, Typed, Opens
  <2>7. CASE e = "client"
    <3>1. p.from \in Servers /\ ClientCore(s)
      BY <2>7, Zenon DEF Arrives, Core
    <3>2. t.peer \in Servers \cup {None} /\ ("SH" \in t.got <=> t.peer # None)
      BY <2>1, <2>4, <2>5, <3>1, Zenon DEF ClientCore
    <3>3. ClientCore(t)
      BY <2>3, <3>1, <3>2, Zenon DEF ClientCore, Opens
    <3>4. Later(s, t)
      BY <2>5, <3>1, Zenon DEF Later, ClientCore, Opens
    <3> QED BY <2>3, <2>6, <2>7, <3>3, <3>4, Zenon DEF Core, Grown, Opens
  <2>8. CASE e # "client"
    <3>1. Shown(p, c) /\ ServerCore(e, s, c) /\ s.peer = e /\ e \in Servers
      BY <2>8, Zenon DEF Arrives, Core, ServerCore
    <3>2. p.level = "handshake" => c.peer = e /\ "handshake" \in c.tx
      BY <3>1, Zenon DEF Shown, KeyOf
    <3>3. t.peer = e
      BY <2>5, <3>1, Zenon DEF Shown
    <3>4. t.validated <=> s.validated \/ p.level = "handshake"
      BY Zenon DEF Opens
    <3>5. "FIN" \in t.got => "FIN" \in s.got \/ p.frame = "FIN"
      BY <2>3, Zenon
    <3>6. "FIN" \in t.got => c.peer = e /\ c.state = "established" /\ t.validated
      BY <3>1, <3>2, <3>4, <3>5, Zenon DEF Shown, ServerCore
    <3>7. t.validated => c.peer = e /\ "handshake" \in c.tx
      BY <3>1, <3>2, <3>4, Zenon DEF ServerCore
    <3>8. t.state = s.state /\ t.rx = s.rx /\ t.backlog = s.backlog
      BY Zenon DEF Opens
    <3>9. "app" \in t.rx \/ t.state = "established" => "FIN" \in t.got
      BY <2>3, <3>1, <3>8, Zenon DEF ServerCore
    <3>10. ServerCore(e, t, c)
      BY <3>1, <3>3, <3>6, <3>7, <3>8, <3>9, Zenon DEF ServerCore
    <3> QED BY <2>3, <2>6, <2>8, <3>10, Zenon DEF Core, Grown, Opens
  <2> QED BY <2>7, <2>8, Zenon
<1> SUFFICES ASSUME NEW e, NEW s, NEW c, Core(e, s, c), s.state # "closed", e = "client" \/ e \in Servers,
                    DOMAIN s = Fields, IsSeq(s.backlog), NEW p, Arrives(e, p, c), NEW aged
             PROVE  LET t == process(e, s, p, aged) IN Core(e, t, c) /\ Grown(e, s, t)
  BY Zenon
<1>1. CASE p.level \notin s.rx
  BY <1>1, <1>PutOffCore, Zenon DEF process
<1>2. CASE p.level \in s.rx /\ p.key # KeyOf(s, p.level)
  <2>1. process(e, s, p, aged) = s
    BY <1>2, Zenon DEF process
  <2>2. Grown(e, s, s)
    BY Zenon DEF Grown, Later
  <2> QED BY <2>1, <2>2, Zenon
<1>3. CASE p.level \in s.rx /\ p.key = KeyOf(s, p.level)
  <2>1. Opens(e, s, p, process(e, s, p, aged))
    BY <1>3, <1>ProcessOpens, Zenon DEF Arrives, Core
  <2> QED BY <1>3, <2>1, <1>OpensCore, Zenon
<1> QED BY <1>1, <1>2, <1>3, Zenon

LEMMA GrownTransitive ==
  ASSUME NEW e, NEW s, NEW t, NEW u, Grown(e, s, t), Grown(e, t, u), None \notin Servers
  PROVE  Grown(e, s, u)
<1>1. /\ s.got \subseteq u.got /\ u.tx = s.tx /\ u.rx = s.rx /\ u.state = s.state
      /\ u.todo = s.todo /\ u.read = s.read
  BY Zenon DEF Grown
<1>2. e = "client" => Later(s, u)
  BY Zenon DEF Grown, Later
<1> QED BY <1>1, <1>2, Zenon DEF Grown

LEMMA ProcessAllCore ==
  ASSUME NEW e, NEW s, NEW c, NEW H, Core(e, s, c), s.state # "closed",
         e = "client" \/ e \in Servers, SockGood(e, s, H), H \subseteq Servers,
         NEW ps, IsSeq(ps), NEW aged,
         \A i \in DOMAIN ps : Arrives(e, ps[i], c) /\ (e = "client" => ps[i].from \in H)
  PROVE  LET t == processAll(e, s, ps, aged) IN Core(e, t, c) /\ Grown(e, s, t)
<1>1. PICK f : Rounds(f, e, s, ps, aged, Len(ps)) /\ processAll(e, s, ps, aged) = f[Len(ps)]
  BY ProcessAllRounds, Zenon
<1>2. Len(ps) \in Nat /\ DOMAIN ps = 1 .. Len(ps)
  BY SeqParts, Zenon
<1>0. None \notin Servers
  BY RetryAssumption, Zenon DEF None, Servers
<1> DEFINE Holds(n) == SockGood(e, f[n], H) /\ Core(e, f[n], c) /\ Grown(e, s, f[n])
           A == {n \in 0 .. Len(ps) : ~Holds(n)}
<1>3. A = {}
  <2> SUFFICES ASSUME A # {} PROVE FALSE
    BY Zenon
  <2>1. A \subseteq Nat
    BY <1>2
  <2>2. PICK n \in A : \A y \in A : n <= y
    BY <2>1, LeastNat, Zenon
  <2>3. n \in 0 .. Len(ps) /\ ~Holds(n)
    BY <2>2, Zenon
  <2>4. n # 0
    <3>1. CASE n = 0
      <4>1. f[n] = s
        BY <1>1, <2>3, <3>1, Zenon DEF Rounds
      <4>2. Grown(e, s, s)
        BY Zenon DEF Grown, Later
      <4> QED BY <2>3, <4>1, <4>2, Zenon
    <3> QED BY <3>1, Zenon
  <2>5. n - 1 \in 0 .. Len(ps) /\ n \in DOMAIN ps
    BY <1>2, <2>3, <2>4
  <2>6. n - 1 \notin A
    BY <2>1, <2>2, <2>3
  <2>7. Holds(n - 1)
    BY <2>5, <2>6, Zenon
  <2>8. f[n] = process(e, f[n - 1], ps[n], aged)
    BY <1>1, <2>3, <2>4, Zenon DEF Rounds
  <2>9. f[n - 1].state # "closed"
    BY <2>7, Zenon DEF Grown
  <2> DEFINE x == f[n - 1]
             p == ps[n]
  <2>a. SockGood(e, x, H) /\ Core(e, x, c) /\ x.state # "closed" /\ f[n] = process(e, x, p, aged)
    BY <2>7, <2>8, <2>9, Zenon
  <2>b. Arrives(e, p, c) /\ (e = "client" => p.from \in H)
    BY <2>5, Zenon
  <2> HIDE DEF x, p
  <2>10. SockGood(e, f[n], H)
    BY <2>a, <2>b, ProcessGood DEF Arrives
  <2>c. DOMAIN x = Fields /\ IsSeq(x.backlog)
    BY <2>a, Zenon DEF SockGood
  <2>d. Core(e, f[n], c) /\ Grown(e, x, f[n])
    BY <2>a, <2>b, <2>c, ProcessCore, Zenon
  <2>11. Core(e, f[n], c) /\ Grown(e, f[n - 1], f[n])
    BY <2>d, Zenon DEF x
  <2>12. Grown(e, s, f[n])
    BY <1>0, <2>7, <2>11, GrownTransitive, Zenon
  <2> QED BY <2>3, <2>10, <2>11, <2>12, Zenon
<1>4. Len(ps) \in 0 .. Len(ps)
  BY <1>2
<1> QED BY <1>1, <1>3, <1>4, Zenon

-------------------------------------------------------------------------------
(* What libquic still has to do                                                *)

SendKey(x, l) == x.op = "key" /\ x.level = l /\ x.dir = "tx"
RecvKey(x, l) == x.op = "key" /\ x.level = l /\ x.dir # "tx"

(* TLS at the client gives the keys after it has the ServerHello, the 1-RTT    *)
(* receive key after the 1-RTT send key, and Finished after both.              *)
ClientTodo(s) ==
  \A i \in DOMAIN s.todo :
    /\ s.todo[i].op # "msg" => "SH" \in s.got
    /\ s.todo[i].op = "msg" => s.todo[i].frame \in {"CH", "FIN"}
    /\ s.todo[i].op = "msg" /\ s.todo[i].frame = "FIN"
         => s.state = "established" \/ (i > 1 /\ RecvKey(s.todo[i - 1], "app"))
    /\ RecvKey(s.todo[i], "app") => "app" \in s.tx \/ (i > 1 /\ SendKey(s.todo[i - 1], "app"))

(* TLS at the server gives the 1-RTT receive key for the client's Finished.    *)
ServerTodo(s) ==
  \A i \in DOMAIN s.todo :
    /\ s.todo[i].op = "msg" => s.todo[i].frame \in Names
    /\ RecvKey(s.todo[i], "app") => "FIN" \in s.got

Todo(e, s) == IsSeq(s.todo) /\ IF e = "client" THEN ClientTodo(s) ELSE ServerTodo(s)

SessionSocks == \A e \in Socks : Core(e, sk[e], sk["client"]) /\ Todo(e, sk[e])

SessionNet == \A p \in net : p \in Packets /\ (p.to = "server" => Shown(p, sk["client"]))

SessionRequests ==
  \A i \in DOMAIN reqs : \A j \in DOMAIN reqs[i].backlog :
    Shown(reqs[i].backlog[j], sk["client"])

SessionWaiting == \A i \in DOMAIN waiting : Shown(waiting[i], sk["client"])

SessionInv == SessionSocks /\ SessionNet /\ SessionRequests /\ SessionWaiting

LEMMA ServerNames == \A e \in Servers : e # "client" /\ e # None /\ e \in Socks
  BY RetryAssumption, Zenon DEF None, Servers, Socks

(* Sending keeps what is known.                                                *)
LEMMA SentCore ==
  ASSUME NEW e, NEW c, NEW s, NEW t, Core(e, s, c), Todo(e, s), Same(s, t), Kept(s, t)
  PROVE  Core(e, t, c) /\ Todo(e, t)
<1>1. /\ t.state = s.state /\ t.dest = s.dest /\ t.rx = s.rx /\ t.todo = s.todo
      /\ t.backlog = s.backlog /\ t.tx = s.tx /\ t.got = s.got /\ t.read = s.read
      /\ t.ikey = s.ikey /\ t.peer = s.peer /\ t.token = s.token /\ t.validated = s.validated
      /\ Tracks(t) /\ Frames(t) \subseteq Frames(s)
  BY Zenon DEF Same, Kept, Rest
<1>2. Typed(t)
  BY <1>1, Zenon DEF Core, Typed
<1>3. e = "client" => ClientCore(t)
  BY <1>1, Zenon DEF Core, ClientCore
<1>4. e # "client" => ServerCore(e, t, c)
  BY <1>1, Zenon DEF Core, ServerCore
<1>5. Core(e, t, c)
  BY <1>1, <1>2, <1>3, <1>4, Zenon DEF Core
<1>6. Todo(e, t)
  BY <1>1, Zenon DEF Todo, ClientTodo, ServerTodo
<1> QED BY <1>5, <1>6, Zenon

(* A socket changes, the client never back.                                    *)
LEMMA SessionMoves ==
  ASSUME IInv, SessionInv, NEW e \in Socks, NEW t, sk' = [sk EXCEPT ![e] = t],
         Core(e, t, sk["client"]), Todo(e, t), e = "client" => Later(sk["client"], t)
  PROVE  SessionSocks' /\ Later(sk["client"], sk'["client"])
<1>1. \A x \in Socks : sk'[x] = IF x = e THEN t ELSE sk[x]
  BY Zenon DEF IInv, SockInv
<1>2. "client" \in Socks
  BY Zenon DEF Socks
<1>3. Later(sk["client"], sk["client"])
  BY Zenon DEF Later
<1>4. Later(sk["client"], sk'["client"])
  BY <1>1, <1>2, <1>3, Zenon
<1>5. ASSUME NEW x \in Socks PROVE Core(x, sk'[x], sk["client"]) /\ Todo(x, sk'[x])
  BY <1>1, Zenon DEF SessionInv, SessionSocks
<1>6. ASSUME NEW x \in Socks PROVE Core(x, sk'[x], sk'["client"]) /\ Todo(x, sk'[x])
  <2>1. CASE x = "client"
    BY <1>5, <2>1, Zenon DEF Core
  <2>2. CASE x # "client"
    <3>1. x # None
      BY <2>2, ServerNames, Zenon DEF Socks
    <3> QED BY <1>4, <1>5, <2>2, <3>1, LaterKeeps, Zenon
  <2> QED BY <2>1, <2>2, Zenon
<1>7. SessionSocks'
  BY <1>6, Zenon DEF SessionSocks
<1> QED BY <1>4, <1>7, Zenon

LEMMA ListenerKeeps ==
  ASSUME SessionInv, Later(sk["client"], sk'["client"])
  PROVE  /\ reqs' = reqs => SessionRequests'
         /\ waiting' = waiting => SessionWaiting'
         /\ net' \subseteq net => SessionNet'
<1>1. \A p : Shown(p, sk["client"]) => Shown(p, sk'["client"])
  BY LaterKeeps, Zenon
<1>2. reqs' = reqs => SessionRequests'
  BY <1>1, Zenon DEF SessionInv, SessionRequests
<1>3. waiting' = waiting => SessionWaiting'
  BY <1>1, Zenon DEF SessionInv, SessionWaiting
<1>4. net' \subseteq net => SessionNet'
  BY <1>1, Zenon DEF SessionInv, SessionNet
<1> QED BY <1>2, <1>3, <1>4, Zenon

(* The packets a socket sends.                                                 *)
LEMMA OutGoing ==
  ASSUME NEW e \in Socks, NEW s, NEW c, Core(e, s, c), s.state # "closed", NEW out, OutShown(e, s, out)
  PROVE  \A p \in out : p \in Packets /\ (p.to = "server" => Shown(p, s))
<1> SUFFICES ASSUME NEW p \in out PROVE p \in Packets /\ (p.to = "server" => Shown(p, s))
  BY Zenon
<1>1. PICK l \in s.tx, f \in Frames(s) \cup Pings \cup {None}, acks \in SUBSET AckFrames :
        p = Packet(e, s, l, f, acks) /\ l \in PacketLevels /\ (f # None => l = LevelOf(f))
  BY Zenon DEF OutShown
<1>2. /\ p.to = (IF e = "client" THEN "server" ELSE "client") /\ p.level = l /\ p.dcid = s.dest
      /\ p.from = e /\ p.key = (IF l = "initial" THEN s.ikey ELSE s.peer)
      /\ p.token = (IF l = "initial" THEN s.token ELSE None) /\ p.frame = f /\ p.acks = acks
  BY <1>1, Zenon DEF Packet
<1>3. /\ s.dest \in {"first", "own"} \X Socks /\ s.ikey \in Socks \cup {None}
      /\ s.peer \in Socks \cup {None} /\ s.token \in Retries \cup {None}
  BY Zenon DEF Core, Typed
<1>4. f \in Range(Order) \cup {None}
  BY Places, Zenon DEF Frames, Pings
<1>5. p \in Packets
  <2>1. p = [to |-> p.to, level |-> p.level, dcid |-> p.dcid, from |-> p.from, key |-> p.key,
             token |-> p.token, frame |-> p.frame, acks |-> p.acks]
    BY <1>1, Zenon DEF Packet
  <2>2. /\ p.to \in {"client", "server"} /\ p.level \in {"initial", "handshake", "app", "retry"}
        /\ p.dcid \in {"first", "own"} \X Socks /\ p.from \in Socks /\ p.key \in Socks \cup {None}
        /\ p.token \in Retries \cup {None} /\ p.frame \in Range(Order) \cup {None}
        /\ p.acks \in SUBSET [level : Range(Levels), frames : SUBSET Names]
    BY <1>1, <1>2, <1>3, <1>4, Zenon DEF PacketLevels, AckFrames
  <2> QED BY <2>1, <2>2, Zenon DEF Packets
<1>6. CASE e = "client"
  <2>1. ClientCore(s)
    BY <1>6, Zenon DEF Core
  <2>2. l # "initial" => s.peer \in Servers
    BY <1>1, <2>1, Zenon DEF ClientCore, PacketLevels
  <2>3. f # "SH" /\ (f = "FIN" => f \in Frames(s))
    BY <2>1, Zenon DEF ClientCore, Pings, Names, None
  <2>4. f = "FIN" => l = "handshake" /\ s.state = "established"
    BY <1>1, <2>1, <2>3, Zenon DEF ClientCore, LevelOf, None
  <2> QED BY <1>1, <1>2, <1>5, <2>2, <2>3, <2>4, Zenon DEF Shown
<1>7. CASE e # "client"
  BY <1>2, <1>5, <1>7, Zenon
<1> QED BY <1>6, <1>7, Zenon

(* A socket comes to state s and sends, and the listener does nothing.         *)
LEMMA EmitSession ==
  ASSUME IInv, SessionInv, NEW e \in Socks, NEW s, s.state # "closed",
         Core(e, s, sk["client"]), Todo(e, s), e = "client" => Later(sk["client"], s),
         NEW r, Same(s, r.s), Shows(e, s, r), NEW n, n \subseteq net, Emit(e, r, n), UNCHANGED listener
  PROVE  SessionInv'
<1>1. sk' = [sk EXCEPT ![e] = r.s] /\ net' = n \cup r.out
  BY Zenon DEF Emit
<1>2. Core(e, r.s, sk["client"]) /\ Todo(e, r.s)
  BY SentCore, Zenon DEF Shows
<1>3. e = "client" => Later(sk["client"], r.s)
  BY Zenon DEF Later, Shows, Kept, Rest, Same
<1>4. SessionSocks' /\ Later(sk["client"], sk'["client"])
  BY <1>1, <1>2, <1>3, SessionMoves, Zenon
<1>5. SessionRequests' /\ SessionWaiting'
  BY <1>4, ListenerKeeps, Zenon DEF listener
<1>6. \A p \in r.out : p \in Packets /\ (p.to = "server" => Shown(p, s))
  BY OutGoing, Zenon DEF Shows
<1>7. \A p \in r.out : p.to = "server" => Shown(p, sk'["client"])
  <2>1. CASE e = "client"
    <3>1. sk'["client"] = r.s
      BY <1>1, <2>1, Zenon DEF IInv, SockInv
    <3>2. Later(s, r.s)
      BY Zenon DEF Later, Shows, Kept, Rest, Same
    <3> QED BY <1>6, <3>1, <3>2, LaterKeeps, Zenon
  <2>2. CASE e # "client"
    <3> SUFFICES ASSUME NEW p \in r.out PROVE p.to # "server"
      BY Zenon
    <3>1. OutShown(e, s, r.out)
      BY Zenon DEF Shows
    <3>2. PICK l \in s.tx, f \in Frames(s) \cup Pings \cup {None}, acks \in SUBSET AckFrames :
            p = Packet(e, s, l, f, acks)
      BY <3>1 DEF OutShown
    <3> QED BY <2>2, <3>2, Zenon DEF Packet
  <2> QED BY <2>1, <2>2, Zenon
<1>8. \A p \in net : p \in Packets /\ (p.to = "server" => Shown(p, sk'["client"]))
  BY <1>4, LaterKeeps, Zenon DEF SessionInv, SessionNet
<1>9. SessionNet'
  BY <1>1, <1>6, <1>7, <1>8, Zenon DEF SessionNet
<1> QED BY <1>4, <1>5, <1>9, Zenon DEF SessionInv

-------------------------------------------------------------------------------
(* libquic, the timers and the client                                          *)

LEMMA Standing ==
  ASSUME IInv, SessionInv, NEW e \in Socks
  PROVE  /\ SockGood(e, sk[e], Accepted) /\ DOMAIN sk[e] = Fields
         /\ sk[e].need_sack \subseteq PacketLevels /\ IsSeq(sk[e].backlog)
         /\ Core(e, sk[e], sk["client"]) /\ Todo(e, sk[e]) /\ Tracks(sk[e])
         /\ sk[e].got \subseteq Names /\ Accepted \subseteq Servers
         /\ e = "client" \/ e \in Servers
  BY Zenon DEF IInv, SockInv, SockGood, SessionInv, SessionSocks, Core, Typed, Accepted, Socks

(* One step of libquic is done, and what it was is known.                      *)
LEMMA TailTodo ==
  ASSUME NEW e, NEW s, NEW t, s.todo # <<>>, Todo(e, s), t.todo = Tail(s.todo),
         s.got \subseteq t.got, s.tx \subseteq t.tx, s.state = "established" => t.state = "established",
         e = "client" /\ RecvKey(Head(s.todo), "app") => t.state = "established",
         e = "client" /\ SendKey(Head(s.todo), "app") => "app" \in t.tx
  PROVE  Todo(e, t)
<1>1. /\ IsSeq(t.todo) /\ Len(s.todo) \in Nat \ {0} /\ Head(s.todo) = s.todo[1]
      /\ DOMAIN t.todo = 1 .. Len(s.todo) - 1
      /\ \A i \in 1 .. Len(s.todo) - 1 : t.todo[i] = s.todo[i + 1]
  BY Tailed, Zenon DEF Todo
<1>2. DOMAIN s.todo = 1 .. Len(s.todo)
  BY SeqParts, Zenon DEF Todo
<1>3. ASSUME NEW i \in DOMAIN t.todo
      PROVE  /\ i + 1 \in DOMAIN s.todo /\ t.todo[i] = s.todo[i + 1] /\ i \in Nat /\ i + 1 > 1
             /\ (i + 1) - 1 = i
             /\ s.todo[i] = Head(s.todo) \/ (i > 1 /\ t.todo[i - 1] = s.todo[i])
  BY <1>1, <1>2
<1>4. e = "client" => ClientTodo(t)
  <2> SUFFICES ASSUME e = "client", NEW i \in DOMAIN t.todo
               PROVE  /\ t.todo[i].op # "msg" => "SH" \in t.got
                      /\ t.todo[i].op = "msg" => t.todo[i].frame \in {"CH", "FIN"}
                      /\ t.todo[i].op = "msg" /\ t.todo[i].frame = "FIN"
                           => t.state = "established" \/ (i > 1 /\ RecvKey(t.todo[i - 1], "app"))
                      /\ RecvKey(t.todo[i], "app")
                           => "app" \in t.tx \/ (i > 1 /\ SendKey(t.todo[i - 1], "app"))
    BY Zenon DEF ClientTodo
  <2> DEFINE x == s.todo[i + 1]
  <2>1. /\ x.op # "msg" => "SH" \in s.got
        /\ x.op = "msg" => x.frame \in {"CH", "FIN"}
        /\ x.op = "msg" /\ x.frame = "FIN" => s.state = "established" \/ RecvKey(s.todo[i], "app")
        /\ RecvKey(x, "app") => "app" \in s.tx \/ SendKey(s.todo[i], "app")
    BY <1>3, Zenon DEF ClientTodo, Todo
  <2>2. /\ t.todo[i] = x
        /\ s.todo[i] = Head(s.todo) \/ (i > 1 /\ t.todo[i - 1] = s.todo[i])
    BY <1>3, Zenon
  <2> HIDE DEF x
  <2>3. t.todo[i].op # "msg" => "SH" \in t.got
    BY <2>1, <2>2, Zenon
  <2>4. t.todo[i].op = "msg" => t.todo[i].frame \in {"CH", "FIN"}
    BY <2>1, <2>2, Zenon
  <2>5. t.todo[i].op = "msg" /\ t.todo[i].frame = "FIN"
          => t.state = "established" \/ (i > 1 /\ RecvKey(t.todo[i - 1], "app"))
    BY <2>1, <2>2, Zenon
  <2>6. RecvKey(t.todo[i], "app") => "app" \in t.tx \/ (i > 1 /\ SendKey(t.todo[i - 1], "app"))
    BY <2>1, <2>2, Zenon
  <2> QED BY <2>3, <2>4, <2>5, <2>6, Zenon
<1>5. e # "client" => ServerTodo(t)
  BY <1>3 DEF ServerTodo, Todo
<1> QED BY <1>1, <1>4, <1>5, Zenon DEF Todo

LEMMA HeadTodo ==
  ASSUME NEW e, NEW s, s.todo # <<>>, Todo(e, s)
  PROVE  LET k == Head(s.todo)
         IN  /\ k.op = "msg" => k.frame \in Names
             /\ e = "client" => /\ k.op = "msg" => k.frame # "SH"
                                /\ k.op = "msg" /\ k.frame = "FIN" => s.state = "established"
                                /\ k.op # "msg" => "SH" \in s.got
                                /\ RecvKey(k, "app") => "app" \in s.tx
             /\ e # "client" /\ RecvKey(k, "app") => "FIN" \in s.got
<1> DEFINE k == Head(s.todo)
<1>1. k = s.todo[1] /\ 1 \in DOMAIN s.todo /\ ~(1 > 1)
  BY Tailed, SeqParts DEF Todo
<1> HIDE DEF k
<1>2. CASE e = "client"
  <2>1. /\ k.op # "msg" => "SH" \in s.got
        /\ k.op = "msg" => k.frame \in {"CH", "FIN"}
        /\ k.op = "msg" /\ k.frame = "FIN" => s.state = "established"
        /\ RecvKey(k, "app") => "app" \in s.tx
    BY <1>1, <1>2, Zenon DEF Todo, ClientTodo
  <2>2. {"CH", "FIN"} \subseteq Names /\ "SH" \notin {"CH", "FIN"}
    BY Zenon DEF Names
  <2> QED BY <1>2, <2>1, <2>2, Zenon DEF k
<1>3. CASE e # "client"
  BY <1>1, <1>3, Zenon DEF Todo, ServerTodo, k
<1> QED BY <1>2, <1>3, Zenon

(* A message more in the queue.                                                *)
LEMMA QueuedCore ==
  ASSUME NEW e, NEW c, NEW s, NEW t, Core(e, s, c), NEW m \in Names, t.queue = s.queue \cup {m},
         e = "client" => m # "SH" /\ (m = "FIN" => t.state = "established"),
         t.dest = s.dest, t.ikey = s.ikey, t.token = s.token,
         t.tx = s.tx, t.rx = s.rx, t.sent = s.sent, t.lost = s.lost,
         t.got = s.got, t.read = s.read,
         t.validated = s.validated, t.credit = s.credit, t.peer = s.peer, t.backlog = s.backlog,
         s.state # "closed", t.state = s.state \/ t.state = "established",
         t.state = "established" /\ e # "client" => "FIN" \in s.got
  PROVE  Core(e, t, c)
<1>1. m \in Range(Order) /\ Frames(t) = Frames(s) \cup {m}
  BY Places, Zenon DEF Frames
<1>2. Tracks(t)
  BY <1>1, Zenon DEF Core, Tracks
<1>3. Typed(t)
  BY Zenon DEF Core, Typed
<1>4. e = "client" => ClientCore(t)
  BY <1>1, Zenon DEF Core, ClientCore
<1>5. e # "client" => ServerCore(e, t, c)
  BY Zenon DEF Core, ServerCore
<1> QED BY <1>2, <1>3, <1>4, <1>5, Zenon DEF Core

-------------------------------------------------------------------------------
(* The listener                                                                *)

-------------------------------------------------------------------------------
(* The theorems                                                                *)

LEMMA InitSession == Init => SessionInv
<1> SUFFICES ASSUME Init PROVE SessionInv
  BY Zenon
<1> DEFINE c == sk["client"]
<1>1. IsSeq(<<>>) /\ DOMAIN <<>> = {}
  <2>1. <<>> \in Seq({})
    OBVIOUS
  <2> QED BY <2>1 DEF IsSeq
<1>2. c = [NewSock EXCEPT !.dest = <<"first", "orig">>, !.ikey = "orig", !.todo = <<Msg("CH")>>]
  BY Zenon DEF Init, Socks
<1>3. /\ c.dest = <<"first", "orig">> /\ c.ikey = "orig" /\ c.peer = None /\ c.state = "establishing"
      /\ c.token = None /\ c.tx = {"initial"} /\ c.queue = {} /\ c.sent = <<>>
      /\ c.lost = {} /\ c.got = {} /\ c.read = 0 /\ c.todo = <<Msg("CH")>> /\ c.backlog = <<>>
      /\ c.credit = 0
  BY <1>2 DEF NewSock
<1> HIDE DEF c
<1>4. Core("client", c, c)
  <2>1. Tracks(c) /\ Frames(c) = {}
    BY <1>3, RowEmpty, BoundsAssumption DEF Tracks, Frames
  <2>2. <<"first", "orig">> \in {"first", "own"} \X Socks /\ "orig" \in Socks
    BY Zenon DEF Socks, Servers
  <2>3. Typed(c)
    BY <1>1, <1>3, <2>2 DEF Typed
  <2>4. ClientCore(c)
    BY <1>3, <2>1, Zenon DEF ClientCore
  <2> QED BY <2>1, <2>3, <2>4, Zenon DEF Core
<1>5. Todo("client", c)
  <2>1. /\ <<Msg("CH")>> \in Seq({Msg("CH")}) /\ DOMAIN <<Msg("CH")>> = {1}
        /\ <<Msg("CH")>>[1] = Msg("CH")
    OBVIOUS
  <2>2. Msg("CH").op = "msg" /\ Msg("CH").frame = "CH" /\ ~RecvKey(Msg("CH"), "app")
    BY Zenon DEF Msg, RecvKey
  <2>3. ClientTodo(c)
    BY <1>3, <2>1, <2>2, Zenon DEF ClientTodo
  <2> QED BY <1>3, <2>1, <2>3, Zenon DEF Todo, IsSeq
<1>6. ASSUME NEW e \in Servers PROVE Core(e, sk[e], c) /\ Todo(e, sk[e])
  <2> DEFINE s == sk[e]
  <2>1. e # "client" /\ e \in Socks
    BY ServerNames, Zenon
  <2>2. s = NoSock
    BY <2>1, Zenon DEF Init
  <2>3. /\ s.ikey = None /\ s.peer = None /\ s.state = "closed"
        /\ s.token = None /\ s.tx = {"initial"} /\ s.rx = {"initial"} /\ s.queue = {} /\ s.sent = <<>>
        /\ s.lost = {} /\ s.got = {} /\ s.read = 0 /\ s.todo = <<>> /\ s.backlog = <<>>
        /\ s.validated = FALSE /\ s.credit = 0
    BY <2>2 DEF NoSock, NewSock
  <2> HIDE DEF s
  <2>4. Tracks(s)
    BY <2>3, RowEmpty, BoundsAssumption DEF Tracks
  <2>5. Typed(s)
    BY <1>1, <2>3 DEF Typed
  <2>6. ServerCore(e, s, c)
    BY <1>1, <2>3, Zenon DEF ServerCore
  <2>7. Core(e, s, c)
    BY <2>1, <2>4, <2>5, <2>6, Zenon DEF Core
  <2>8. Todo(e, s)
    BY <1>1, <2>1, <2>3, Zenon DEF Todo, ServerTodo
  <2> QED BY <2>7, <2>8, Zenon DEF s
<1>7. SessionSocks
  BY <1>4, <1>5, <1>6, Zenon DEF SessionSocks, Socks, c
<1> QED BY <1>1, <1>7, Zenon DEF SessionInv, SessionNet, SessionRequests, SessionWaiting, Init

LEMMA NextSession == IInv /\ SessionInv /\ [Next]_vars => SessionInv'
<1>RecvMsgSession. \A e \in Socks : IInv /\ SessionInv /\ RecvMsg(e) => SessionInv'
  (* What TLS answers to a message of the peer.                                  *)
  <2>ResponseTodo.
    ASSUME NEW s, NEW x, x \in s.got, s.todo = Response(x)
    PROVE  /\ x \in {"SH", "CERT", "SFIN"} /\ "SH" \in s.got => Todo("client", s)
           /\ \A e : e # "client" /\ x \in {"CH", "FIN"} => Todo(e, s)
    <3> USE <2>ResponseTodo
    <3> DEFINE q == s.todo
    <3>1. CASE x = "SH"
      <4>1. q = <<Key("handshake", "tx"), Key("handshake", "rx")>>
        BY <3>1, Zenon DEF Response
      <4>2. /\ q \in Seq({Key("handshake", "tx"), Key("handshake", "rx")}) /\ DOMAIN q = {1, 2}
            /\ q[1] = Key("handshake", "tx") /\ q[2] = Key("handshake", "rx")
        BY <4>1
      <4>3. IsSeq(q)
        BY <4>2, Zenon DEF IsSeq
      <4>4. "SH" \in s.got => ClientTodo(s)
        BY <4>2 DEF ClientTodo, Key, RecvKey, SendKey
      <4> QED BY <3>1, <4>3, <4>4, Zenon DEF Todo
    <3>2. CASE x = "CERT"
      <4>1. q = <<>>
        BY <3>2, Zenon DEF Response
      <4>2. q \in Seq({}) /\ DOMAIN q = {}
        BY <4>1
      <4>3. IsSeq(q)
        BY <4>2, Zenon DEF IsSeq
      <4>4. ClientTodo(s)
        BY <4>2, Zenon DEF ClientTodo
      <4> QED BY <3>2, <4>3, <4>4, Zenon DEF Todo
    <3>3. CASE x = "SFIN"
      <4>1. q = <<Key("app", "tx"), Key("app", "rx"), Msg("FIN")>>
        BY <3>3, Zenon DEF Response
      <4>2. /\ q \in Seq({Key("app", "tx"), Key("app", "rx"), Msg("FIN")}) /\ DOMAIN q = {1, 2, 3}
            /\ q[1] = Key("app", "tx") /\ q[2] = Key("app", "rx") /\ q[3] = Msg("FIN")
        BY <4>1
      <4>3. IsSeq(q)
        BY <4>2, Zenon DEF IsSeq
      <4>4. /\ q[1].op = "key" /\ q[2].op = "key" /\ q[3].op = "msg" /\ q[3].frame = "FIN"
            /\ SendKey(q[1], "app") /\ RecvKey(q[2], "app") /\ ~RecvKey(q[1], "app")
            /\ ~RecvKey(q[3], "app")
        BY <4>2 DEF Key, Msg, RecvKey, SendKey
      <4> HIDE DEF q
      <4>5. "SH" \in s.got => ClientTodo(s)
        BY <4>2, <4>4 DEF ClientTodo, q
      <4> QED BY <3>3, <4>3, <4>5, Zenon DEF Todo, q
    <3>4. CASE x = "CH"
      <4>1. q = <<Key("handshake", "tx"), Key("handshake", "rx"), Key("app", "tx"),
                  Msg("SH"), Msg("CERT"), Msg("SFIN")>>
        BY <3>4, Zenon DEF Response
      <4> DEFINE E == {Key("handshake", "tx"), Key("handshake", "rx"), Key("app", "tx"),
                       Msg("SH"), Msg("CERT"), Msg("SFIN")}
      <4>2. q \in Seq(E) /\ \A i \in DOMAIN q : q[i] \in E
        BY <4>1
      <4>3. IsSeq(q)
        BY <4>2, Zenon DEF IsSeq
      <4>4. \A y \in E : (y.op = "msg" => y.frame \in Names) /\ ~RecvKey(y, "app")
        BY DEF Key, Msg, RecvKey, Names
      <4> HIDE DEF E
      <4>5. ServerTodo(s)
        BY <4>2, <4>4, Zenon DEF ServerTodo
      <4> QED BY <3>4, <4>3, <4>5, Zenon DEF Todo
    <3>5. CASE x = "FIN"
      <4>1. q = <<Key("app", "rx")>>
        BY <3>5, Zenon DEF Response
      <4>2. q \in Seq({Key("app", "rx")}) /\ DOMAIN q = {1} /\ q[1] = Key("app", "rx")
        BY <4>1
      <4>3. IsSeq(q)
        BY <4>2, Zenon DEF IsSeq
      <4>4. ServerTodo(s)
        BY <3>5, <4>2 DEF ServerTodo, Key
      <4> QED BY <3>5, <4>3, <4>4, Zenon DEF Todo
    <3> QED BY <3>1, <3>2, <3>3, <3>4, <3>5, Zenon
  <2> SUFFICES ASSUME IInv, SessionInv, NEW e \in Socks, RecvMsg(e) PROVE SessionInv'
    BY Zenon
  <2> DEFINE s == sk[e]
             c == sk["client"]
             x == Script(e)[s.read + 1]
             t == [s EXCEPT !.read = @ + 1, !.todo = Response(x)]
  <2>1. /\ DOMAIN s = Fields /\ Core(e, s, c) /\ Todo(e, s) /\ (e = "client" \/ e \in Servers)
    BY Standing, Zenon
  <2>2. /\ sk' = [sk EXCEPT ![e] = t] /\ UNCHANGED <<listener, net, faults>>
        /\ s.read < Len(Script(e)) /\ x \in s.got
    BY Zenon DEF RecvMsg, Readable
  <2>3. s.read \in Nat
    BY <2>1, Zenon DEF Core, Typed
  <2>4. IF e = "client" THEN x \in {"SH", "CERT", "SFIN"} /\ (s.read = 0 => x = "SH")
        ELSE x \in {"CH", "FIN"}
    <3>1. CASE e = "client"
      <4>1. Script(e) = <<"SH", "CERT", "SFIN">>
        BY <3>1, Zenon DEF Script
      <4> QED BY <2>2, <2>3, <3>1, <4>1
    <3>2. CASE e # "client"
      <4>1. Script(e) = <<"CH", "FIN">>
        BY <3>2, Zenon DEF Script
      <4> QED BY <2>2, <2>3, <3>2, <4>1
    <3> QED BY <3>1, <3>2, Zenon
  <2>5. e = "client" => "SH" \in s.got
    BY <2>1, <2>2, <2>4, Zenon DEF Core, ClientCore
  <2> HIDE DEF x
  <2>6. /\ t.state = s.state /\ t.dest = s.dest /\ t.ikey = s.ikey /\ t.token = s.token
        /\ t.tx = s.tx /\ t.rx = s.rx /\ t.queue = s.queue /\ t.sent = s.sent /\ t.lost = s.lost
        /\ t.got = s.got /\ t.read = s.read + 1 /\ t.todo = Response(x)
        /\ t.validated = s.validated /\ t.credit = s.credit /\ t.peer = s.peer /\ t.backlog = s.backlog
    BY <2>1, Zenon DEF Fields
  <2> HIDE DEF t, s
  <2>7. Tracks(t) /\ Frames(t) = Frames(s)
    BY <2>1, <2>6, Zenon DEF Core, Tracks, Frames
  <2>8. Typed(t)
    BY <2>1, <2>3, <2>6 DEF Core, Typed
  <2>9. e = "client" => ClientCore(t)
    BY <2>1, <2>5, <2>6, <2>7, Zenon DEF Core, ClientCore
  <2>10. e # "client" => ServerCore(e, t, c)
    BY <2>1, <2>6, Zenon DEF Core, ServerCore
  <2>11. Core(e, t, c)
    BY <2>7, <2>8, <2>9, <2>10, Zenon DEF Core
  <2>12. Todo(e, t)
    <3>1. x \in t.got /\ t.todo = Response(x)
      BY <2>2, <2>6, Zenon
    <3> QED BY <2>4, <2>5, <2>6, <3>1, <2>ResponseTodo, Zenon
  <2>13. e = "client" => Later(c, t)
    BY <2>6, Zenon DEF Later, s
  <2>14. SessionSocks' /\ Later(c, sk'["client"])
    BY <2>2, <2>11, <2>12, <2>13, SessionMoves, Zenon
  <2> QED BY <2>2, <2>14, ListenerKeeps, Zenon DEF listener, SessionInv
<1>SetSecretSession. \A e \in Socks : IInv /\ SessionInv /\ SetSecret(e) => SessionInv'
  <2>CompletedShows.
    ASSUME NEW e, NEW s, DOMAIN s = Fields, s.need_sack \subseteq PacketLevels, Tracks(s),
           s.got \subseteq Names, NEW filling
    PROVE  Shows(e, Ended(e, s), Completed(e, s, filling))
    <3> USE <2>CompletedShows
    <3> DEFINE m == IF e = "client" THEN "CIDS" ELSE "DONE"
               d == IF e = "client" THEN s ELSE Discard(s, "handshake")
               q == [d EXCEPT !.queue = @ \cup {m}]
               r == transmit(e, q, filling)
               x == [r EXCEPT !.s.state = "established"]
               w == Ended(e, s)
    <3>1. Completed(e, s, filling) = x
      BY Zenon DEF Completed
    <3>2. DOMAIN r = {"s", "out"}
      BY Zenon DEF transmit
    <3>3. m \in Names /\ m \in Range(Order)
      BY Places, Zenon DEF Names
    <3>4. /\ Rest(s, w) /\ w.queue = s.queue \cup {m} /\ w.sent = s.sent /\ w.dest = s.dest
      BY Zenon DEF Rest, Ended, Fields
    <3>5. Kept(s, d) /\ Same(s, d)
      <4>1. Kept(s, s) /\ Same(s, s)
        BY Zenon DEF Kept, Rest, Same
      <4>2. Kept(s, Discard(s, "handshake")) /\ Same(s, Discard(s, "handshake"))
        BY DiscardKept, DiscardSame, Zenon
      <4> QED BY <4>1, <4>2, Zenon
    <3> HIDE DEF d, m, w
    <3>6. /\ Rest(d, q) /\ q.queue = d.queue \cup {m} /\ q.sent = d.sent /\ q.lost = d.lost
          /\ q.credit = d.credit /\ q.need_sack = d.need_sack /\ q.dest = d.dest
      BY <3>5, Zenon DEF Rest, Same, Fields
    <3> HIDE DEF q
    <3>7. Kept(w, q)
      <4>1. Rest(w, q)
        BY <3>4, <3>5, <3>6, Zenon DEF Kept, Rest
      <4>2. Tracks(q)
        BY <3>3, <3>5, <3>6, Zenon DEF Kept, Tracks, Rest
      <4>3. Frames(q) \subseteq Frames(w)
        BY <3>4, <3>5, <3>6, Zenon DEF Kept, Frames
      <4> QED BY <4>1, <4>2, <4>3, Zenon DEF Kept
    <3>8. q.dest = w.dest /\ q.need_sack \subseteq PacketLevels /\ q.got \subseteq Names
      BY <3>4, <3>5, <3>6, Zenon DEF Same, Rest, Kept
    <3>9. Shows(e, q, r)
      BY <3>7, <3>8, TransmitShows, Zenon DEF Kept, Rest
    <3> HIDE DEF r
    <3>10. x.s = [r.s EXCEPT !.state = "established"] /\ x.out = r.out
      BY <3>2, Zenon
    <3>11. Untouched(r.s, x.s)
      BY <3>9, <3>10 DEF Untouched, Shows, Kept, Rest, Fields
    <3> HIDE DEF x
    <3>12. Kept(r.s, x.s)
      BY <3>9, <3>11, UntouchedKept, Zenon DEF Shows, Kept
    <3>13. Kept(w, x.s)
      BY <3>7, <3>9, <3>12, KeptTransitive, Zenon DEF Shows
    <3>14. OutShown(e, w, x.out)
      BY <3>7, <3>8, <3>9, <3>10, OutMoves, Zenon DEF Shows, Kept
    <3>15. Shows(e, w, x)
      BY <3>13, <3>14, Zenon DEF Shows
    <3> QED BY <3>1, <3>15, Zenon DEF w
  (* A key is installed, and what waited for it is processed.                    *)
  <2>InstalledCore.
    ASSUME NEW e, NEW s, NEW c, NEW H, Core(e, s, c), s.state # "closed",
           e = "client" \/ e \in Servers, SockGood(e, s, H), H \subseteq Servers, NEW k, NEW aged,
           e = "client" => "SH" \in s.got,
           e # "client" /\ k.level = "app" /\ k.dir # "tx" => "FIN" \in s.got
    PROVE  LET t == Installed(e, s, k, aged)
           IN  /\ Core(e, t, c) /\ t.state = s.state /\ t.todo = s.todo /\ s.got \subseteq t.got
               /\ k.dir = "tx" => t.tx = s.tx \cup {k.level}
               /\ k.dir # "tx" => t.tx = s.tx /\ t.rx = s.rx \cup {k.level}
               /\ e = "client" => Later(s, t)
    <3> USE <2>InstalledCore
    <3>0. DOMAIN s = Fields
      BY Zenon DEF SockGood
    <3>1. CASE k.dir = "tx"
      <4> DEFINE t == [s EXCEPT !.tx = @ \cup {k.level}]
      <4>1. /\ t.state = s.state /\ t.dest = s.dest /\ t.ikey = s.ikey /\ t.token = s.token
            /\ t.tx = s.tx \cup {k.level} /\ t.rx = s.rx /\ t.queue = s.queue /\ t.sent = s.sent
            /\ t.lost = s.lost /\ t.got = s.got /\ t.read = s.read /\ t.todo = s.todo
            /\ t.validated = s.validated /\ t.credit = s.credit /\ t.peer = s.peer /\ t.backlog = s.backlog
        BY <3>0, Zenon DEF Fields
      <4>2. Installed(e, s, k, aged) = t
        BY <3>1, Zenon DEF Installed
      <4> HIDE DEF t
      <4>3. Tracks(t) /\ Frames(t) = Frames(s)
        BY <4>1, Zenon DEF Core, Tracks, Frames
      <4>4. Typed(t)
        BY <4>1, Zenon DEF Core, Typed
      <4>5. e = "client" => ClientCore(t)
        BY <4>1, <4>3, Zenon DEF Core, ClientCore
      <4>6. e # "client" => ServerCore(e, t, c)
        BY <4>1, Zenon DEF Core, ServerCore
      <4>7. Core(e, t, c)
        BY <4>3, <4>4, <4>5, <4>6, Zenon DEF Core
      <4>8. Later(s, t)
        BY <4>1, Zenon DEF Later
      <4> QED BY <3>1, <4>1, <4>2, <4>7, <4>8, Zenon
    <3>2. CASE k.dir # "tx"
      <4> DEFINE t == [s EXCEPT !.rx = @ \cup {k.level}, !.backlog = <<>>,
                                !.token = IF k.level = "app" THEN None ELSE @]
      <4>1. Installed(e, s, k, aged) = processAll(e, t, s.backlog, aged)
        BY <3>2, Zenon DEF Installed
      <4>2. /\ DOMAIN t = Fields /\ t.state = s.state /\ t.dest = s.dest /\ t.ikey = s.ikey
            /\ t.token \in {s.token, None} /\ t.need_sack = s.need_sack
            /\ t.tx = s.tx /\ t.rx = s.rx \cup {k.level} /\ t.queue = s.queue /\ t.sent = s.sent
            /\ t.lost = s.lost /\ t.got = s.got /\ t.read = s.read /\ t.todo = s.todo
            /\ t.validated = s.validated /\ t.credit = s.credit /\ t.peer = s.peer /\ t.backlog = <<>>
        BY <3>0, Zenon DEF Fields
      <4> HIDE DEF t
      <4>3. IsSeq(<<>>) /\ DOMAIN <<>> = {}
        <5>1. <<>> \in Seq({})
          OBVIOUS
        <5> QED BY <5>1 DEF IsSeq
      <4>4. SockGood(e, t, H)
        BY <4>2, <4>3, Zenon DEF SockGood
      <4>5. Tracks(t) /\ Frames(t) = Frames(s)
        BY <4>2, Zenon DEF Core, Tracks, Frames
      <4>6. Typed(t)
        BY <4>2, <4>3, Zenon DEF Core, Typed
      <4>7. e = "client" => ClientCore(t)
        BY <4>2, <4>5, Zenon DEF Core, ClientCore
      <4>8. e # "client" => ServerCore(e, t, c)
        <5>1. "app" \in t.rx => "app" \in s.rx \/ k.level = "app"
          BY <4>2, Zenon
        <5> QED BY <3>2, <4>2, <4>3, <5>1, Zenon DEF Core, ServerCore
      <4>9. Core(e, t, c)
        BY <4>5, <4>6, <4>7, <4>8, Zenon DEF Core
      <4>10. IsSeq(s.backlog) /\ \A i \in DOMAIN s.backlog :
               Arrives(e, s.backlog[i], c) /\ (e = "client" => s.backlog[i].from \in H)
        <5>1. IsSeq(s.backlog) /\ \A i \in DOMAIN s.backlog :
                s.backlog[i].level \in PacketLevels /\ (e = "client" => s.backlog[i].from \in H)
          BY Zenon DEF SockGood
        <5>2. \A i \in DOMAIN s.backlog :
                s.backlog[i] \in Packets /\ (e # "client" => Shown(s.backlog[i], c))
          BY Zenon DEF Core, Typed, ServerCore
        <5> QED BY <5>1, <5>2, Zenon DEF Arrives
      <4> DEFINE u == processAll(e, t, s.backlog, aged)
      <4>11. Core(e, u, c) /\ Grown(e, t, u)
        BY <4>2, <4>4, <4>9, <4>10, ProcessAllCore, Zenon
      <4> HIDE DEF u
      <4>12. e = "client" => Later(s, u)
        BY <4>2, <4>11, Zenon DEF Grown, Later
      <4>13. /\ u.state = s.state /\ u.todo = s.todo /\ s.got \subseteq u.got
             /\ u.tx = s.tx /\ u.rx = s.rx \cup {k.level}
        BY <4>2, <4>11, Zenon DEF Grown
      <4>14. Installed(e, s, k, aged) = u
        BY <4>1, Zenon DEF u
      <4> QED BY <3>2, <4>11, <4>12, <4>13, <4>14, Zenon
    <3> QED BY <3>1, <3>2, Zenon
  <2> SUFFICES ASSUME IInv, SessionInv, NEW e \in Socks, SetSecret(e) PROVE SessionInv'
    BY Zenon
  <2> DEFINE o == sk[e]
             c == sk["client"]
             k == Head(o.todo)
             u == [o EXCEPT !.todo = Tail(@)]
  <2>1. /\ DOMAIN o = Fields /\ o.need_sack \subseteq PacketLevels /\ Core(e, o, c) /\ Todo(e, o)
        /\ SockGood(e, o, Accepted) /\ Accepted \subseteq Servers /\ (e = "client" \/ e \in Servers)
    BY Standing, Zenon
  <2>2. o.state # "closed" /\ o.todo # <<>> /\ k.op = "key" /\ UNCHANGED listener
    BY ClosedIdle, Zenon DEF SetSecret
  <2>3. PICK aged, filling, s :
          /\ s = Installed(e, u, k, aged)
          /\ IF "app" \in s.tx \cap s.rx THEN Emit(e, Completed(e, s, filling), net)
             ELSE Emit(e, [s |-> s, out |-> {}], net)
    BY Zenon DEF SetSecret
  <2>4. /\ e = "client" => "SH" \in o.got /\ (RecvKey(k, "app") => "app" \in o.tx)
        /\ e # "client" /\ RecvKey(k, "app") => "FIN" \in o.got
    <3>1. k.op # "msg"
      BY <2>2, Zenon
    <3> QED BY <2>1, <2>2, <3>1, HeadTodo, Zenon
  <2> HIDE DEF k
  <2>5. /\ DOMAIN u = Fields /\ u.state = o.state /\ u.dest = o.dest /\ u.ikey = o.ikey
        /\ u.token = o.token /\ u.tx = o.tx /\ u.rx = o.rx /\ u.queue = o.queue
        /\ u.sent = o.sent /\ u.lost = o.lost /\ u.got = o.got /\ u.read = o.read
        /\ u.todo = Tail(o.todo) /\ u.validated = o.validated /\ u.credit = o.credit
        /\ u.peer = o.peer /\ u.backlog = o.backlog /\ u.need_sack = o.need_sack
    BY <2>1, Zenon DEF Fields
  <2> HIDE DEF u, o, c
  <2>6. SockGood(e, u, Accepted)
    BY <2>1, <2>2, <2>5, Zenon DEF SockGood
  <2>7. Core(e, u, c)
    <3>1. Tracks(u) /\ Frames(u) = Frames(o)
      BY <2>1, <2>5, Zenon DEF Core, Tracks, Frames
    <3>2. Typed(u)
      BY <2>1, <2>5, Zenon DEF Core, Typed
    <3>3. e = "client" => ClientCore(u)
      BY <2>1, <2>5, <3>1, Zenon DEF Core, ClientCore
    <3>4. e # "client" => ServerCore(e, u, c)
      BY <2>1, <2>5, Zenon DEF Core, ServerCore
    <3> QED BY <3>1, <3>2, <3>3, <3>4, Zenon DEF Core
  <2>8. e # "client" /\ k.level = "app" /\ k.dir # "tx" => "FIN" \in u.got
    BY <2>2, <2>4, <2>5, Zenon DEF RecvKey
  <2>9. /\ Core(e, s, c) /\ s.state = u.state /\ s.todo = u.todo /\ u.got \subseteq s.got
        /\ k.dir = "tx" => s.tx = u.tx \cup {k.level}
        /\ k.dir # "tx" => s.tx = u.tx /\ s.rx = u.rx \cup {k.level}
        /\ e = "client" => Later(u, s)
    BY <2>1, <2>2, <2>3, <2>4, <2>5, <2>6, <2>7, <2>8, <2>InstalledCore
  <2>10. SockGood(e, s, Accepted)
    BY <2>1, <2>2, <2>3, <2>5, <2>6, InstalledGood, Zenon
  <2>11. /\ s.todo = Tail(o.todo) /\ o.got \subseteq s.got /\ o.tx \subseteq s.tx /\ s.state = o.state
         /\ SendKey(k, "app") => "app" \in s.tx
         /\ e = "client" => Later(o, s)
    <3>1. e = "client" => Later(o, s)
      BY <2>5, <2>9, Zenon DEF Later
    <3> QED BY <2>5, <2>9, <3>1, Zenon DEF SendKey
  <2>12. e = "client" /\ RecvKey(k, "app") => "app" \in s.tx \cap s.rx
    BY <2>4, <2>5, <2>9, Zenon DEF RecvKey
  <2>13. CASE "app" \notin s.tx \cap s.rx
    <3> DEFINE r == [s |-> s, out |-> {}]
    <3>1. Emit(e, r, net)
      BY <2>3, <2>13, Zenon
    <3>2. Todo(e, s)
      BY <2>1, <2>2, <2>11, <2>12, <2>13, TailTodo, Zenon DEF k
    <3>3. r.s = s /\ r.out = {}
      BY Zenon
    <3>4. Same(s, r.s) /\ Shows(e, s, r)
      BY <2>9, <2>10, <3>3, Zenon DEF Same, Shows, OutShown, Kept, Rest, Core, SockGood
    <3> HIDE DEF r
    <3>5. e = "client" => Later(sk["client"], s)
      BY <2>11, Zenon DEF o
    <3> QED BY <2>2, <2>9, <2>11, <3>1, <3>2, <3>4, <3>5, EmitSession, Zenon DEF c
  <2>14. CASE "app" \in s.tx \cap s.rx
    <3> DEFINE r == Completed(e, s, filling)
               v == [s EXCEPT !.state = "established"]
               m == IF e = "client" THEN "CIDS" ELSE "DONE"
               w == Ended(e, s)
    <3>1. Emit(e, r, net)
      BY <2>3, <2>14, Zenon
    <3>2. DOMAIN s = Fields /\ s.need_sack \subseteq PacketLevels /\ Tracks(s) /\ s.got \subseteq Names
      BY <2>9, <2>10, Zenon DEF SockGood, Core, Typed
    <3>3. Same(v, r.s) /\ Shows(e, w, r)
      BY <3>2, CompletedSends, <2>CompletedShows, Zenon DEF Sends
    <3>4. /\ v.state = "established" /\ v.dest = s.dest /\ v.rx = s.rx /\ v.todo = s.todo
          /\ v.backlog = s.backlog /\ v.need_sack = s.need_sack
      BY <3>2, Zenon DEF Fields
    <3>5. /\ w.state = "established" /\ w.dest = s.dest /\ w.ikey = s.ikey
          /\ w.token = s.token /\ w.tx = s.tx /\ w.rx = s.rx /\ w.queue = s.queue \cup {m}
          /\ w.sent = s.sent /\ w.lost = s.lost /\ w.got = s.got /\ w.read = s.read
          /\ w.todo = s.todo /\ w.validated = s.validated /\ w.credit = s.credit
          /\ w.peer = s.peer /\ w.backlog = s.backlog /\ w.need_sack = s.need_sack
      BY <3>2, Zenon DEF Ended, Fields
    <3>6. m \in Names /\ m # "SH" /\ m # "FIN"
      BY Zenon DEF Names
    <3> HIDE DEF m, v, w, r
    <3>7. Same(w, r.s)
      BY <3>3, <3>4, <3>5, Zenon DEF Same
    <3>8. Core(e, w, c)
      <4>1. e # "client" => "FIN" \in s.got
        BY <2>9, <2>14, Zenon DEF Core, ServerCore
      <4>2. s.state # "closed"
        BY <2>2, <2>11, Zenon
      <4> QED BY <2>9, <3>5, <3>6, <4>1, <4>2, QueuedCore, Zenon
    <3>9. Todo(e, w)
      BY <2>1, <2>2, <2>11, <3>5, TailTodo, Zenon DEF k
    <3>10. e = "client" => Later(sk["client"], w)
      BY <2>11, <3>5, Zenon DEF o, Later
    <3> QED BY <2>2, <3>1, <3>3, <3>5, <3>7, <3>8, <3>9, <3>10, EmitSession, Zenon DEF c
  <2> QED BY <2>13, <2>14, Zenon
<1>SendMsgSession. ASSUME IInv, SessionInv, NEW e \in Socks, SendMsg(e) PROVE SessionInv'
  <2> USE <1>SendMsgSession
  <2> DEFINE o == sk[e]
             c == sk["client"]
             m == Head(o.todo).frame
             s == [o EXCEPT !.queue = @ \cup {m}, !.todo = Tail(@)]
  <2>1. /\ DOMAIN o = Fields /\ o.need_sack \subseteq PacketLevels /\ Core(e, o, c) /\ Todo(e, o)
        /\ o.got \subseteq Names
    BY Standing, Zenon
  <2>2. o.state # "closed" /\ o.todo # <<>> /\ Head(o.todo).op = "msg" /\ UNCHANGED listener
    BY ClosedIdle, Zenon DEF SendMsg
  <2>3. /\ m \in Names
        /\ e = "client" => m # "SH" /\ (m = "FIN" => o.state = "established")
    BY <2>1, <2>2, HeadTodo, Zenon
  <2>4. PICK r : Emit(e, r, net) /\ (r = [s |-> s, out |-> {}] \/ \E filling : r = transmit(e, s, filling))
    BY Zenon DEF SendMsg
  <2> HIDE DEF m
  <2>5. /\ DOMAIN s = Fields /\ s.state = o.state /\ s.dest = o.dest /\ s.ikey = o.ikey
        /\ s.token = o.token /\ s.tx = o.tx /\ s.rx = o.rx /\ s.queue = o.queue \cup {m}
        /\ s.sent = o.sent /\ s.lost = o.lost /\ s.got = o.got /\ s.read = o.read
        /\ s.todo = Tail(o.todo) /\ s.validated = o.validated /\ s.credit = o.credit
        /\ s.peer = o.peer /\ s.backlog = o.backlog /\ s.need_sack = o.need_sack
    BY <2>1, Zenon DEF Fields
  <2> HIDE DEF s
  <2>6. Core(e, s, c)
    <3>1. s.state = "established" /\ e # "client" => "FIN" \in o.got
      BY <2>1, <2>5, Zenon DEF Core, ServerCore
    <3> HIDE DEF o, c
    <3> QED BY <2>1, <2>2, <2>3, <2>5, <3>1, QueuedCore, Zenon
  <2>7. Todo(e, s)
    <3>1. ~RecvKey(Head(o.todo), "app") /\ ~SendKey(Head(o.todo), "app")
      BY <2>2, Zenon DEF RecvKey, SendKey
    <3> HIDE DEF o
    <3> QED BY <2>1, <2>2, <2>5, <3>1, TailTodo, Zenon
  <2>8. e = "client" => Later(c, s)
    BY <2>5, Zenon DEF Later
  <2>9. Same(s, r.s) /\ Shows(e, s, r)
    <3>1. CASE r = [s |-> s, out |-> {}]
      BY <2>5, <2>6, <3>1, Zenon DEF Same, Shows, OutShown, Kept, Rest, Core
    <3>2. CASE \E filling : r = transmit(e, s, filling)
      <4>1. Tracks(s)
        BY <2>6, Zenon DEF Core
      <4> QED BY <2>1, <2>5, <3>2, <4>1, TransmitSends, TransmitShows, Zenon DEF Sends
    <3> QED BY <2>4, <3>1, <3>2, Zenon
  <2> QED BY <2>2, <2>4, <2>5, <2>6, <2>7, <2>8, <2>9, EmitSession, Zenon
(* The timers send from a state that differs in nothing that is known.         *)
<1>TransmitSession.
  ASSUME IInv, SessionInv, NEW e \in Socks, sk[e].state # "closed", NEW s, Same(sk[e], s), Kept(sk[e], s),
         NEW filling, Emit(e, transmit(e, s, filling), net), UNCHANGED listener
  PROVE  SessionInv'
  <2> USE <1>TransmitSession
  <2>1. /\ sk[e].need_sack \subseteq PacketLevels /\ Core(e, sk[e], sk["client"]) /\ Todo(e, sk[e])
        /\ sk[e].got \subseteq Names
    BY Standing, Zenon
  <2>2. Core(e, s, sk["client"]) /\ Todo(e, s)
    BY <2>1, SentCore, Zenon
  <2>3. /\ DOMAIN s = Fields /\ s.need_sack \subseteq PacketLevels /\ Tracks(s) /\ s.got \subseteq Names
        /\ s.state # "closed" /\ (e = "client" => Later(sk["client"], s))
    BY <2>1, Zenon DEF Same, Kept, Rest, Later
  <2> DEFINE r == transmit(e, s, filling)
  <2>4. Same(s, r.s) /\ Shows(e, s, r)
    BY <2>3, TransmitSends, TransmitShows, Zenon DEF Sends
  <2> HIDE DEF r
  <2>5. Emit(e, r, net)
    BY Zenon DEF r
  <2> QED BY <2>2, <2>3, <2>4, <2>5, EmitSession, Zenon
<1>MarkedKept.
  ASSUME NEW s, DOMAIN s = Fields, Tracks(s), NEW F, F \subseteq Range(s.sent)
  PROVE  LET t == update_loss_timer(retransmit_mark(s, F, TRUE)) IN Same(s, t) /\ Kept(s, t)
  <2> USE <1>MarkedKept
  <2> DEFINE k == retransmit_mark(s, F, TRUE)
  <2>1. Same(s, k) /\ Kept(s, k)
    <3>1. \A aged : Same(s, retransmit_mark(s, F, aged)) /\ Kept(s, retransmit_mark(s, F, aged))
      BY MarkSame, MarkKept, Zenon
    <3> QED BY <3>1, Zenon
  <2> HIDE DEF k
  <2>2. Same(k, update_loss_timer(k)) /\ Kept(k, update_loss_timer(k))
    BY <2>1, TimerSame, TimerKept, Zenon DEF Kept, Rest
  <2>3. Same(s, update_loss_timer(k)) /\ Kept(s, update_loss_timer(k))
    BY <2>1, <2>2, SameTransitive, KeptTransitive, Zenon
  <2> QED BY <2>3, Zenon DEF k
<1>SackTimerSession.
  ASSUME IInv, SessionInv, NEW e \in Socks, SackTimer(e) PROVE SessionInv'
  <2> USE <1>SackTimerSession
  <2> DEFINE s == [sk[e] EXCEPT !.sack_flag = FALSE]
  <2>1. DOMAIN sk[e] = Fields /\ Tracks(sk[e])
    BY Standing, Zenon
  <2>2. sk[e].state # "closed" /\ UNCHANGED listener
    BY ClosedIdle, Zenon DEF SackTimer
  <2>3. PICK filling : Emit(e, transmit(e, s, filling), net)
    BY Zenon DEF SackTimer
  <2>4. Same(sk[e], s) /\ Untouched(sk[e], s)
    BY <2>1, Zenon DEF Same, Untouched, Rest, Fields
  <2> HIDE DEF s
  <2>5. Kept(sk[e], s)
    BY <2>1, <2>4, UntouchedKept, Zenon
  <2> QED BY <2>2, <2>3, <2>4, <2>5, <1>TransmitSession, Zenon
<1>LossTimerSession.
  ASSUME IInv, SessionInv, NEW e \in Socks, LossTimer(e) PROVE SessionInv'
  <2> USE <1>LossTimerSession
  <2>1. DOMAIN sk[e] = Fields /\ Tracks(sk[e])
    BY Standing, Zenon
  <2>2. sk[e].state # "closed" /\ UNCHANGED listener
    BY ClosedIdle, Zenon DEF LossTimer
  <2>3. PICK filling, l, s :
          /\ s = update_loss_timer(retransmit_mark(sk[e], At(sk[e].lost, l), TRUE))
          /\ Emit(e, transmit(e, s, filling), net)
    BY Zenon DEF LossTimer
  <2> DEFINE F == At(sk[e].lost, l)
  <2>4. F \subseteq Range(sk[e].sent)
    BY <2>1, Zenon DEF At, Tracks
  <2> HIDE DEF F
  <2>5. \A G : G \subseteq Range(sk[e].sent) =>
          LET t == update_loss_timer(retransmit_mark(sk[e], G, TRUE)) IN Same(sk[e], t) /\ Kept(sk[e], t)
    BY <2>1, <1>MarkedKept, Zenon
  <2>6. Same(sk[e], s) /\ Kept(sk[e], s)
    BY <2>3, <2>4, <2>5, Zenon DEF F
  <2> QED BY <2>2, <2>3, <2>6, <1>TransmitSession, Zenon
<1>PtoSession. \A e \in Socks : IInv /\ SessionInv /\ Pto(e) => SessionInv'
  <2>ProbedShows.
    \A e, s, l, filling :
      /\ DOMAIN s = Fields /\ s.need_sack \subseteq PacketLevels /\ Tracks(s) /\ s.got \subseteq Names
      => Shows(e, s, Probed(e, s, l, filling))
    <3>SingleShows.
      ASSUME NEW e, NEW s, DOMAIN s = Fields, s.need_sack \subseteq PacketLevels, Tracks(s),
             s.got \subseteq Names, NEW l
      PROVE  Shows(e, s, transmit_single(e, s, l))
      <4> USE <3>SingleShows
      <4> DEFINE G == Single(s, l)
                 n == Allowed(e, s, Cardinality(G))
                 F == First(G, n)
                 owed == s.need_sack \cap s.tx \cap {l}
                 p == Packed(e, s, F, owed)
                 q == [p EXCEPT !.blocked = @ \/ n < Cardinality(G)]
                 out == Sent(e, s, F, owed)
      <4>1. transmit_single(e, s, l) = [s |-> q, out |-> out]
        BY Zenon DEF transmit_single
      <4>2. G \subseteq s.queue \cup Range(s.sent) /\ \A f \in G : LevelOf(f) \in s.tx
        BY Zenon DEF Single, First, At, Ready, Tracks
      <4>3. G \subseteq Range(Order)
        BY <4>2, Places, Zenon DEF Tracks
      <4>4. F \subseteq G
        BY Zenon DEF First
      <4>5. e # "client" /\ ~s.validated => Cardinality(F) \in Nat /\ Cardinality(F) <= s.credit
        BY <4>3, AllowedBound, Zenon
      <4>6. owed \subseteq s.tx \cap PacketLevels
        BY Zenon
      <4> HIDE DEF F, owed, n, G
      <4>7. F \subseteq s.queue \cup Range(s.sent) /\ \A f \in F : LevelOf(f) \in s.tx
        BY <4>2, <4>4, Zenon
      <4>8. OutShown(e, s, out)
        BY <4>6, <4>7, SentShown, Zenon
      <4>9. Kept(s, p)
        BY <4>5, <4>7, PackedKept, Zenon
      <4> HIDE DEF p
      <4>10. Untouched(p, q)
        BY <4>9, Zenon DEF Untouched, Kept, Rest, Fields
      <4> HIDE DEF q
      <4>11. Kept(s, q)
        BY <4>9, <4>10, UntouchedKept, KeptTransitive, Zenon DEF Kept
      <4> HIDE DEF out
      <4> QED BY <4>1, <4>8, <4>11 DEF Shows
    <3> SUFFICES ASSUME NEW e, NEW s, DOMAIN s = Fields, s.need_sack \subseteq PacketLevels, Tracks(s),
                        s.got \subseteq Names, NEW l, NEW filling
                 PROVE  Shows(e, s, Probed(e, s, l, filling))
      BY Zenon
    <3> DEFINE r == transmit_single(e, s, l)
               k == [r.s EXCEPT !.queue = @ \cup {Ping(l)}]
               q == transmit(e, k, filling)
               v == [q EXCEPT !.out = @ \cup r.out]
               o == IF \E p \in r.out : p.frame \in Names THEN r ELSE v
               x == [o EXCEPT !.s = update_loss_timer(@)]
    <3>1. Shows(e, s, r) /\ Sends(e, s, r)
      BY <3>SingleShows, SingleSends, Zenon
    <3>2. DOMAIN r = {"s", "out"} /\ DOMAIN q = {"s", "out"}
      BY Zenon DEF transmit, transmit_single
    <3>3. Probed(e, s, l, filling) = x
      BY Zenon DEF Probed
    <3> HIDE DEF r
    <3>4. /\ Rest(r.s, k) /\ k.queue = r.s.queue \cup {Ping(l)} /\ k.sent = r.s.sent
          /\ k.lost = r.s.lost /\ k.credit = r.s.credit /\ k.need_sack = r.s.need_sack
          /\ k.dest = r.s.dest
      BY <3>1, Zenon DEF Shows, Kept, Rest, Fields
    <3> HIDE DEF k
    <3>5. Ping(l) \in Range(Order) /\ Ping(l) \notin Names
      <4>1. /\ DOMAIN Order = 1 .. 10 /\ Order[3] = "PING1" /\ Order[7] = "PING2" /\ Order[10] = "PING3"
        BY DEF Order
      <4>2. {"PING1", "PING2", "PING3"} \subseteq Range(Order)
        BY <4>1 DEF Range
      <4> QED BY <4>2, Zenon DEF Ping, Names
    <3>6. Kept(r.s, k)
      <4>1. Tracks(r.s)
        BY <3>1, Zenon DEF Shows, Kept
      <4> QED BY <3>4, <3>5, <4>1, Zenon DEF Kept, Tracks, Frames, Rest
    <3>7. Kept(s, k) /\ k.dest = s.dest /\ k.need_sack \subseteq PacketLevels
      <4>1. Kept(s, r.s) /\ Same(s, r.s)
        BY <3>1, Zenon DEF Shows, Sends
      <4> QED BY <3>4, <3>6, <4>1, KeptTransitive, Zenon DEF Same
    <3>8. Shows(e, k, q)
      <4>1. DOMAIN k = Fields /\ Tracks(k) /\ k.got \subseteq Names
        BY <3>7, Zenon DEF Kept, Rest
      <4> QED BY <3>7, <4>1, TransmitShows, Zenon
    <3> HIDE DEF q
    <3>9. Shows(e, s, q)
      <4>1. OutShown(e, s, q.out)
        BY <3>7, <3>8, OutMoves, Zenon DEF Shows, Kept
      <4>2. Kept(s, q.s)
        BY <3>7, <3>8, KeptTransitive, Zenon DEF Shows
      <4> QED BY <4>1, <4>2, Zenon DEF Shows
    <3>vs. v.s = q.s /\ v.out = q.out \cup r.out /\ DOMAIN v = {"s", "out"}
      BY <3>2, Zenon
    <3> HIDE DEF v
    <3>10. Shows(e, s, o) /\ DOMAIN o = {"s", "out"}
      <4>1. Shows(e, s, v)
        BY <3>1, <3>9, <3>vs, Zenon DEF Shows, OutShown
      <4> QED BY <3>1, <3>2, <3>vs, <4>1, Zenon
    <3> HIDE DEF o
    <3>11. x.s = update_loss_timer(o.s) /\ x.out = o.out
      BY <3>10, Zenon
    <3>12. Kept(o.s, update_loss_timer(o.s))
      BY <3>10, TimerKept, Zenon DEF Shows, Kept, Rest
    <3> HIDE DEF x
    <3>13. Shows(e, s, x)
      BY <3>10, <3>11, <3>12, KeptTransitive, Zenon DEF Shows
    <3> QED BY <3>3, <3>13, Zenon
  <2> SUFFICES ASSUME IInv, SessionInv, NEW e \in Socks, Pto(e) PROVE SessionInv'
    BY Zenon
  <2>1. /\ DOMAIN sk[e] = Fields /\ Tracks(sk[e]) /\ sk[e].need_sack \subseteq PacketLevels
        /\ Core(e, sk[e], sk["client"]) /\ Todo(e, sk[e]) /\ sk[e].got \subseteq Names
    BY Standing, Zenon
  <2>2. sk[e].state # "closed" /\ UNCHANGED listener
    BY ClosedIdle, Zenon DEF Pto
  <2>3. PICK filling : Emit(e, Probed(e, sk[e], pto_level(sk[e]), filling), net)
    BY Zenon DEF Pto, Probed
  <2> DEFINE r == Probed(e, sk[e], pto_level(sk[e]), filling)
  <2>4. Same(sk[e], r.s) /\ Shows(e, sk[e], r)
    BY <2>1, ProbedSends, <2>ProbedShows, Zenon DEF Sends
  <2>5. e = "client" => Later(sk["client"], sk[e])
    BY Zenon DEF Later
  <2> HIDE DEF r
  <2>6. Emit(e, r, net)
    BY <2>3, Zenon DEF r
  <2> QED BY <2>1, <2>2, <2>4, <2>5, <2>6, EmitSession, Zenon
<1>GrownTodo.
  ASSUME NEW e, NEW s, NEW t, Todo(e, s), Grown(e, s, t)
  PROVE  Todo(e, t)
  <2> USE <1>GrownTodo
  <2>1. t.tx = s.tx /\ t.state = s.state /\ t.todo = s.todo /\ s.got \subseteq t.got
    BY Zenon DEF Grown
  <2>2. e = "client" => ClientTodo(t)
    BY <2>1, Zenon DEF Todo, ClientTodo
  <2>3. e # "client" => ServerTodo(t)
    BY <2>1, Zenon DEF Todo, ServerTodo
  <2> QED BY <2>1, <2>2, <2>3, Zenon DEF Todo
(* A socket processes a packet.                                                *)
<1>ProcessSession.
  ASSUME IInv, SessionInv, NEW e \in Socks, sk[e].state # "closed", NEW p,
         Arrives(e, p, sk["client"]), NEW aged, sk' = [sk EXCEPT ![e] = process(e, sk[e], p, aged)]
  PROVE  SessionSocks' /\ Later(sk["client"], sk'["client"])
  <2> USE <1>ProcessSession
  <2>1. /\ DOMAIN sk[e] = Fields /\ IsSeq(sk[e].backlog) /\ Core(e, sk[e], sk["client"])
        /\ Todo(e, sk[e]) /\ (e = "client" \/ e \in Servers)
    BY Standing, Zenon
  <2> DEFINE t == process(e, sk[e], p, aged)
  <2>2. Core(e, t, sk["client"]) /\ Grown(e, sk[e], t)
    BY <2>1, ProcessCore, Zenon
  <2>3. sk' = [sk EXCEPT ![e] = t]
    BY Zenon
  <2> HIDE DEF t
  <2>4. Todo(e, t)
    BY <2>1, <2>2, <1>GrownTodo, Zenon
  <2>5. e = "client" => Later(sk["client"], t)
    BY <2>2, Zenon DEF Grown
  <2> QED BY <2>2, <2>3, <2>4, <2>5, SessionMoves, Zenon
<1>ReceiveSession. ASSUME IInv, SessionInv, NEW p \in net, Receive(p) PROVE SessionInv'
  <2> USE <1>ReceiveSession
  <2>1. PICK e \in Lookup(p) : \E aged : sk' = [sk EXCEPT ![e] = process(e, sk[e], p, aged)]
    BY Zenon DEF Receive
  <2>2. PICK aged : sk' = [sk EXCEPT ![e] = process(e, sk[e], p, aged)]
    BY <2>1, Zenon
  <2>3. PacketGood(p, Accepted) /\ p.level # "retry" /\ Accepted \subseteq Servers
    BY Zenon DEF IInv, NetInv, Receive, Accepted
  <2>4. /\ e \in Socks /\ sk[e].state # "closed" /\ (e = "client" <=> p.to = "client")
    BY RetryAssumption, Zenon DEF Lookup, Hashed, IInv, SockInv, SockGood, Socks, Servers
  <2>5. Arrives(e, p, sk["client"])
    <3>1. p \in Packets /\ (p.to = "server" => Shown(p, sk["client"]))
      BY Zenon DEF SessionInv, SessionNet
    <3>2. p.to \in {"client", "server"} /\ p.level \in PacketLevels /\ (p.to = "client" => p.from \in Servers)
      BY <2>3, Zenon DEF PacketGood
    <3> QED BY <2>4, <3>1, <3>2, Zenon DEF Arrives
  <2>6. SessionSocks' /\ Later(sk["client"], sk'["client"])
    BY <2>2, <2>4, <2>5, <1>ProcessSession, Zenon
  <2>7. reqs' = reqs /\ waiting' = waiting /\ net' \subseteq net
    BY Zenon DEF Receive, listener
  <2> QED BY <2>6, <2>7, ListenerKeeps, Zenon DEF SessionInv
<1>ReceiveRetrySession.
  ASSUME IInv, SessionInv, NEW p \in net, ReceiveRetry(p) PROVE SessionInv'
  <2> USE <1>ReceiveRetrySession
  <2> DEFINE s == sk["client"]
             r == [s EXCEPT !.token = p.token, !.ikey = p.from, !.dest = <<"first", p.from>>]
             F == At(Range(s.sent), "initial")
             m == update_loss_timer(retransmit_mark(r, F, TRUE))
             x == transmit("client", m, FALSE)
  <2>1. Emit("client", x, net \ {p}) /\ UNCHANGED listener
    BY Zenon DEF ReceiveRetry, RetryAccepted
  <2>2. "client" \in Socks
    BY Zenon DEF Socks
  <2>3. /\ DOMAIN s = Fields /\ s.need_sack \subseteq PacketLevels /\ Core("client", s, s)
        /\ Todo("client", s) /\ s.got \subseteq Names /\ s.state # "closed"
    BY <2>2, Standing, Zenon DEF SockGood
  <2>4. p.token \in Retries \cup {None} /\ p.from \in Socks
    BY Zenon DEF SessionInv, SessionNet, Packets
  <2>5. /\ DOMAIN r = Fields /\ r.state = s.state /\ r.dest = <<"first", p.from>> /\ r.ikey = p.from
        /\ r.token = p.token /\ r.tx = s.tx /\ r.rx = s.rx /\ r.queue = s.queue
        /\ r.sent = s.sent /\ r.lost = s.lost /\ r.got = s.got /\ r.read = s.read
        /\ r.todo = s.todo /\ r.validated = s.validated /\ r.credit = s.credit
        /\ r.peer = s.peer /\ r.backlog = s.backlog /\ r.need_sack = s.need_sack
    BY <2>3, Zenon DEF Fields
  <2>6. F \subseteq Range(r.sent)
    BY <2>5, Zenon DEF At
  <2> HIDE DEF r, F
  <2>7. Core("client", r, s)
    <3>1. Tracks(r) /\ Frames(r) = Frames(s)
      BY <2>3, <2>5, Zenon DEF Core, Tracks, Frames
    <3>2. <<"first", p.from>> \in {"first", "own"} \X Socks
      BY <2>4, Zenon
    <3>3. Typed(r)
      BY <2>3, <2>4, <2>5, <3>2, Zenon DEF Core, Typed
    <3>4. ClientCore(r)
      BY <2>3, <2>5, <3>1, Zenon DEF Core, ClientCore
    <3> QED BY <3>1, <3>3, <3>4, Zenon DEF Core
  <2>8. Todo("client", r) /\ Later(s, r)
    BY <2>3, <2>5 DEF Todo, ClientTodo, Later
  <2>9. Same(r, m) /\ Kept(r, m)
    <3>1. Tracks(r)
      BY <2>7, Zenon DEF Core
    <3> QED BY <2>5, <2>6, <3>1, <1>MarkedKept, Zenon
  <2> HIDE DEF m
  <2>10. Core("client", m, s) /\ Todo("client", m)
    BY <2>7, <2>8, <2>9, SentCore, Zenon
  <2>11. /\ DOMAIN m = Fields /\ m.need_sack \subseteq PacketLevels /\ Tracks(m) /\ m.got \subseteq Names
         /\ m.state # "closed" /\ Later(s, m)
    BY <2>3, <2>5, <2>8, <2>9, Zenon DEF Same, Kept, Rest, Later
  <2>12. Same(m, x.s) /\ Shows("client", m, x)
    <3>1. \A b : LET y == transmit("client", m, b) IN Same(m, y.s) /\ Shows("client", m, y)
      BY <2>11, TransmitSends, TransmitShows, Zenon DEF Sends
    <3> QED BY <3>1, Zenon
  <2> HIDE DEF x
  <2>13. net \ {p} \subseteq net
    BY Zenon
  <2> QED BY <2>1, <2>2, <2>10, <2>11, <2>12, <2>13, EmitSession, Zenon
<1>AppendShown.
  ASSUME NEW q, IsSeq(q), NEW c, \A i \in DOMAIN q : Shown(q[i], c), NEW p, Shown(p, c)
  PROVE  \A i \in DOMAIN Append(q, p) : Shown(Append(q, p)[i], c)
  <2> USE <1>AppendShown
  <2>1. /\ Len(q) \in Nat /\ DOMAIN q = 1 .. Len(q) /\ DOMAIN Append(q, p) = 1 .. Len(q) + 1
        /\ \A i \in 1 .. Len(q) + 1 : Append(q, p)[i] = IF i <= Len(q) THEN q[i] ELSE p
    BY Appended, SeqParts, Zenon
  <2> QED BY <2>1
<1>ListenSession.
  ASSUME IInv, SessionInv, NEW p, ToFirst(p), Shown(p, sk["client"]), NEW n, n \subseteq net, Listen(p, n)
  PROVE  /\ SessionSocks' /\ SessionNet' /\ SessionRequests'
         /\ Later(sk["client"], sk'["client"])
  <2> USE <1>ListenSession
  <2> DEFINE c == sk["client"]
  <2>0. Later(c, c)
    BY Zenon DEF Later
  <2>1. CASE QueueToRequest(p, n)
    <3>1. sk' = sk /\ net' = n
      BY <2>1, Zenon DEF QueueToRequest
    <3>2. /\ DOMAIN reqs' = DOMAIN reqs
          /\ \A i \in DOMAIN reqs :
               \/ reqs'[i] = reqs[i]
               \/ reqs'[i] = [reqs[i] EXCEPT !.backlog = Append(@, p)]
      BY <2>1, Zenon DEF QueueToRequest
    <3>3. ASSUME NEW i \in DOMAIN reqs
          PROVE  \A j \in DOMAIN reqs'[i].backlog : Shown(reqs'[i].backlog[j], c)
      <4> DEFINE q == reqs[i].backlog
      <4>1. /\ DOMAIN reqs[i] = {"dcid", "backlog"} /\ IsSeq(q) /\ \A j \in DOMAIN q : Shown(q[j], c)
        BY Zenon DEF IInv, RequestInv, SessionInv, SessionRequests
      <4>2. reqs'[i].backlog \in {q, Append(q, p)}
        BY <3>2, <4>1, Zenon
      <4> HIDE DEF q
      <4>3. \A j \in DOMAIN Append(q, p) : Shown(Append(q, p)[j], c)
        BY <4>1, <1>AppendShown, Zenon
      <4> QED BY <4>1, <4>2, <4>3, Zenon
    <3>4. SessionRequests'
      BY <3>1, <3>2, <3>3, Zenon DEF SessionRequests
    <3>5. SessionSocks' /\ SessionNet'
      BY <3>1, Zenon DEF SessionSocks, SessionNet, SessionInv
    <3> QED BY <2>0, <3>1, <3>4, <3>5, Zenon
  <2>2. CASE ProcessAccepted(p, n)
    <3>1. PICK x \in Servers : p.dcid = <<"first", x>>
      BY Zenon DEF ToFirst
    <3>2. PICK aged : sk' = [sk EXCEPT ![x] = process(x, sk[x], p, aged)]
      <4>1. p.dcid[2] = x
        BY <3>1
      <4> QED BY <2>2, <4>1, Zenon DEF ProcessAccepted
    <3>3. /\ x \in Socks /\ x # "client" /\ sk[x].state # "closed"
      BY <2>2, <3>1, ServerNames DEF ProcessAccepted, accept_sock_exists, Hashed
    <3>4. Arrives(x, p, c)
      BY <3>3, Zenon DEF Arrives, Shown, ToFirst
    <3>5. SessionSocks' /\ Later(c, sk'["client"])
      BY <3>2, <3>3, <3>4, <1>ProcessSession, Zenon
    <3> QED BY <2>2, <3>5, ListenerKeeps, Zenon DEF ProcessAccepted
  <2>3. CASE Ignore(p, n)
    BY <2>0, <2>3, ListenerKeeps, Zenon DEF Ignore, SessionInv, SessionSocks
  <2>4. CASE SendRetry(p, n)
    <3>1. PICK r \in Retries : net' = n \cup {RetryPacket(r)}
      BY <2>4, Zenon DEF SendRetry
    <3>2. sk' = sk /\ reqs' = reqs
      BY <2>4, Zenon DEF SendRetry
    <3>3. RetryPacket(r) \in Packets /\ RetryPacket(r).to = "client"
      BY Zenon DEF RetryPacket, Packets, Socks, Servers
    <3>4. SessionNet'
      BY <3>1, <3>2, <3>3, Zenon DEF SessionInv, SessionNet
    <3> QED BY <2>0, <3>2, <3>4, ListenerKeeps, Zenon DEF SessionInv, SessionSocks
  <2>5. CASE MakeRequest(p, n)
    <3> DEFINE q == [dcid |-> p.dcid[2], backlog |-> <<p>>]
    <3>1. sk' = sk /\ net' = n /\ reqs' = Append(reqs, q)
      BY <2>5, Zenon DEF MakeRequest
    <3>2. \A j \in DOMAIN q.backlog : Shown(q.backlog[j], c)
      <4>1. DOMAIN <<p>> = {1} /\ <<p>>[1] = p
        OBVIOUS
      <4> QED BY <4>1, Zenon
    <3> HIDE DEF q
    <3>3. /\ Len(reqs) \in Nat /\ DOMAIN reqs = 1 .. Len(reqs) /\ DOMAIN reqs' = 1 .. Len(reqs) + 1
          /\ \A i \in 1 .. Len(reqs) + 1 : reqs'[i] = IF i <= Len(reqs) THEN reqs[i] ELSE q
      BY <3>1, Appended, SeqParts, Zenon DEF IInv, RequestInv
    <3>4. \A i \in DOMAIN reqs' : reqs'[i] = q \/ (i \in DOMAIN reqs /\ reqs'[i] = reqs[i])
      BY <3>3
    <3>5. SessionRequests'
      BY <3>1, <3>2, <3>4, Zenon DEF SessionInv, SessionRequests
    <3>6. SessionSocks' /\ SessionNet'
      BY <3>1, Zenon DEF SessionSocks, SessionNet, SessionInv
    <3> QED BY <2>0, <3>1, <3>5, <3>6, Zenon
  <2> QED BY <2>1, <2>2, <2>3, <2>4, <2>5, Zenon DEF Listen
<1>ReceiveListenSession.
  ASSUME IInv, SessionInv, NEW p \in net, ReceiveListen(p) PROVE SessionInv'
  <2> USE <1>ReceiveListenSession
  <2>1. ToFirst(p)
    BY ListenerPackets, Zenon DEF ReceiveListen
  <2>2. Shown(p, sk["client"])
    <3>1. p \in Packets /\ p.to # "client"
      BY Zenon DEF SessionInv, SessionNet, ReceiveListen, Lookup
    <3>2. p.to = "server"
      BY <3>1, Zenon DEF Packets
    <3> QED BY <3>2, Zenon DEF SessionInv, SessionNet
  <2>3. CASE Listen(p, net \ {p}) /\ waiting' = waiting
    <3>1. net \ {p} \subseteq net
      BY Zenon
    <3>2. /\ SessionSocks' /\ SessionNet' /\ SessionRequests' /\ Later(sk["client"], sk'["client"])
      BY <2>1, <2>2, <2>3, <3>1, <1>ListenSession, Zenon
    <3> QED BY <2>3, <3>2, ListenerKeeps, Zenon DEF SessionInv
  <2>4. CASE waiting' = Append(waiting, p) /\ net' = net \ {p} /\ UNCHANGED <<sk, reqs>>
    <3>1. SessionSocks' /\ SessionNet' /\ SessionRequests'
      BY <2>4, Zenon DEF SessionInv, SessionSocks, SessionNet, SessionRequests
    <3>2. \A i \in DOMAIN Append(waiting, p) : Shown(Append(waiting, p)[i], sk["client"])
      BY <2>2, <1>AppendShown, Zenon DEF IInv, WaitingInv, SessionInv, SessionWaiting
    <3>3. SessionWaiting'
      BY <2>4, <3>2, Zenon DEF SessionWaiting
    <3> QED BY <3>1, <3>3, Zenon DEF SessionInv
  <2> QED BY <2>3, <2>4, Zenon DEF ReceiveListen
<1>ListenerBacklogSession. ASSUME IInv, SessionInv, ListenerBacklog PROVE SessionInv'
  <2> USE <1>ListenerBacklogSession
  <2>1. /\ Len(waiting) \in Nat \ {0} /\ Head(waiting) = waiting[1]
        /\ DOMAIN waiting' = 1 .. Len(waiting) - 1
        /\ \A i \in 1 .. Len(waiting) - 1 : waiting'[i] = waiting[i + 1]
        /\ DOMAIN waiting = 1 .. Len(waiting)
    BY Tailed, SeqParts, Zenon DEF ListenerBacklog, IInv, WaitingInv
  <2>2. \A i \in 1 .. Len(waiting) : ToFirst(waiting[i]) /\ Shown(waiting[i], sk["client"])
    BY <2>1, Zenon DEF IInv, WaitingInv, SessionInv, SessionWaiting
  <2>3. ToFirst(Head(waiting)) /\ Shown(Head(waiting), sk["client"])
    BY <2>1, <2>2
  <2>4. /\ SessionSocks' /\ SessionNet' /\ SessionRequests' /\ Later(sk["client"], sk'["client"])
    BY <2>3, <1>ListenSession, Zenon DEF ListenerBacklog
  <2>5. \A i \in DOMAIN waiting' : Shown(waiting'[i], sk["client"])
    BY <2>1, <2>2
  <2>6. \A i \in DOMAIN waiting' : Shown(waiting'[i], sk'["client"])
    BY <2>4, <2>5, LaterKeeps, Zenon
  <2>7. SessionWaiting'
    BY <2>6, Zenon DEF SessionWaiting
  <2> QED BY <2>4, <2>7, Zenon DEF SessionInv
<1>AcceptSetupSession. IInv /\ SessionInv /\ AcceptSetup => SessionInv'
  (* The socket accept() makes knows nothing but what the request holds.         *)
  <2>NewSockCore.
    ASSUME NEW e \in Servers, NEW c, NEW s,
           s = [NewSock EXCEPT !.dest = <<"own", "client">>, !.ikey = e, !.peer = e]
    PROVE  Core(e, s, c) /\ Todo(e, s)
    <3> USE <2>NewSockCore
    <3>1. /\ s.dest = <<"own", "client">> /\ s.ikey = e /\ s.peer = e /\ s.state = "establishing"
          /\ s.token = None /\ s.tx = {"initial"} /\ s.rx = {"initial"} /\ s.queue = {} /\ s.sent = <<>>
          /\ s.lost = {} /\ s.got = {} /\ s.read = 0 /\ s.todo = <<>> /\ s.backlog = <<>>
          /\ s.validated = FALSE /\ s.credit = 0
      BY Zenon DEF NewSock
    <3>2. IsSeq(<<>>) /\ DOMAIN <<>> = {}
      <4>1. <<>> \in Seq({})
        OBVIOUS
      <4> QED BY <4>1 DEF IsSeq
    <3>3. Tracks(s)
      BY <3>1, RowEmpty, BoundsAssumption DEF Tracks
    <3>4. Typed(s)
      <4>1. <<"own", "client">> \in {"first", "own"} \X Socks
        BY Zenon DEF Socks
      <4> QED BY <3>1, <3>2, <4>1, ServerNames DEF Typed
    <3>5. ServerCore(e, s, c)
      BY <3>1, <3>2, Zenon DEF ServerCore
    <3>6. Core(e, s, c)
      BY <3>3, <3>4, <3>5, ServerNames, Zenon DEF Core
    <3>7. Todo(e, s)
      BY <3>1, <3>2, ServerNames, Zenon DEF Todo, ServerTodo
    <3> QED BY <3>6, <3>7, Zenon
  <2> SUFFICES ASSUME IInv, SessionInv, AcceptSetup PROVE SessionInv'
    BY Zenon
  <2>1. reqs # <<>> /\ IsSeq(reqs)
    BY Zenon DEF AcceptSetup, IInv, RequestInv
  <2>2. /\ Len(reqs) \in Nat \ {0} /\ Head(reqs) = reqs[1]
        /\ DOMAIN reqs' = 1 .. Len(reqs) - 1
        /\ \A i \in 1 .. Len(reqs) - 1 : reqs'[i] = reqs[i + 1]
        /\ DOMAIN reqs = 1 .. Len(reqs)
    BY <2>1, Tailed, SeqParts, Zenon DEF AcceptSetup
  <2> DEFINE e == reqs[1].dcid
             c == sk["client"]
             ps == reqs[1].backlog
             n == [NewSock EXCEPT !.dest = <<"own", "client">>, !.ikey = e, !.peer = e]
  <2>3. PICK aged : sk' = [sk EXCEPT ![e] = processAll(e, n, ps, aged)]
    BY <2>2, Zenon DEF AcceptSetup
  <2>4. /\ e \in Servers /\ IsSeq(ps) /\ \A j \in DOMAIN ps : ps[j].level \in PacketLevels
    BY <2>2 DEF IInv, RequestInv
  <2>5. 1 \in DOMAIN reqs
    BY <2>2
  <2>6. \A j \in DOMAIN ps : Shown(ps[j], c)
    BY <2>5, Zenon DEF SessionInv, SessionRequests
  <2> HIDE DEF ps, e
  <2>7. e # "client" /\ e \in Socks
    BY <2>4, ServerNames, Zenon
  <2>8. \A j \in DOMAIN ps : Arrives(e, ps[j], c)
    BY <2>4, <2>6, <2>7, Zenon DEF Arrives, Shown
  <2>9. Core(e, n, c) /\ Todo(e, n)
    BY <2>4, <2>NewSockCore, Zenon
  <2>10. SockGood(e, n, Servers) /\ n.state # "closed"
    <3>1. /\ DOMAIN n = Fields /\ n.need_sack = {} /\ n.backlog = <<>> /\ n.state = "establishing"
      BY Zenon DEF NewSock, Fields
    <3>2. IsSeq(<<>>) /\ DOMAIN <<>> = {}
      <4>1. <<>> \in Seq({})
        OBVIOUS
      <4> QED BY <4>1 DEF IsSeq
    <3> HIDE DEF n
    <3> QED BY <2>7, <3>1, <3>2, Zenon DEF SockGood
  <2> HIDE DEF n
  <2> DEFINE t == processAll(e, n, ps, aged)
  <2>11. Core(e, t, c) /\ Grown(e, n, t)
    BY <2>4, <2>7, <2>8, <2>9, <2>10, ProcessAllCore, Zenon
  <2>12. sk' = [sk EXCEPT ![e] = t]
    BY <2>3, Zenon
  <2> HIDE DEF t
  <2>13. Todo(e, t)
    BY <2>9, <2>11, <1>GrownTodo, Zenon
  <2>14. SessionSocks' /\ Later(c, sk'["client"])
    BY <2>7, <2>11, <2>12, <2>13, SessionMoves, Zenon
  <2>15. \A i \in DOMAIN reqs' : i + 1 \in DOMAIN reqs /\ reqs'[i] = reqs[i + 1]
    BY <2>2
  <2>16. \A i \in DOMAIN reqs' : \A j \in DOMAIN reqs'[i].backlog : Shown(reqs'[i].backlog[j], c)
    BY <2>15, Zenon DEF SessionInv, SessionRequests
  <2>17. \A i \in DOMAIN reqs' : \A j \in DOMAIN reqs'[i].backlog :
           Shown(reqs'[i].backlog[j], sk'["client"])
    BY <2>14, <2>16, LaterKeeps, Zenon
  <2>18. SessionRequests'
    BY <2>17, Zenon DEF SessionRequests
  <2>19. SessionNet' /\ SessionWaiting'
    BY <2>14, ListenerKeeps, Zenon DEF AcceptSetup
  <2> QED BY <2>14, <2>18, <2>19, Zenon DEF SessionInv
<1> SUFFICES ASSUME IInv, SessionInv, [Next]_vars PROVE SessionInv'
  BY Zenon
<1>1. ASSUME NEW p \in net, Lose(p) PROVE SessionInv'
  BY <1>1, Zenon DEF Lose, listener, SessionInv, SessionSocks, SessionNet, SessionRequests, SessionWaiting
<1>2. CASE Accept
  BY <1>2, Zenon DEF Accept, SessionInv, SessionSocks, SessionNet, SessionRequests, SessionWaiting
<1>3. CASE Release
  BY <1>3, Zenon DEF Release, SessionInv, SessionSocks, SessionNet, SessionRequests, SessionWaiting
<1>4. CASE UNCHANGED vars
  BY <1>4, Zenon DEF vars, SessionInv, SessionSocks, SessionNet, SessionRequests, SessionWaiting
<1>5. CASE User
  BY <1>5, <1>RecvMsgSession, <1>SendMsgSession, <1>SetSecretSession, Zenon DEF User
<1>6. CASE Listener
  BY <1>2, <1>3, <1>6, <1>AcceptSetupSession, <1>ListenerBacklogSession, Zenon DEF Listener
<1>7. CASE Deliver
  BY <1>7, <1>ReceiveSession, <1>ReceiveListenSession, <1>ReceiveRetrySession, Zenon DEF Deliver
<1>8. CASE Timers
  BY <1>8, <1>SackTimerSession, <1>LossTimerSession, Zenon DEF Timers
<1>9. CASE \E e \in Socks : Pto(e)
  BY <1>9, <1>PtoSession, Zenon
<1> QED BY <1>1, <1>4, <1>5, <1>6, <1>7, <1>8, <1>9, Zenon DEF Next, Progress

(* The server believes only what the client proved: a socket of the server     *)
(* whose path is validated is the one whose ServerHello the client has read,   *)
(* and it is established only after the client, however packets are lost,      *)
(* repeated by timers, held back or answered by Retry (quic_packet_process,    *)
(* quic_sock_set_crypto_secret).                                               *)
THEOREM ServerBelievesClient == Spec => []ProvenByClient
<1>1. SessionInv => ProvenByClient
  <2> SUFFICES ASSUME SessionInv, NEW e \in Servers
               PROVE  /\ sk[e].validated => sk["client"].peer = e /\ "handshake" \in sk["client"].tx
                      /\ sk[e].state = "established" => /\ sk["client"].peer = e
                                                        /\ sk["client"].state = "established"
                                                        /\ sk[e].validated
    BY Zenon DEF ProvenByClient
  <2>1. ServerCore(e, sk[e], sk["client"])
    BY ServerNames, Zenon DEF SessionInv, SessionSocks, Core
  <2> QED BY <2>1, Zenon DEF ServerCore
<1> QED BY <1>1, InitIInv, NextIInv, InitSession, NextSession, PTL DEF Spec

LEMMA RowCount ==
  ASSUME NEW q, Row(q)
  PROVE  Cardinality(Range(q)) = Len(q)
<1>1. Len(q) \in Nat /\ DOMAIN q = 1 .. Len(q)
  BY SeqParts, Zenon DEF Row
<1>2. IsFiniteSet(1 .. Len(q)) /\ Cardinality(1 .. Len(q)) = Len(q)
  <2>1. 1 \in Int /\ Len(q) \in Int
    BY <1>1
  <2>2. IsFiniteSet(1 .. Len(q)) /\ Cardinality(1 .. Len(q)) = IF 1 > Len(q) THEN 0 ELSE Len(q) - 1 + 1
    BY <2>1, FS_Interval, Zenon
  <2> QED BY <1>1, <2>2
<1>3. q = [i \in 1 .. Len(q) |-> q[i]]
  <2>1. PICK S : q \in Seq(S)
    BY Zenon DEF Row, IsSeq
  <2> QED BY <2>1
<1>4. ExistsBijection(1 .. Len(q), Range(q))
  <2>1. q \in [1 .. Len(q) -> Range(q)] /\ \A y \in Range(q) : \E i \in 1 .. Len(q) : q[i] = y
    BY <1>1, <1>3, Zenon DEF Range
  <2>2. q \in Bijection(1 .. Len(q), Range(q))
    BY <1>1, <2>1, Zenon DEF Bijection, Injection, Surjection, IsInjective, Row
  <2> QED BY <2>2, Zenon DEF ExistsBijection
<1> QED BY <1>2, <1>4, FS_Bijection, Zenon

(* What the counters and flags outside the sockets may be.                     *)
CountersInv == accepting \in {"idle", "setup", "release"} /\ faults \in 0 .. MaxFaults

LEMMA NextCounters == CountersInv /\ [Next]_vars => CountersInv'
<1> SUFFICES ASSUME CountersInv, [Next]_vars PROVE CountersInv'
  BY Zenon
<1>1. faults \in Nat /\ MaxFaults \in Nat /\ faults <= MaxFaults
  BY BoundsAssumption DEF CountersInv
<1>2. ASSUME NEW p \in net, Lose(p) PROVE CountersInv'
  BY <1>1, <1>2 DEF Lose, listener, CountersInv
<1>3. ASSUME NEW e \in Socks, Pto(e) PROVE CountersInv'
  <2>1. faults' = faults \/ (faults > 0 /\ faults' = faults - 1)
    BY <1>3, Zenon DEF Pto
  <2>2. accepting' = accepting
    BY <1>3, Zenon DEF Pto, listener
  <2> QED BY <1>1, <2>1, <2>2 DEF CountersInv
<1>4. CASE UNCHANGED vars
  BY <1>4, Zenon DEF vars, CountersInv
<1>5. CASE User
  BY <1>5, Zenon DEF User, RecvMsg, SendMsg, SetSecret, listener, CountersInv
<1>6. CASE Listener
  BY <1>6, Zenon DEF Listener, Accept, AcceptSetup, Release, ListenerBacklog, CountersInv
<1>7. CASE Deliver
  BY <1>7, Zenon DEF Deliver, Receive, ReceiveListen, ReceiveRetry, listener, CountersInv
<1>8. CASE Timers
  BY <1>8, Zenon DEF Timers, SackTimer, LossTimer, listener, CountersInv
<1> QED BY <1>2, <1>3, <1>4, <1>5, <1>6, <1>7, <1>8, Zenon DEF Next, Progress

(* Every variable keeps its type for any bounds: no message is tracked twice,  *)
(* only what is in flight is marked lost, the server never spends more than    *)
(* its credit, and every packet, wherever it waits, is well formed             *)
(* (quic_packet_pack_frames, quic_outq_limit_check).                           *)
THEOREM TypeCorrect == Spec => []TypeOK
<1>1. IInv /\ SessionInv /\ CountersInv => TypeOK
  <2> SUFFICES ASSUME IInv, SessionInv, CountersInv PROVE TypeOK
    BY Zenon
  <2>1. ASSUME NEW e \in Socks
        PROVE  /\ sk[e].state \in {"closed", "establishing", "established"}
               /\ sk[e].queue \subseteq Range(Order) /\ Range(sk[e].sent) \subseteq Names
               /\ Cardinality(Range(sk[e].sent)) = Len(sk[e].sent)
               /\ sk[e].lost \subseteq Range(sk[e].sent)
               /\ sk[e].credit \in 0 .. MaxCredit
               /\ \A i \in DOMAIN sk[e].backlog : sk[e].backlog[i] \in Packets
    <3>1. Tracks(sk[e]) /\ Typed(sk[e])
      BY Zenon DEF SessionInv, SessionSocks, Core
    <3>2. Cardinality(Range(sk[e].sent)) = Len(sk[e].sent)
      BY <3>1, RowCount, Zenon DEF Tracks
    <3> QED BY <3>1, <3>2, Zenon DEF Tracks, Typed
  <2>2. \A i, j \in DOMAIN reqs : reqs[i].dcid = reqs[j].dcid => i = j
    BY Zenon DEF IInv, RequestInv
  <2>3. net \subseteq Packets /\ \A i \in DOMAIN waiting : waiting[i] \in Packets
    BY Zenon DEF SessionInv, SessionNet, SessionWaiting, Shown
  <2> QED BY <2>1, <2>2, <2>3, Zenon DEF TypeOK, CountersInv
<1>2. Init => CountersInv
  BY BoundsAssumption DEF Init, CountersInv
<1> QED BY <1>1, <1>2, InitIInv, NextIInv, InitSession, NextSession, NextCounters, PTL DEF Spec
===============================================================================
