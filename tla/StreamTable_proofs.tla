-------------------------- MODULE StreamTable_proofs --------------------------
(* That a client which honours the limit it was told never makes the server  *)
(* close the connection with STREAM_LIMIT_ERROR, that the counts of open     *)
(* streams are exact and the limit is the window plus what was released, and *)
(* that a deleted stream stays closed: for any number of streams, any limit, *)
(* any order of the frames and any repetition.                               *)
EXTENDS StreamTable, FiniteSetTheorems, TLAPS

USE SMTT(30)

(* What of the types the argument needs: that the counters are integers, not *)
(* that they are right.                                                      *)
StreamFrame == [t : {"fin", "fin_ack", "reset", "reset_ack"}, to : Ends, n : Ids]
LimitFrame == [t : {"max_streams"}, v : Int]
AnyFrame == StreamFrame \cup LimitFrame

Tables == DOMAIN tab = Ends /\ \A e \in Ends : DOMAIN tab[e] = Ids

Counters ==
    /\ next \in [Ends -> Int] /\ max \in [Ends -> Int] /\ streams \in [Ends -> Int]
    /\ wait \in Int

(* The client opens only what it was allowed, and streams exist, at either   *)
(* end or in a frame, only if the client opened them.                        *)
OpenedByClient ==
    /\ next["client"] <= max["client"] + 1
    /\ wait # nobody => wait >= next["client"]
    /\ \A e \in Ends, n \in Ids : tab[e][n] # none => n < next["client"]

(* What the server has granted never exceeds what it would grant now: opening *)
(* moves next and streams together, and releasing only lowers streams.        *)
GrantStands == max["server"] <= new_max(next["server"], streams["server"])

(* The frames F are the client's streams and the server's grants.             *)
FramesSound(F, opened, granted) ==
    \A m \in F : /\ m \in AnyFrame
                 /\ m.t \in {"fin", "reset"} => m.n < opened
                 /\ m.t = "max_streams" => m.v <= granted + 1

IInv == /\ Tables /\ Counters /\ OpenedByClient /\ GrantStands
        /\ max["client"] <= max["server"]
        /\ FramesSound(net, next["client"], max["server"])

LEMMA Constants == max_streams \in Nat /\ Wanted \in Nat /\ Jump \in Nat /\ Ids \subseteq Int
  BY StreamAssumption DEF Ids

LEMMA TwoEnds == "client" \in Ends /\ "server" \in Ends /\ \A e \in Ends : peer(e) \in Ends
  BY Zenon DEF Ends, peer

LEMMA InitIInv == Init => IInv
  BY Constants, TwoEnds
  DEF Init, IInv, Tables, Counters, OpenedByClient, GrantStands, FramesSound, new_max, nobody

(* Frames stay sound when more is opened or granted, and so do fewer.        *)
LEMMA FramesGrow ==
  ASSUME NEW F, NEW G, NEW o \in Int, NEW p \in Int, NEW a \in Int, NEW b \in Int,
         FramesSound(F, o, a), G \subseteq F, o <= p, a <= b, Ids \subseteq Int
  PROVE  FramesSound(G, p, b)
<1> SUFFICES ASSUME NEW m \in G
             PROVE  /\ m \in AnyFrame
                    /\ m.t \in {"fin", "reset"} => m.n < p
                    /\ m.t = "max_streams" => m.v <= b + 1
  BY Zenon DEF FramesSound
<1>1. /\ m \in AnyFrame
      /\ m.t \in {"fin", "reset"} => m.n < o
      /\ m.t = "max_streams" => m.v <= a + 1
  BY Zenon DEF FramesSound
<1>2. m.t \in {"fin", "reset"} => m.n \in Int
  BY <1>1, Zenon DEF AnyFrame, StreamFrame, LimitFrame
<1>3. m.t = "max_streams" => m.v \in Int
  BY <1>1, Zenon DEF AnyFrame, StreamFrame, LimitFrame
<1> QED BY <1>1, <1>2, <1>3

LEMMA FramesJoin ==
  ASSUME NEW F, NEW G, NEW o, NEW a, FramesSound(F, o, a), FramesSound(G, o, a)
  PROVE  FramesSound(F \cup G, o, a)
  BY Zenon DEF FramesSound

(* The frames the ends make.                                                 *)
LEMMA FrameMade ==
  ASSUME NEW o \in Int, NEW a \in Int
  PROVE  /\ \A e \in Ends, n \in Ids, t \in {"fin", "reset"} :
              n < o => FramesSound({[t |-> t, to |-> e, n |-> n]}, o, a)
         /\ \A e \in Ends, n \in Ids, t \in {"fin_ack", "reset_ack"} :
              FramesSound({[t |-> t, to |-> e, n |-> n]}, o, a)
         /\ \A v \in Int : v <= a + 1 => FramesSound({MaxStreams(v)}, o, a)
         /\ FramesSound({}, o, a)
  BY DEF FramesSound, AnyFrame, StreamFrame, LimitFrame, MaxStreams

LEMMA AckMade ==
  ASSUME NEW o \in Int, NEW a \in Int, NEW m, m.to \in Ends, m.n \in Ids, m.t \in {"fin", "reset"}
  PROVE  FramesSound({Ack(m)}, o, a)
<1>1. CASE m.t = "fin"
  BY <1>1, TwoEnds, FrameMade, Zenon DEF Ack
<1>2. CASE m.t = "reset"
  BY <1>2, TwoEnds, FrameMade, Zenon DEF Ack
<1> QED BY <1>1, <1>2, Zenon

LEMMA FrameRead ==
  ASSUME NEW m \in AnyFrame
  PROVE  /\ m.t \in {"fin", "reset", "fin_ack", "reset_ack"} => m.to \in Ends /\ m.n \in Ids
         /\ m.t = "max_streams" => m.v \in Int
  BY Zenon DEF AnyFrame, StreamFrame, LimitFrame

(* Changing a table only at streams the client has opened.                   *)
LEMMA TableKeeps ==
  ASSUME IInv, Tables', next' \in [Ends -> Int], next'["client"] >= next["client"],
         \A d \in Ends, k \in Ids : tab'[d][k] = tab[d][k] \/ k < next'["client"]
  PROVE  \A d \in Ends, n \in Ids : tab'[d][n] # none => n < next'["client"]
<1> SUFFICES ASSUME NEW d \in Ends, NEW n \in Ids, tab'[d][n] # none
             PROVE  n < next'["client"]
  BY Zenon
<1>1. tab[d][n] # none \/ n < next'["client"]
  BY Zenon
<1>2. tab[d][n] # none => n < next["client"]
  BY Zenon DEF IInv, OpenedByClient
<1>3. n \in Int /\ next["client"] \in Int /\ next'["client"] \in Int
  BY Constants, TwoEnds, Zenon DEF IInv, Counters
<1> QED BY <1>1, <1>2, <1>3

(* The end of a packet: a new limit is never below the old one.              *)
LEMMA DoneKeeps ==
  ASSUME IInv, NEW e \in Ends, NEW released, NEW out, NEW rest, NEW lost, rest \subseteq net,
         Done(e, released, out, rest, lost),
         next' \in [Ends -> Int], streams' \in [Ends -> Int],
         next'["client"] >= next["client"],
         next'["server"] - streams'["server"] >= next["server"] - streams["server"],
         FramesSound(out, next'["client"], max["server"])
  PROVE  /\ max' \in [Ends -> Int] /\ max'["client"] = max["client"] /\ GrantStands'
         /\ max'["client"] <= max'["server"]
         /\ FramesSound(net', next'["client"], max'["server"])
<1> DEFINE m == new_max(next'["server"], streams'["server"])
<1>1. /\ next["client"] \in Int /\ next["server"] \in Int /\ streams["server"] \in Int
      /\ max["client"] \in Int /\ max["server"] \in Int /\ next'["client"] \in Int
      /\ next'["server"] \in Int /\ streams'["server"] \in Int /\ max_streams \in Int
  BY Constants, TwoEnds DEF IInv, Counters
<1>2. m \in Int /\ max["server"] <= m
  BY <1>1 DEF IInv, GrantStands, new_max
<1>3. /\ max' = max \/ max' = [max EXCEPT !["server"] = m]
      /\ \/ net' = rest \cup out
         \/ max' = max /\ net' = rest \cup out \cup {}
         \/ max' = [max EXCEPT !["server"] = m] /\ net' = rest \cup out \cup {MaxStreams(m + 1)}
  BY Zenon DEF Done
<1> HIDE DEF m
<1>4. /\ max' \in [Ends -> Int] /\ max'["client"] = max["client"]
      /\ max'["server"] \in {max["server"], m}
  BY <1>2, <1>3, TwoEnds, Zenon DEF IInv, Counters
<1>5. GrantStands'
  <2>1. max'["server"] <= m
    BY <1>1, <1>2, <1>4
  <2> QED BY <2>1, Zenon DEF GrantStands, m
<1>6. max["server"] <= max'["server"] /\ max'["server"] \in Int
  BY <1>1, <1>2, <1>4
<1>7. max'["client"] <= max'["server"]
  BY <1>1, <1>4, <1>6 DEF IInv
<1>8. FramesSound(rest \cup out, next'["client"], max'["server"])
  <2>1. FramesSound(rest, next'["client"], max'["server"])
    BY <1>1, <1>6, FramesGrow, Constants, Zenon DEF IInv
  <2>2. FramesSound(out, next'["client"], max'["server"])
    BY <1>1, <1>6, FramesGrow, Constants
  <2> QED BY <2>1, <2>2, FramesJoin, Zenon
<1>9. FramesSound(net', next'["client"], max'["server"])
  <2>1. CASE net' = rest \cup out
    BY <2>1, <1>8, Zenon
  <2>2. CASE net' = rest \cup out \cup {MaxStreams(m + 1)} /\ max' = [max EXCEPT !["server"] = m]
    <3>1. max'["server"] = m
      BY <2>2, TwoEnds, Zenon DEF IInv, Counters
    <3>2. m + 1 \in Int /\ m + 1 <= max'["server"] + 1
      BY <3>1, <1>2
    <3>3. FramesSound({MaxStreams(m + 1)}, next'["client"], max'["server"])
      BY <3>2, <1>1, <1>6, FrameMade, Zenon
    <3> QED BY <2>2, <3>3, <1>8, FramesJoin, Zenon
  <2>3. net' = rest \cup out \cup {} => net' = rest \cup out
    BY Zenon
  <2> QED BY <1>3, <2>1, <2>2, <2>3, Zenon
<1> QED BY <1>4, <1>5, <1>7, <1>9, Zenon

(* A step that changes neither the limits nor what was opened.               *)
LEMMA QuietKeeps ==
  ASSUME IInv, UNCHANGED <<next, max>>, streams' \in [Ends -> Int],
         streams'["server"] <= streams["server"], wait' \in Int,
         wait' # nobody => wait' >= next["client"],
         Tables', \A d \in Ends, n \in Ids : tab'[d][n] # none => n < next["client"],
         FramesSound(net', next["client"], max["server"])
  PROVE  IInv'
<1>1. /\ next["server"] \in Int /\ streams["server"] \in Int /\ max["server"] \in Int
      /\ streams'["server"] \in Int /\ max_streams \in Int
  BY Constants, TwoEnds DEF IInv, Counters
<1>2. GrantStands'
  BY <1>1 DEF IInv, GrantStands, new_max
<1>3. Counters' /\ OpenedByClient'
  BY Zenon DEF IInv, Counters, OpenedByClient
<1> QED BY <1>2, <1>3, Zenon DEF IInv

(* The integers of a state that satisfies the invariant.                     *)
LEMMA Ints ==
  ASSUME IInv
  PROVE  /\ \A e \in Ends : next[e] \in Int /\ max[e] \in Int /\ streams[e] \in Int
         /\ next["client"] \in Int /\ next["server"] \in Int /\ max["client"] \in Int
         /\ max["server"] \in Int /\ streams["client"] \in Int /\ streams["server"] \in Int
         /\ max_streams \in Int /\ wait \in Int /\ \A n \in Ids : n \in Int /\ n >= 0
  BY Constants, TwoEnds DEF IInv, Counters, Ids

LEMMA OpenIInv == ASSUME IInv, NEW n \in Ids, Open(n) PROVE IInv'
<1> USE Ints, TwoEnds
<1>1. n >= next["client"] /\ n <= max["client"]
  BY DEF Open, Looks, exceeds, IInv, OpenedByClient, nobody
<1>2. /\ next' \in [Ends -> Int] /\ next'["client"] = n + 1 /\ next'["server"] = next["server"]
      /\ next'["client"] >= next["client"]
  BY <1>1 DEF Open, IInv, Counters
<1>3. streams' \in [Ends -> Int] /\ streams'["server"] = streams["server"]
  BY DEF Open, IInv, Counters
<1>4. /\ Tables'
      /\ \A d \in Ends, k \in Ids : tab'[d][k] # none => k < next'["client"]
  <2>1. tab' = [tab EXCEPT !["client"] = Opened("client", n)]
    BY Zenon DEF Open
  <2>2. Tables' /\ \A d \in Ends, k \in Ids : tab'[d][k] = tab[d][k] \/ k < next'["client"]
    BY <2>1, <1>2 DEF Opened, IInv, Tables
  <2> QED BY <2>2, <1>2, TableKeeps, Zenon
<1>5. UNCHANGED <<max, net>> /\ wait' = nobody
  BY Zenon DEF Open, limits
<1>6. Counters'
  BY <1>2, <1>3, <1>5 DEF Counters, IInv, nobody
<1>7. OpenedByClient'
  BY <1>1, <1>2, <1>4, <1>5 DEF OpenedByClient
<1>8. GrantStands'
  BY <1>2, <1>3, <1>5, Zenon DEF IInv, GrantStands, new_max
<1>9. FramesSound(net', next'["client"], max'["server"])
  <2>1. FramesSound(net, next'["client"], max["server"])
    BY <1>2, FramesGrow, Constants DEF IInv
  <2> QED BY <2>1, <1>5, Zenon
<1> QED BY <1>4, <1>5, <1>6, <1>7, <1>8, <1>9, Zenon DEF IInv

LEMMA BlockIInv == ASSUME IInv, NEW n \in Ids, Block(n) PROVE IInv'
<1> USE Ints, TwoEnds
<1>1. n >= next["client"] /\ wait' = n
  BY DEF Block, Looks, IInv, OpenedByClient, nobody
<1>2. UNCHANGED <<tab, next, max, streams>>
  BY Zenon DEF Block, limits
<1>3. FramesSound(net', next["client"], max["server"])
  <2>1. net' = net
    BY Zenon DEF Block
  <2> QED BY <2>1, Zenon DEF IInv
<1>4. Tables' /\ \A d \in Ends, k \in Ids : tab'[d][k] # none => k < next["client"]
  BY <1>2, Zenon DEF IInv, Tables, OpenedByClient
<1>5. streams' \in [Ends -> Int] /\ streams'["server"] <= streams["server"]
  BY <1>2 DEF IInv, Counters
<1> QED BY <1>1, <1>2, <1>3, <1>4, <1>5, QuietKeeps, Zenon

(* One stream of a table changes that is there.                              *)
LEMMA EntryKeeps ==
  ASSUME IInv, NEW e \in Ends, NEW n \in Ids, NEW st, tab[e][n] # none,
         tab' = [tab EXCEPT ![e][n] = st], next' = next
  PROVE  /\ Tables' /\ n < next["client"]
         /\ \A d \in Ends, k \in Ids : tab'[d][k] # none => k < next["client"]
<1>1. n < next["client"]
  BY Zenon DEF IInv, OpenedByClient
<1>2. Tables' /\ \A d \in Ends, k \in Ids : tab'[d][k] = tab[d][k] \/ k < next'["client"]
  BY <1>1, Zenon DEF IInv, Tables
<1>3. next' \in [Ends -> Int] /\ next'["client"] >= next["client"]
  BY Ints DEF IInv, Counters
<1> QED BY <1>1, <1>2, <1>3, TableKeeps, Zenon

(* Finish and Reset: a stream that exists sends its last frame.              *)
LEMMA WriteIInv ==
  ASSUME IInv, NEW e \in Ends, NEW n \in Ids, Finish(e, n) \/ Reset(e, n)
  PROVE  IInv'
<1>1. PICK s \in {"SENT", "RESET_SENT"}, t \in {"fin", "reset"} :
        /\ tab' = [tab EXCEPT ![e][n].send = s]
        /\ net' = net \cup {[t |-> t, to |-> peer(e), n |-> n]}
  BY Zenon DEF Finish, Reset
<1>2. UNCHANGED <<next, streams, max, wait>> /\ tab[e][n] # none
  BY Zenon DEF Finish, Reset, Writable, limits
<1>3. tab' = [tab EXCEPT ![e][n] = [tab[e][n] EXCEPT !.send = s]]
  BY <1>1, Zenon
<1>4. /\ Tables' /\ n < next["client"]
      /\ \A d \in Ends, k \in Ids : tab'[d][k] # none => k < next["client"]
  BY <1>2, <1>3, EntryKeeps, Zenon
<1>5. FramesSound(net', next["client"], max["server"])
  <2>1. FramesSound({[t |-> t, to |-> peer(e), n |-> n]}, next["client"], max["server"])
    BY <1>4, Ints, TwoEnds, FrameMade, Zenon
  <2> QED BY <2>1, <1>1, FramesJoin, Zenon DEF IInv
<1>6. /\ streams' \in [Ends -> Int] /\ streams'["server"] <= streams["server"]
      /\ wait' \in Int /\ (wait' # nobody => wait' >= next["client"])
  BY <1>2, Ints DEF IInv, Counters, OpenedByClient
<1> QED BY <1>2, <1>4, <1>5, <1>6, QuietKeeps, Zenon

(* Releasing lowers the count of open streams by one, or leaves it.          *)
LEMMA PutCounts ==
  ASSUME IInv, NEW e \in Ends, NEW n \in Ids, NEW st, NEW send, Put(e, n, st, send)
  PROVE  streams' \in [Ends -> Int] /\ streams'["server"] <= streams["server"]
<1>1. PICK d \in {0, 1} : streams' = [streams EXCEPT ![e] = @ - d]
  <2>1. streams' = [streams EXCEPT ![e] = IF counts(st, send) THEN @ - 1 ELSE @]
    BY Zenon DEF Put
  <2>2. streams[e] \in Int /\ streams[e] - 0 = streams[e]
    BY Ints
  <2>3. CASE counts(st, send)
    BY <2>1, <2>3, Zenon
  <2>4. CASE ~counts(st, send)
    BY <2>1, <2>2, <2>4, Zenon
  <2> QED BY <2>3, <2>4, Zenon
<1> QED BY <1>1, Ints, TwoEnds DEF IInv, Counters

LEMMA ReadIInv == ASSUME IInv, NEW e \in Ends, NEW n \in Ids, Read(e, n) PROVE IInv'
<1> DEFINE st == [tab[e][n] EXCEPT !.recv = "READ"]
<1>1. Put(e, n, st, FALSE) /\ UNCHANGED <<next, max, wait, net>> /\ tab[e][n].recv = "RECVD"
  BY Zenon DEF Read
<1> HIDE DEF st
<1>2. tab[e][n] # none
  BY <1>1 DEF none
<1>3. tab' = [tab EXCEPT ![e][n] = kept(st, FALSE)]
  BY <1>1, Zenon DEF Put
<1>4. Tables' /\ \A d \in Ends, k \in Ids : tab'[d][k] # none => k < next["client"]
  BY <1>1, <1>2, <1>3, EntryKeeps, Zenon
<1>5. streams' \in [Ends -> Int] /\ streams'["server"] <= streams["server"]
  BY <1>1, PutCounts, Zenon
<1>6. /\ wait' \in Int /\ (wait' # nobody => wait' >= next["client"])
      /\ FramesSound(net', next["client"], max["server"])
  BY <1>1, Ints, Zenon DEF IInv, OpenedByClient
<1> QED BY <1>1, <1>4, <1>5, <1>6, QuietKeeps, Zenon

(* Every packet ends with Done, after a step that opens nothing for the      *)
(* client and keeps next - streams at the server from decreasing.            *)
LEMMA PacketKeeps ==
  ASSUME IInv, NEW e \in Ends, NEW released, NEW out, NEW rest, NEW lost, rest \subseteq net,
         Done(e, released, out, rest, lost),
         next' \in [Ends -> Int], streams' \in [Ends -> Int], next'["client"] = next["client"],
         next'["server"] - streams'["server"] >= next["server"] - streams["server"],
         FramesSound(out, next["client"], max["server"]), wait' = wait, Tables',
         \A d \in Ends, n \in Ids : tab'[d][n] # none => n < next'["client"]
  PROVE  IInv'
<1>1. next'["client"] >= next["client"] /\ FramesSound(out, next'["client"], max["server"])
  BY Ints
<1>2. /\ max' \in [Ends -> Int] /\ max'["client"] = max["client"] /\ GrantStands'
      /\ max'["client"] <= max'["server"]
      /\ FramesSound(net', next'["client"], max'["server"])
  BY <1>1, DoneKeeps, Zenon
<1>3. Counters' /\ OpenedByClient'
  BY <1>2, Zenon DEF IInv, Counters, OpenedByClient
<1> QED BY <1>2, <1>3, Zenon DEF IInv

LEMMA DeliverEndIInv == ASSUME IInv, NEW m \in net, DeliverEnd(m) PROVE IInv'
<1> USE Ints, TwoEnds
<1> DEFINE e == m.to
           n == m.n
           st == [got(e, n) EXCEPT !.recv = IF m.t = "fin" THEN "RECVD" ELSE "RESET_RECVD"]
           ack == {Ack(m)}
           skip == closed(e, n) \/ received(got(e, n))
           opened == IF n >= next[e] THEN n - next[e] + 1 ELSE 0
           released == ~skip /\ counts(st, FALSE)
           less == IF released THEN 1 ELSE 0
<1>1. m.t \in {"fin", "reset"} /\ m \in AnyFrame /\ n < next["client"]
  BY Zenon DEF DeliverEnd, IInv, FramesSound
<1>2. e \in Ends /\ n \in Ids
  BY <1>1, FrameRead, Zenon
<1>3. /\ next' = [next EXCEPT ![e] = @ + opened]
      /\ tab' = tab \/ tab' = [tab EXCEPT ![e] = [Opened(e, n) EXCEPT ![n] = kept(st, FALSE)]]
      /\ streams' = [streams EXCEPT ![e] = @ + opened - less]
      /\ wait' = wait
  BY Zenon DEF DeliverEnd
<1>4. PICK rest \in taken(m) : Done(e, released, ack, rest, 0)
  BY Zenon DEF DeliverEnd
<1>5. rest \subseteq net
  BY Zenon DEF taken
<1>6. FramesSound(ack, next["client"], max["server"])
  BY <1>1, <1>2, AckMade, Zenon
<1>7. opened \in Int /\ opened >= 0 /\ less \in {0, 1} /\ (e = "client" => opened = 0)
  BY <1>1, <1>2
<1> HIDE DEF opened, less, released, ack
<1>8. /\ next' \in [Ends -> Int] /\ streams' \in [Ends -> Int]
      /\ next'["client"] = next["client"]
      /\ next'["server"] - streams'["server"] >= next["server"] - streams["server"]
  <2>1. next' \in [Ends -> Int] /\ streams' \in [Ends -> Int]
    BY <1>2, <1>3, <1>7 DEF IInv, Counters
  <2>2. CASE e = "client"
    <3>1. /\ next'["client"] = next["client"] + 0 /\ next'["server"] = next["server"]
          /\ streams'["server"] = streams["server"]
      BY <2>2, <1>3, <1>7, Zenon DEF IInv, Counters
    <3> QED BY <3>1, <2>1
  <2>3. CASE e = "server"
    <3>1. /\ next'["client"] = next["client"] /\ next'["server"] = next["server"] + opened
          /\ streams'["server"] = streams["server"] + opened - less
      BY <2>3, <1>3, Zenon DEF IInv, Counters
    <3> QED BY <3>1, <2>1, <1>7
  <2> QED BY <2>1, <2>2, <2>3, <1>2, Zenon DEF Ends
<1>9. Tables' /\ \A d \in Ends, k \in Ids : tab'[d][k] = tab[d][k] \/ k < next'["client"]
  <2>1. CASE tab' = tab
    BY <2>1, Zenon DEF IInv, Tables
  <2>2. CASE tab' = [tab EXCEPT ![e] = [Opened(e, n) EXCEPT ![n] = kept(st, FALSE)]]
    <3> DEFINE g == Opened(e, n)
               new == kept(st, FALSE)
               f == [g EXCEPT ![n] = new]
    <3>1. DOMAIN f = Ids /\ \A k \in Ids : f[k] = tab[e][k] \/ k <= n
      <4>1. DOMAIN g = Ids /\ \A k \in Ids : g[k] = tab[e][k] \/ k <= n
        BY Zenon DEF Opened
      <4> HIDE DEF g, new, e, n
      <4>2. DOMAIN f = Ids /\ \A k \in Ids : f[k] = g[k] \/ k = n
        BY <4>1, Zenon
      <4>3. n <= n
        BY <1>2
      <4> HIDE DEF f
      <4> QED BY <4>1, <4>2, <4>3, Zenon
    <3> HIDE DEF f
    <3>2. \A k \in Ids : f[k] = tab[e][k] \/ k < next'["client"]
      BY <3>1, <1>1, <1>2, <1>8
    <3>3. tab' = [tab EXCEPT ![e] = f]
      BY <2>2, Zenon DEF f
    <3> QED BY <3>1, <3>2, <3>3, <1>2, Zenon DEF IInv, Tables
  <2> QED BY <1>3, <2>1, <2>2, Zenon
<1>10. \A d \in Ends, k \in Ids : tab'[d][k] # none => k < next'["client"]
  BY <1>8, <1>9, TableKeeps, SMTT(20)
<1> HIDE DEF e, n
<1> QED BY <1>2, <1>3, <1>4, <1>5, <1>6, <1>8, <1>9, <1>10, PacketKeeps, Zenon

LEMMA DeliverEndAckIInv == ASSUME IInv, NEW m \in net, DeliverEndAck(m) PROVE IInv'
<1> USE Ints, TwoEnds
<1> DEFINE e == m.to
           n == m.n
           fin == m.t = "fin_ack"
           st == [tab[e][n] EXCEPT !.send = IF fin THEN "RECVD" ELSE "RESET_RECVD"]
           live == tab[e][n].send = (IF fin THEN "SENT" ELSE "RESET_SENT")
           released == live /\ counts(st, TRUE)
<1>1. m.t \in {"fin_ack", "reset_ack"} /\ m \in AnyFrame
  BY Zenon DEF DeliverEndAck, IInv, FramesSound
<1>2. e \in Ends /\ n \in Ids
  BY <1>1, FrameRead, Zenon
<1>3. /\ (live /\ Put(e, n, st, TRUE)) \/ UNCHANGED <<tab, streams>>
      /\ UNCHANGED <<next, wait>>
      /\ Done(e, released, {}, net \ {m}, 0)
  BY Zenon DEF DeliverEndAck
<1>4. live => tab[e][n] # none
  BY DEF none
<1> HIDE DEF e, n, st, live, released
<1>5. /\ streams' \in [Ends -> Int] /\ streams'["server"] <= streams["server"]
      /\ Tables' /\ \A d \in Ends, k \in Ids : tab'[d][k] # none => k < next["client"]
  <2>1. CASE live /\ Put(e, n, st, TRUE)
    <3>1. streams' \in [Ends -> Int] /\ streams'["server"] <= streams["server"]
      BY <2>1, <1>2, PutCounts, Zenon
    <3>2. tab' = [tab EXCEPT ![e][n] = kept(st, TRUE)]
      BY <2>1, Zenon DEF Put
    <3>3. Tables' /\ \A d \in Ends, k \in Ids : tab'[d][k] # none => k < next["client"]
      BY <2>1, <3>2, <1>2, <1>3, <1>4, EntryKeeps, Zenon
    <3> QED BY <3>1, <3>3, Zenon
  <2>2. CASE UNCHANGED <<tab, streams>>
    BY <2>2 DEF IInv, Tables, OpenedByClient, Counters
  <2> QED BY <1>3, <2>1, <2>2, Zenon
<1>6. /\ next' \in [Ends -> Int] /\ next'["client"] = next["client"]
      /\ \A d \in Ends, k \in Ids : tab'[d][k] # none => k < next'["client"]
  BY <1>3, <1>5, Zenon DEF IInv, Counters
<1>7. next'["server"] - streams'["server"] >= next["server"] - streams["server"]
  <2>1. next'["server"] = next["server"] /\ streams'["server"] \in Int
    BY <1>3, <1>5, Zenon
  <2>2. streams'["server"] <= streams["server"]
    BY <1>5, Zenon
  <2> QED BY <2>1, <2>2
<1>8. FramesSound({}, next["client"], max["server"]) /\ net \ {m} \subseteq net
  BY FrameMade, Zenon
<1> QED BY <1>2, <1>3, <1>5, <1>6, <1>7, <1>8, PacketKeeps, Zenon

LEMMA DeliverUncreatedIInv == ASSUME IInv, NEW m \in net, DeliverUncreated(m) PROVE IInv'
<1> USE Ints, TwoEnds
<1>1. PICK rest \in taken(m) : Done("server", FALSE, {Ack(m)}, rest, 1)
  BY Zenon DEF DeliverUncreated
<1>2. UNCHANGED <<tab, next, streams, wait>> /\ rest \subseteq net
  BY Zenon DEF DeliverUncreated, taken
<1>3. FramesSound({Ack(m)}, next["client"], max["server"])
  <2>1. m.t \in {"fin", "reset"} /\ m \in AnyFrame
    BY Zenon DEF DeliverUncreated, IInv, FramesSound
  <2> QED BY <2>1, FrameRead, AckMade, Zenon
<1>4. /\ next' \in [Ends -> Int] /\ streams' \in [Ends -> Int] /\ next'["client"] = next["client"]
      /\ next'["server"] - streams'["server"] >= next["server"] - streams["server"]
      /\ Tables' /\ \A d \in Ends, k \in Ids : tab'[d][k] # none => k < next'["client"]
  BY <1>2 DEF IInv, Counters, Tables, OpenedByClient
<1> QED BY <1>1, <1>2, <1>3, <1>4, PacketKeeps, Zenon

LEMMA DeliverMaxStreamsIInv == ASSUME IInv, NEW m \in net, DeliverMaxStreams(m) PROVE IInv'
<1> USE Ints, TwoEnds
<1>1. m.t = "max_streams" /\ m \in AnyFrame /\ m.v <= max["server"] + 1
  BY Zenon DEF DeliverMaxStreams, IInv, FramesSound
<1>2. m.v \in Int
  BY <1>1, FrameRead, Zenon
<1>3. UNCHANGED <<tab, next, streams, wait>> /\ net' \subseteq net
  BY Zenon DEF DeliverMaxStreams
<1>4. /\ max' \in [Ends -> Int] /\ max'["server"] = max["server"]
      /\ max["client"] <= max'["client"] /\ max'["client"] <= max["server"]
  BY <1>1, <1>2 DEF DeliverMaxStreams, IInv, Counters
<1>5. Counters' /\ GrantStands' /\ Tables'
  BY <1>3, <1>4, Zenon DEF IInv, Counters, GrantStands, new_max, Tables
<1>6. OpenedByClient'
  <2>1. next'["client"] <= max'["client"] + 1
    BY <1>3, <1>4 DEF IInv, OpenedByClient
  <2> QED BY <2>1, <1>3, Zenon DEF IInv, OpenedByClient
<1>7. FramesSound(net', next["client"], max["server"])
  BY <1>3, Zenon DEF FramesSound, IInv
<1>8. FramesSound(net, next["client"], max["server"])'
  BY <1>3, <1>4, <1>7, Zenon
<1> QED BY <1>4, <1>5, <1>6, <1>8, Zenon DEF IInv

LEMMA LoseIInv == ASSUME IInv, NEW m \in net, Lose(m) PROVE IInv'
<1>1. UNCHANGED <<tab, next, streams, max, wait>> /\ net' \subseteq net
  BY Zenon DEF Lose, limits
<1>2. FramesSound(net', next["client"], max["server"])
  BY <1>1, Zenon DEF FramesSound, IInv
<1> QED BY <1>1, <1>2, Zenon DEF IInv, Tables, Counters, OpenedByClient, GrantStands

LEMMA NextIInv == IInv /\ [Next]_vars => IInv'
<1> SUFFICES ASSUME IInv, [Next]_vars PROVE IInv'
  BY Zenon
<1>1. ASSUME NEW n \in Ids, Open(n) \/ Block(n) PROVE IInv'
  BY <1>1, OpenIInv, BlockIInv, Zenon
<1>2. ASSUME NEW e \in Ends, NEW n \in Ids, Finish(e, n) \/ Reset(e, n) PROVE IInv'
  BY <1>2, WriteIInv, Zenon
<1>3. ASSUME NEW e \in Ends, NEW n \in Ids, Read(e, n) PROVE IInv'
  BY <1>3, ReadIInv, Zenon
<1>4. ASSUME NEW m \in net, Deliver(m) \/ Lose(m) PROVE IInv'
  BY <1>4, DeliverEndIInv, DeliverUncreatedIInv, DeliverEndAckIInv, DeliverMaxStreamsIInv, LoseIInv, Zenon
  DEF Deliver
<1>5. ASSUME UNCHANGED vars PROVE IInv'
  BY <1>5, Zenon DEF vars, IInv, Tables, Counters, OpenedByClient, GrantStands, FramesSound
<1> QED BY <1>1, <1>2, <1>3, <1>4, <1>5, Zenon DEF Next, Rest

(* The client's view of the limit is never ahead of the server's, and no      *)
(* STREAM or RESET_STREAM frame on its way names a stream beyond what the     *)
(* server allows (quic_stream_get, quic_stream_max_streams_update): for every *)
(* number of streams, window and repetition of frames.                        *)
THEOREM ClientNeverLimited == Spec => []NoLimitError
<1>1. IInv => NoLimitError
  <2> SUFFICES ASSUME IInv, NEW m \in net, m.t \in {"fin", "reset"}
               PROVE  ~limited(m.to, m.n)
    BY Zenon DEF NoLimitError, IInv
  <2>1. m \in AnyFrame /\ m.n < next["client"]
    BY Zenon DEF IInv, FramesSound
  <2>2. m.n \in Ids
    BY <2>1, FrameRead, Zenon
  <2>3. m.n <= max["server"]
    <3>1. next["client"] <= max["client"] + 1 /\ max["client"] <= max["server"]
      BY Zenon DEF IInv, OpenedByClient
    <3>2. m.n \in Int
      BY <2>2, Ints, Zenon
    <3> QED BY <2>1, <3>1, <3>2, Ints
  <2> QED BY <2>2, <2>3, Ints DEF limited
<1> QED BY <1>1, InitIInv, NextIInv, PTL DEF Spec
-----------------------------------------------------------------------------
(* The table of an endpoint and its open streams. *)

(* One row of the table, the streams of it that are open, and the open ones  *)
(* among those of an endpoint.                                               *)
Row == [Ids -> Stream \cup {none}]
Over(st) == st = none \/ st.done
OpenOf(f) == {n \in Ids : ~Over(f[n])}

Settled(st) == st.recv = "RECVD" /\ (uni \/ ended(st)) => st.done

(* The table is well formed: what was not opened is not there, the count is  *)
(* right, and a stream whose parts have both ended was released at once, so  *)
(* that reading it releases nothing.                                         *)
TableInv ==
    /\ tab \in [Ends -> Row]
    /\ next \in [Ends -> Nat] /\ \A e \in Ends : next[e] <= Wanted
    /\ \A e \in Ends, n \in Ids : n >= next[e] => tab[e][n] = none
    /\ \A e \in Ends : streams[e] = Cardinality(OpenOf(tab[e]))
    /\ \A e \in Ends, n \in Ids : Settled(tab[e][n])

LEMMA FiniteIds == IsFiniteSet(Ids) /\ Cardinality(Ids) = Wanted /\ Ids \subseteq Nat
<1>1. 0 \in Int /\ Wanted - 1 \in Int /\ Wanted \in Nat \ {0}
  BY StreamAssumption
<1>2. /\ IsFiniteSet(0 .. Wanted - 1)
      /\ Cardinality(0 .. Wanted - 1) = IF 0 > Wanted - 1 THEN 0 ELSE Wanted - 1 - 0 + 1
  BY <1>1, FS_Interval, Zenon
<1> QED BY <1>1, <1>2 DEF Ids

LEMMA FiniteOpen ==
  ASSUME NEW f
  PROVE  IsFiniteSet(OpenOf(f)) /\ Cardinality(OpenOf(f)) \in Nat
<1>1. OpenOf(f) \in SUBSET Ids
  BY Zenon DEF OpenOf
<1> QED BY <1>1, FiniteIds, FS_Subset, FS_CardinalityType, Zenon

(* A stream that was open is over: one less.                                 *)
LEMMA RowCloses ==
  ASSUME NEW f \in Row, NEW n \in Ids, NEW new, ~Over(f[n]), Over(new)
  PROVE  Cardinality(OpenOf([f EXCEPT ![n] = new])) = Cardinality(OpenOf(f)) - 1
<1>1. OpenOf([f EXCEPT ![n] = new]) = OpenOf(f) \ {n} /\ n \in OpenOf(f)
  BY Zenon DEF OpenOf, Row
<1> QED BY <1>1, FiniteOpen, FS_RemoveElement, Zenon

LEMMA RowStays ==
  ASSUME NEW f \in Row, NEW n \in Ids, NEW new, Over(f[n]) <=> Over(new)
  PROVE  OpenOf([f EXCEPT ![n] = new]) = OpenOf(f)
  BY Zenon DEF OpenOf, Row

LEMMA FreshStream == fresh \in Stream /\ ~Over(fresh) /\ none \notin Stream /\ Over(none)
  BY Zenon DEF fresh, Over, none, Stream, SendStates, RecvStates

(* quic_stream_create: every stream from the next one on to n is opened.     *)
LEMMA RowOpens ==
  ASSUME NEW f \in Row, NEW lo \in Nat, NEW n \in Ids, lo <= n,
         \A k \in Ids : k >= lo => f[k] = none
  PROVE  LET g == [k \in Ids |-> IF lo <= k /\ k <= n THEN fresh ELSE f[k]]
         IN  g \in Row /\ Cardinality(OpenOf(g)) = Cardinality(OpenOf(f)) + n - lo + 1
<1> DEFINE g == [k \in Ids |-> IF lo <= k /\ k <= n THEN fresh ELSE f[k]]
           A == lo .. n
<1>1. g \in Row
  BY FreshStream, Zenon DEF Row
<1>2. n \in Int /\ A \subseteq Ids
  BY StreamAssumption DEF Ids
<1>3. OpenOf(g) = OpenOf(f) \cup A
  <2>1. \A k \in Ids : k \in A <=> (lo <= k /\ k <= n)
    BY <1>2, FiniteIds
  <2>2. \A k \in Ids : ~Over(g[k]) <=> ~Over(f[k]) \/ k \in A
    BY <2>1, FreshStream, FiniteIds, Zenon
  <2> HIDE DEF g, A
  <2> QED BY <1>2, <2>2, Zenon DEF OpenOf
<1>4. OpenOf(f) \cap A = {}
  <2>1. \A k \in A : k \in Ids /\ f[k] = none
    BY <1>2
  <2> HIDE DEF A
  <2> QED BY <2>1, FreshStream, Zenon DEF OpenOf
<1>5. IsFiniteSet(A) /\ Cardinality(A) = n - lo + 1
  <2>1. IsFiniteSet(lo .. n) /\ Cardinality(lo .. n) = IF lo > n THEN 0 ELSE n - lo + 1
    BY <1>2, FS_Interval
  <2> QED BY <1>2, <2>1
<1> HIDE DEF A, g
<1>6. Cardinality(OpenOf(f) \cup A) = Cardinality(OpenOf(f)) + Cardinality(A) - Cardinality({})
  BY <1>4, <1>5, FiniteOpen, FS_Union
<1>7. Cardinality({}) = 0
  BY FS_EmptySet, Zenon
<1>8. g \in Row /\ Cardinality(OpenOf(g)) = Cardinality(OpenOf(f)) + n - lo + 1
  BY <1>1, <1>2, <1>3, <1>5, <1>6, <1>7, FiniteOpen
<1> QED BY <1>8, Zenon DEF g

(* What is open was opened.                                                  *)
LEMMA RowBound ==
  ASSUME NEW f, NEW p \in Nat, \A n \in Ids : n >= p => f[n] = none
  PROVE  Cardinality(OpenOf(f)) \in Nat /\ Cardinality(OpenOf(f)) <= p
<1>1. OpenOf(f) \in SUBSET (0 .. p - 1)
  <2>1. ASSUME NEW n \in Ids, ~Over(f[n])
        PROVE  n \in 0 .. p - 1
    <3>1. n \in Nat /\ ~(n >= p)
      BY <2>1, FiniteIds, FreshStream, Zenon
    <3> QED BY <3>1
  <2> QED BY <2>1, Zenon DEF OpenOf
<1>2. IsFiniteSet(0 .. p - 1) /\ Cardinality(0 .. p - 1) = p
  <2>1. 0 \in Int /\ p - 1 \in Int
    OBVIOUS
  <2>2. IsFiniteSet(0 .. p - 1) /\ Cardinality(0 .. p - 1) = IF 0 > p - 1 THEN 0 ELSE p - 1 - 0 + 1
    BY <2>1, FS_Interval, Zenon
  <2> QED BY <2>2
<1>3. Cardinality(OpenOf(f)) <= Cardinality(0 .. p - 1)
  BY <1>1, <1>2, FS_Subset, Zenon
<1> QED BY <1>2, <1>3, FiniteOpen, Zenon

LEMMA OpenBound ==
  /\ TableInv => \A e \in Ends : streams[e] \in Nat /\ streams[e] <= next[e]
  /\ TableInv' => \A e \in Ends : streams'[e] \in Nat /\ streams'[e] <= next'[e]
<1>1. ASSUME TableInv, NEW e \in Ends PROVE streams[e] \in Nat /\ streams[e] <= next[e]
  BY <1>1, RowBound, Zenon DEF TableInv
<1>2. ASSUME TableInv', NEW e \in Ends PROVE streams'[e] \in Nat /\ streams'[e] <= next'[e]
  <2>1. /\ next'[e] \in Nat /\ streams'[e] = Cardinality(OpenOf(tab'[e]))
        /\ \A n \in Ids : n >= next'[e] => tab'[e][n] = none
    BY <1>2, Zenon DEF TableInv
  <2> QED BY <2>1, RowBound, Zenon
<1> QED BY <1>1, <1>2, Zenon

(* quic_stream_put: a stream it counts as closed is over afterwards, and     *)
(* otherwise nothing changes for the count.                                  *)
LEMMA KeptOver ==
  ASSUME NEW st \in Stream, NEW send \in BOOLEAN
  PROVE  /\ kept(st, send) \in Stream \cup {none}
         /\ counts(st, send) => ~Over(st) /\ Over(kept(st, send))
         /\ ~counts(st, send) => (Over(st) <=> Over(kept(st, send)))
<1> DEFINE d == [st EXCEPT !.done = TRUE]
<1>1. d \in Stream /\ d.done
  BY Zenon DEF Stream
<1>2. st # none /\ d # none
  BY <1>1, FreshStream, Zenon
<1>3. CASE ~releases(st, send)
  BY <1>2, <1>3, Zenon DEF kept, counts
<1>4. CASE releases(st, send)
  <2>1. kept(st, send) = none \/ kept(st, send) = d
    BY <1>4, Zenon DEF kept
  <2>2. Over(kept(st, send)) /\ kept(st, send) \in Stream \cup {none}
    BY <1>1, <2>1, Zenon DEF Over
  <2> QED BY <1>2, <1>4, <2>2, Zenon DEF counts, Over
<1> QED BY <1>3, <1>4, Zenon

LEMMA KeptSettled ==
  ASSUME NEW st \in Stream, NEW send \in BOOLEAN
  PROVE  Settled(kept(st, send))
<1> DEFINE d == [st EXCEPT !.done = TRUE]
<1>1. d.done
  BY Zenon DEF Stream
<1>2. none.recv # "RECVD"
  BY Zenon DEF none
<1>3. CASE ~releases(st, send)
  <2>1. kept(st, send) = st
    BY <1>3, Zenon DEF kept
  <2>2. ~(st.recv = "RECVD" /\ (uni \/ ended(st)))
    BY <1>3, Zenon DEF releases, received
  <2> QED BY <2>1, <2>2, Zenon DEF Settled
<1>4. CASE releases(st, send)
  <2>1. kept(st, send) = none \/ kept(st, send) = d
    BY <1>4, Zenon DEF kept
  <2> QED BY <1>1, <1>2, <2>1, ZenonT(30) DEF Settled
<1> QED BY <1>3, <1>4, Zenon

(* One row changes.                                                          *)
LEMMA RowTable ==
  ASSUME TableInv, NEW e \in Ends, NEW g \in Row, NEW p \in Nat, p <= Wanted,
         tab' = [tab EXCEPT ![e] = g], next' = [next EXCEPT ![e] = p],
         streams' = [streams EXCEPT ![e] = Cardinality(OpenOf(g))], streams \in [Ends -> Int],
         uni' = uni,
         \A n \in Ids : n >= p => g[n] = none,
         \A n \in Ids : Settled(g[n])
  PROVE  TableInv'
<1>1. \A d \in Ends : /\ tab'[d] = IF d = e THEN g ELSE tab[d]
                      /\ next'[d] = IF d = e THEN p ELSE next[d]
                      /\ streams'[d] = IF d = e THEN Cardinality(OpenOf(g)) ELSE streams[d]
  BY Zenon DEF TableInv
<1>2. tab' \in [Ends -> Row] /\ next' \in [Ends -> Nat]
  BY Zenon DEF TableInv
<1>3. \A d \in Ends : next'[d] <= Wanted
  BY <1>1, Zenon DEF TableInv
<1>4. \A d \in Ends, n \in Ids : n >= next'[d] => tab'[d][n] = none
  BY <1>1, Zenon DEF TableInv
<1>5. \A d \in Ends : streams'[d] = Cardinality(OpenOf(tab'[d]))
  BY <1>1, Zenon DEF TableInv
<1>6. \A d \in Ends, n \in Ids : Settled(tab'[d][n])
  BY <1>1, Zenon DEF TableInv
<1>7. \A x : Settled(x) <=> (x.recv = "RECVD" /\ (uni' \/ ended(x)) => x.done)
  BY Zenon DEF Settled
<1>8. \A d \in Ends, n \in Ids :
         tab'[d][n].recv = "RECVD" /\ (uni' \/ ended(tab'[d][n])) => tab'[d][n].done
  BY <1>6, <1>7, Zenon
<1> QED BY <1>2, <1>3, <1>4, <1>5, <1>8, Zenon DEF TableInv, Settled, OpenOf, Over, ended

LEMMA SameTable ==
  ASSUME TableInv, UNCHANGED <<tab, next, streams, uni>>
  PROVE  TableInv'
  BY Zenon DEF TableInv, Settled, OpenOf, Over, ended

(* One stream of a row changes, and the row is f before.                     *)
LEMMA EntryTable ==
  ASSUME TableInv, NEW e \in Ends, NEW f \in Row, NEW n \in Ids, NEW p \in Nat, p <= Wanted,
         NEW c \in Nat, c = Cardinality(OpenOf(f)), n < p,
         \A k \in Ids : k >= p => f[k] = none,
         \A k \in Ids : Settled(f[k]),
         NEW new \in Stream \cup {none}, Settled(new), streams \in [Ends -> Int],
         NEW one, 
         \/ one = 1 /\ ~Over(f[n]) /\ Over(new)
         \/ one = 0 /\ (Over(f[n]) <=> Over(new)),
         tab' = [tab EXCEPT ![e] = [f EXCEPT ![n] = new]], next' = [next EXCEPT ![e] = p],
         streams' = [streams EXCEPT ![e] = c - one], uni' = uni
  PROVE  TableInv'
<1> DEFINE g == [f EXCEPT ![n] = new]
<1>1. g \in Row /\ \A k \in Ids : g[k] = IF k = n THEN new ELSE f[k]
  BY Zenon DEF Row
<1>2. Cardinality(OpenOf(g)) = c - one
  BY RowCloses, RowStays
<1>3. \A k \in Ids : Settled(g[k])
  BY <1>1, Zenon
<1>4. \A k \in Ids : k >= p => g[k] = none
  BY <1>1, FiniteIds
<1> HIDE DEF g
<1>5. tab' = [tab EXCEPT ![e] = g]
  BY Zenon DEF g
<1> QED BY <1>1, <1>2, <1>3, <1>4, <1>5, RowTable, Zenon

-------------------------------------------------------------------------------
(* The counts of open streams, and that a deleted stream stays closed.        *)

(* quic_stream_put.                                                          *)
LEMMA PutTable ==
  ASSUME TableInv, streams \in [Ends -> Int], NEW e \in Ends, NEW n \in Ids, NEW send \in BOOLEAN,
         NEW st \in Stream, tab[e][n] \in Stream, Over(st) <=> Over(tab[e][n]),
         Put(e, n, st, send), next' = next, uni' = uni
  PROVE  TableInv'
<1> DEFINE f == tab[e]
           new == kept(st, send)
           one == IF counts(st, send) THEN 1 ELSE 0
<1>1. f \in Row /\ next[e] \in Nat /\ next[e] <= Wanted /\ streams[e] = Cardinality(OpenOf(f))
  BY Zenon DEF TableInv
<1>2. n < next[e]
  BY <1>1, FiniteIds, FreshStream DEF TableInv
<1>3. /\ \A k \in Ids : k >= next[e] => f[k] = none
      /\ \A k \in Ids : Settled(f[k])
  BY Zenon DEF TableInv
<1>4. new \in Stream \cup {none} /\ Settled(new)
  BY KeptOver, KeptSettled, Zenon
<1>5. \/ one = 1 /\ ~Over(f[n]) /\ Over(new)
      \/ one = 0 /\ (Over(f[n]) <=> Over(new))
  BY KeptOver
<1>6. tab' = [tab EXCEPT ![e] = [f EXCEPT ![n] = new]] /\ next' = [next EXCEPT ![e] = next[e]]
  BY Zenon DEF Put, TableInv
<1>7. streams[e] \in Nat
  BY <1>1, FiniteOpen, Zenon
<1>8. streams' = [streams EXCEPT ![e] = streams[e] - one]
  <2>1. (IF counts(st, send) THEN streams[e] - 1 ELSE streams[e]) = streams[e] - one
    BY <1>7
  <2> HIDE DEF one
  <2> QED BY <2>1, Zenon DEF Put
<1> HIDE DEF f, new, one
<1> QED BY <1>1, <1>2, <1>3, <1>4, <1>5, <1>6, <1>7, <1>8, EntryTable, Zenon

(* quic_frame_stream_process and quic_frame_reset_stream_process.            *)
LEMMA EndTable ==
  ASSUME TableInv, streams \in [Ends -> Int], NEW m, m.to \in Ends, m.n \in Ids, DeliverEnd(m)
  PROVE  TableInv'
<1> DEFINE e == m.to
           n == m.n
           st == [got(e, n) EXCEPT !.recv = IF m.t = "fin" THEN "RECVD" ELSE "RESET_RECVD"]
           skip == closed(e, n) \/ received(got(e, n))
           opened == IF n >= next[e] THEN n - next[e] + 1 ELSE 0
           one == IF counts(st, FALSE) THEN 1 ELSE 0
           new == kept(st, FALSE)
           f == Opened(e, n)
           p == next[e] + opened
<1>1. /\ next' = [next EXCEPT ![e] = p] /\ uni' = uni
      /\ skip => tab' = tab /\ streams' = [streams EXCEPT ![e] = @ + opened - 0]
      /\ ~skip => /\ tab' = [tab EXCEPT ![e] = [f EXCEPT ![n] = new]]
                  /\ streams' = [streams EXCEPT ![e] = @ + opened - one]
  BY Zenon DEF DeliverEnd
<1>2. /\ tab[e] \in Row /\ next[e] \in Nat /\ next[e] <= Wanted /\ n \in Nat /\ n < Wanted
      /\ streams[e] = Cardinality(OpenOf(tab[e])) /\ streams[e] \in Nat
  BY FiniteIds, FiniteOpen, StreamAssumption DEF TableInv, Ids
<1>3. CASE skip
  <2>1. ~received(fresh)
    BY Zenon DEF received, fresh
  <2>2. ~(n >= next[e])
    BY <1>2, <1>3, <2>1 DEF closed, got
  <2>3. opened = 0 /\ p = next[e] /\ streams[e] + opened - 0 = streams[e]
    BY <1>2, <2>2
  <2>4. next' = next /\ streams' = streams
    BY <1>1, <1>3, <2>3 DEF TableInv
  <2> QED BY <1>1, <1>3, <2>4, SameTable, Zenon
<1>4. CASE ~skip
  <2>1. /\ f \in Row /\ Cardinality(OpenOf(f)) = streams[e] + opened
        /\ \A k \in Ids : k >= p => f[k] = none
        /\ \A k \in Ids : Settled(f[k])
        /\ f[n] = got(e, n) /\ got(e, n) \in Stream /\ n < p /\ p \in Nat /\ p <= Wanted
    <3>1. CASE n >= next[e]
      <4>1. f \in Row /\ Cardinality(OpenOf(f)) = Cardinality(OpenOf(tab[e])) + n - next[e] + 1
        BY <1>2, <3>1, RowOpens, Zenon DEF Opened, TableInv
      <4>2. p = n + 1 /\ opened = n - next[e] + 1
        BY <1>2, <3>1
      <4>3. \A k \in Ids : f[k] = fresh \/ f[k] = tab[e][k]
        BY Zenon DEF Opened
      <4>4. Settled(fresh)
        BY Zenon DEF Settled, fresh
      <4>5. \A k \in Ids : k >= n + 1 => f[k] = none
        <5> TAKE k \in Ids
        <5> HAVE k >= n + 1
        <5>1. k \in Nat /\ k >= next[e] /\ ~(k <= n)
          BY <1>2, <3>1, FiniteIds
        <5>2. f[k] = tab[e][k]
          BY <5>1, Zenon DEF Opened
        <5> QED BY <5>1, <5>2, Zenon DEF TableInv
      <4>6. f[n] = fresh /\ got(e, n) = fresh
        BY <1>2, <3>1 DEF Opened, got
      <4>7. \A k \in Ids : Settled(f[k])
        BY <4>3, <4>4, Zenon DEF TableInv
      <4>8. n < p /\ p \in Nat /\ p <= Wanted
        BY <1>2, <4>2, StreamAssumption
      <4>9. Cardinality(OpenOf(f)) = streams[e] + opened
        BY <1>2, <4>1, <4>2
      <4> QED BY <4>1, <4>2, <4>5, <4>6, <4>7, <4>8, <4>9, FreshStream, Zenon
    <3>2. CASE ~(n >= next[e])
      <4>1. \A k \in Ids : ~(next[e] <= k /\ k <= n)
        <5> TAKE k \in Ids
        <5>1. k \in Nat
          BY FiniteIds, Zenon
        <5> QED BY <1>2, <3>2, <5>1
      <4>2. f = tab[e]
        BY <1>2, <4>1, Zenon DEF Opened, Row
      <4>3. p = next[e] /\ opened = 0
        BY <1>2, <3>2
      <4>4. got(e, n) = tab[e][n] /\ tab[e][n] # none
        BY <1>2, <1>4, <3>2 DEF got, closed
      <4>5. tab[e][n] \in Stream
        BY <1>2, <4>4, Zenon DEF Row
      <4>6. n < p
        BY <1>2, <3>2, <4>3
      <4>7. Cardinality(OpenOf(f)) = streams[e] + opened
        BY <1>2, <4>2, <4>3
      <4> HIDE DEF p, f, opened
      <4> QED BY <1>2, <4>2, <4>3, <4>4, <4>5, <4>6, <4>7, Zenon DEF TableInv
    <3> QED BY <3>1, <3>2, Zenon
  <2>2. st \in Stream /\ (Over(st) <=> Over(f[n]))
    <3>1. st \in Stream /\ st.done = got(e, n).done
      BY <2>1, Zenon DEF Stream, RecvStates
    <3> HIDE DEF st, f
    <3> QED BY <2>1, <3>1, FreshStream, Zenon DEF Over
  <2> HIDE DEF st
  <2>3. new \in Stream \cup {none} /\ Settled(new)
    BY <2>2, KeptOver, KeptSettled, Zenon
  <2>4. \/ one = 1 /\ ~Over(f[n]) /\ Over(new)
        \/ one = 0 /\ (Over(f[n]) <=> Over(new))
    BY <2>2, KeptOver, Zenon
  <2> DEFINE c == streams[e] + opened
  <2>5. c \in Nat /\ c = Cardinality(OpenOf(f))
    BY <2>1, FiniteOpen, Zenon
  <2>8. one \in Int /\ opened \in Int /\ streams[e] \in Int
    BY <1>2
  <2> HIDE DEF one, new, f, p, n, e, skip, opened
  <2>6. streams' = [streams EXCEPT ![e] = c - one]
    <3>1. streams[e] + opened - one = c - one
      BY <2>8
    <3> HIDE DEF c
    <3> QED BY <1>1, <1>4, <3>1, Zenon
  <2> HIDE DEF c
  <2>7. e \in Ends /\ n \in Ids
    BY Zenon DEF e, n
  <2>9. /\ tab' = [tab EXCEPT ![e] = [f EXCEPT ![n] = new]]
        /\ next' = [next EXCEPT ![e] = p] /\ uni' = uni
    BY <1>1, <1>4, Zenon
  <2>10. f \in Row /\ n < p /\ p \in Nat /\ p <= Wanted
    BY <2>1, Zenon
  <2>11. \A k \in Ids : k >= p => f[k] = none
    BY <2>1, Zenon
  <2>12. \A k \in Ids : Settled(f[k])
    BY <2>1, Zenon
  <2> QED BY <2>3, <2>4, <2>5, <2>6, <2>7, <2>9, <2>10, <2>11, <2>12, EntryTable, Zenon
<1> QED BY <1>3, <1>4, Zenon

(* quic_sock_send_stream opens streams.                                      *)
LEMMA OpenTable ==
  ASSUME TableInv, streams \in [Ends -> Int], NEW n \in Ids, Open(n), n >= next["client"]
  PROVE  TableInv'
<1> DEFINE g == Opened("client", n)
           lo == next["client"]
<1>1. /\ tab["client"] \in Row /\ lo \in Nat /\ n \in Nat /\ n < Wanted
      /\ streams["client"] = Cardinality(OpenOf(tab["client"])) /\ streams["client"] \in Nat
  BY FiniteIds, FiniteOpen, TwoEnds, StreamAssumption DEF TableInv, Ids
<1>2. g \in Row /\ Cardinality(OpenOf(g)) = Cardinality(OpenOf(tab["client"])) + n - lo + 1
  BY <1>1, TwoEnds, RowOpens, Zenon DEF Opened, TableInv
<1>3. n + 1 \in Nat /\ n + 1 <= Wanted
  BY <1>1, StreamAssumption
<1>4. \A k \in Ids : k >= n + 1 => g[k] = none
  <2> TAKE k \in Ids
  <2> HAVE k >= n + 1
  <2>1. k \in Nat /\ k >= lo /\ ~(k <= n)
    BY <1>1, FiniteIds
  <2>2. g[k] = tab["client"][k]
    BY <2>1, Zenon DEF Opened
  <2> QED BY <2>1, <2>2, TwoEnds, Zenon DEF TableInv
<1>5. \A k \in Ids : Settled(g[k])
  <2>1. \A k \in Ids : g[k] = fresh \/ g[k] = tab["client"][k]
    BY Zenon DEF Opened
  <2>2. Settled(fresh)
    BY Zenon DEF Settled, fresh
  <2> QED BY <2>1, <2>2, TwoEnds, Zenon DEF TableInv
<1>6. /\ tab' = [tab EXCEPT !["client"] = g] /\ next' = [next EXCEPT !["client"] = n + 1]
      /\ uni' = uni
      /\ streams' = [streams EXCEPT !["client"] = streams["client"] + n - lo + 1]
  BY Zenon DEF Open
<1>7. streams["client"] + n - lo + 1 = Cardinality(OpenOf(g))
  BY <1>1, <1>2, Zenon
<1> HIDE DEF g, lo
<1> QED BY <1>2, <1>3, <1>4, <1>5, <1>6, <1>7, TwoEnds, RowTable, Zenon

(* quic_sendmsg with FIN and quic_sock_stream_reset change the sending part. *)
LEMMA WriteTable ==
  ASSUME TableInv, streams \in [Ends -> Int], NEW e \in Ends, NEW n \in Ids, tab[e][n] # none,
         NEW s \in {"SENT", "RESET_SENT"}, tab' = [tab EXCEPT ![e][n].send = s],
         UNCHANGED <<next, streams, uni>>
  PROVE  TableInv'
<1> DEFINE f == tab[e]
           new == [f[n] EXCEPT !.send = s]
<1>1. f \in Row /\ next[e] \in Nat /\ next[e] <= Wanted /\ streams[e] = Cardinality(OpenOf(f))
  BY Zenon DEF TableInv
<1>2. n < next[e] /\ f[n] \in Stream
  BY <1>1, FiniteIds, FreshStream DEF TableInv, Row
<1>3. /\ \A k \in Ids : k >= next[e] => f[k] = none
      /\ \A k \in Ids : Settled(f[k])
  BY Zenon DEF TableInv
<1>4. new \in Stream /\ new.send = s /\ new.recv = f[n].recv /\ new.done = f[n].done
  BY <1>2, Zenon DEF Stream, SendStates
<1>5. tab' = [tab EXCEPT ![e] = [f EXCEPT ![n] = new]]
  BY Zenon DEF TableInv
<1>6. next' = [next EXCEPT ![e] = next[e]] /\ streams' = [streams EXCEPT ![e] = streams[e]]
  BY Zenon DEF TableInv
<1> HIDE DEF f, new
<1>7. Settled(new)
  <2>1. ~ended(new)
    BY <1>4, Zenon DEF ended
  <2> QED BY <1>3, <1>4, <2>1, Zenon DEF Settled
<1>8. Over(f[n]) <=> Over(new)
  BY <1>2, <1>4, FreshStream, Zenon DEF Over
<1> DEFINE g == [f EXCEPT ![n] = new]
<1>9. g \in Row /\ \A k \in Ids : g[k] = IF k = n THEN new ELSE f[k]
  BY <1>1, <1>4, Zenon DEF Row
<1>10. streams[e] = Cardinality(OpenOf(g))
  BY <1>1, <1>8, RowStays, Zenon
<1> HIDE DEF g
<1>11. \A k \in Ids : k >= next[e] => g[k] = none
  BY <1>1, <1>2, <1>3, <1>9, FiniteIds
<1>12. \A k \in Ids : Settled(g[k])
  BY <1>3, <1>7, <1>9, Zenon
<1>13. tab' = [tab EXCEPT ![e] = g]
  BY <1>5, Zenon DEF g
<1>14. streams' = [streams EXCEPT ![e] = Cardinality(OpenOf(g))]
  BY <1>6, <1>10, Zenon
<1> QED BY <1>1, <1>6, <1>9, <1>11, <1>12, <1>13, <1>14, RowTable, Zenon

(* quic_recvmsg reads a stream to its end: it was counted when it ended.     *)
LEMMA ReadTable ==
  ASSUME TableInv, streams \in [Ends -> Int], NEW e \in Ends, NEW n \in Ids, Read(e, n),
         uni \in BOOLEAN, pending \in BOOLEAN
  PROVE  TableInv' /\ streams' = streams /\ pending' = pending
<1> DEFINE st == [tab[e][n] EXCEPT !.recv = "READ"]
<1>1. tab[e][n].recv = "RECVD" /\ Put(e, n, st, FALSE) /\ next' = next /\ uni' = uni
  BY Zenon DEF Read
<1>2. tab[e][n] \in Stream
  BY <1>1 DEF TableInv, Row, none
<1>3. /\ st \in Stream /\ st.send = tab[e][n].send /\ st.recv = "READ"
      /\ st.done = tab[e][n].done
  BY <1>2, Zenon DEF Stream, RecvStates
<1>4. pending' = (pending \/ (e = "server" /\ counts(st, FALSE)))
  BY Zenon DEF Read
<1> HIDE DEF st
<1>5. Over(st) <=> Over(tab[e][n])
  BY <1>2, <1>3, FreshStream, Zenon DEF Over
<1>6. ~counts(st, FALSE)
  <2>1. uni \/ ended(tab[e][n]) => tab[e][n].done
    BY <1>1, Zenon DEF TableInv, Settled
  <2>2. ended(st) <=> ended(tab[e][n])
    BY <1>3, Zenon DEF ended
  <2> QED BY <1>3, <2>1, <2>2, Zenon DEF counts, releases
<1>7. TableInv'
  BY <1>1, <1>2, <1>3, <1>5, PutTable, Zenon
<1>8. streams' = streams
  BY <1>1, <1>6, Zenon DEF Put
<1>9. pending' = pending
  BY <1>4, <1>6, Zenon
<1> QED BY <1>7, <1>8, <1>9, Zenon

(* A FIN or a reset is acknowledged.                                         *)
LEMMA AckTable ==
  ASSUME TableInv, streams \in [Ends -> Int], NEW m, m.to \in Ends, m.n \in Ids,
         DeliverEndAck(m)
  PROVE  /\ TableInv'
         /\ \/ streams' = streams
            \/ streams' = [streams EXCEPT ![m.to] = @ - 1]
         /\ \E released \in BOOLEAN :
              /\ Done(m.to, released, {}, net \ {m}, 0)
              /\ ~released => streams' = streams
<1> DEFINE e == m.to
           n == m.n
           fin == m.t = "fin_ack"
           st == [tab[e][n] EXCEPT !.send = IF fin THEN "RECVD" ELSE "RESET_RECVD"]
           live == tab[e][n].send = (IF fin THEN "SENT" ELSE "RESET_SENT")
<1>1. /\ (live /\ Put(e, n, st, TRUE)) \/ (~live /\ tab' = tab /\ streams' = streams)
      /\ next' = next /\ uni' = uni
      /\ Done(e, live /\ counts(st, TRUE), {}, net \ {m}, 0)
  <2>1. (live /\ Put(e, n, st, TRUE)) \/ (~live /\ tab' = tab /\ streams' = streams)
    BY Zenon DEF DeliverEndAck
  <2>2. next' = next /\ uni' = uni
    BY Zenon DEF DeliverEndAck
  <2>3. Done(e, live /\ counts(st, TRUE), {}, net \ {m}, 0)
    BY Zenon DEF DeliverEndAck
  <2> QED BY <2>1, <2>2, <2>3, Zenon
<1>2. CASE ~live
  <2>1. TableInv' /\ streams' = streams
    BY <1>1, <1>2, SameTable, Zenon
  <2> DEFINE released == live /\ counts(st, TRUE)
  <2>2. released \in BOOLEAN /\ Done(m.to, released, {}, net \ {m}, 0)
    BY <1>1, Zenon
  <2> HIDE DEF released
  <2> QED BY <2>1, <2>2, Zenon
<1>3. CASE live
  <2>1. tab[e][n] \in Stream
    BY <1>3 DEF TableInv, Row, none
  <2>2. st \in Stream /\ st.done = tab[e][n].done
    BY <2>1, Zenon DEF Stream, SendStates
  <2> DEFINE released == live /\ counts(st, TRUE)
  <2>3. released \in BOOLEAN /\ Done(m.to, released, {}, net \ {m}, 0)
    BY <1>1, Zenon
  <2>4. released <=> counts(st, TRUE)
    BY <1>3, Zenon
  <2>7. Put(e, n, st, TRUE)
    BY <1>1, <1>3, Zenon
  <2> HIDE DEF st, released
  <2>5. Over(st) <=> Over(tab[e][n])
    BY <2>1, <2>2, FreshStream, Zenon DEF Over
  <2>6. TableInv'
    BY <1>1, <2>1, <2>2, <2>5, <2>7, PutTable, Zenon
  <2>8. streams' = [streams EXCEPT ![m.to] = IF counts(st, TRUE) THEN @ - 1 ELSE @]
    BY <2>7, Zenon DEF Put
  <2>9. ~counts(st, TRUE) => streams' = streams
    BY <2>8, Zenon
  <2>10. counts(st, TRUE) => streams' = [streams EXCEPT ![m.to] = @ - 1]
    BY <2>8, Zenon
  <2> QED BY <2>3, <2>4, <2>6, <2>9, <2>10, Zenon
<1> QED BY <1>2, <1>3, Zenon

(* The limits: nothing is owed between two packets, the limit of the server  *)
(* is what it would grant now, and it covers what is open.                   *)
LimitInv ==
    /\ pending \in BOOLEAN /\ ~pending
    /\ max["server"] = new_max(next["server"], streams["server"])
    /\ next["server"] <= max["server"] + 1
    /\ streams["client"] <= max_streams

OtherTypes ==
    /\ awake \in BOOLEAN /\ uni \in BOOLEAN
    /\ wait \in Ids \cup {nobody} /\ failed \in 0 .. MaxFail
    /\ net \subseteq Frame

CInv == IInv /\ TableInv /\ LimitInv /\ OtherTypes

LEMMA FramesTyped ==
  /\ \A t \in {"fin", "fin_ack", "reset", "reset_ack"}, e \in Ends, n \in Ids :
       [t |-> t, to |-> e, n |-> n] \in Frame
  /\ \A v \in 1 .. Wanted + max_streams : [t |-> "max_streams", v |-> v] \in Frame
  BY Zenon DEF Frame

LEMMA AckTyped == ASSUME NEW m, m.to \in Ends, m.n \in Ids PROVE Ack(m) \in Frame
<1>1. CASE m.t = "fin"
  BY <1>1, TwoEnds, FramesTyped, Zenon DEF Ack
<1>2. CASE m.t # "fin"
  BY <1>2, TwoEnds, FramesTyped, Zenon DEF Ack
<1> QED BY <1>1, <1>2, Zenon

(* The limit that goes into a frame.                                         *)
LEMMA GrantTyped ==
  ASSUME NEW nxt \in Nat, NEW open \in Nat, open <= nxt, nxt <= Wanted
  PROVE  MaxStreams(new_max(nxt, open) + 1) \in Frame
<1>1. new_max(nxt, open) + 1 \in 1 .. Wanted + max_streams
  BY StreamAssumption DEF new_max
<1> QED BY <1>1, FramesTyped, Zenon DEF MaxStreams

LEMMA NoneFailed == OtherTypes => failed + 0 <= MaxFail
  BY StreamAssumption DEF OtherTypes

(* quic_packet_app_process_done.                                             *)
LEMMA DoneLimits ==
  ASSUME IInv, TableInv, TableInv', LimitInv, OtherTypes, NEW e \in Ends,
         NEW released \in BOOLEAN, NEW out \in SUBSET Frame, NEW rest \in SUBSET Frame,
         NEW lost \in {0, 1}, failed + lost <= MaxFail, Done(e, released, out, rest, lost),
         next'["server"] - streams'["server"] >= next["server"] - streams["server"],
         next'["server"] <= max["server"] + 1,
         \/ e = "server" /\ released
         \/ next'["server"] - streams'["server"] = next["server"] - streams["server"],
         streams'["client"] <= streams["client"]
  PROVE  LimitInv' /\ failed' \in 0 .. MaxFail /\ net' \subseteq Frame
<1> DEFINE nx == next'["server"]
           op == streams'["server"]
           m == new_max(nx, op)
           due == e = "server" /\ (pending \/ released)
<1>1. /\ next["server"] \in Nat /\ streams["server"] \in Nat /\ streams["client"] \in Nat
      /\ max["server"] \in Int /\ max \in [Ends -> Int] /\ max_streams \in Nat
  BY OpenBound, TwoEnds, StreamAssumption, Zenon DEF TableInv, IInv, Counters
<1>2. /\ nx \in Nat /\ op \in Nat /\ op <= nx /\ nx <= Wanted /\ streams'["client"] \in Nat
  BY OpenBound, TwoEnds, Zenon DEF TableInv
<1>3. /\ pending' = (pending /\ e = "client")
      /\ max' = IF due THEN [max EXCEPT !["server"] = m] ELSE max
      /\ \/ /\ net' = rest \cup out \cup (IF due THEN {MaxStreams(m + 1)} ELSE {})
            /\ failed' = failed + lost
         \/ /\ due /\ failed + lost < MaxFail
            /\ net' = rest \cup out
            /\ failed' = failed + lost + 1
  BY Zenon DEF Done
<1>4. ~pending /\ pending' \in BOOLEAN /\ ~pending'
  BY <1>3, Zenon DEF LimitInv
<1>5. MaxStreams(m + 1) \in Frame
  BY <1>2, GrantTyped, Zenon
<1>6. net' \subseteq Frame
  BY <1>3, <1>5, Zenon
<1>7. failed' \in 0 .. MaxFail
  BY <1>3, StreamAssumption DEF OtherTypes
<1>8. /\ max["server"] = new_max(next["server"], streams["server"])
      /\ streams["client"] <= max_streams
  BY Zenon DEF LimitInv
<1>9. max'["server"] = m
  <2>1. CASE due
    BY <1>1, <1>3, <2>1, TwoEnds, Zenon
  <2>2. CASE ~due
    <3>1. nx - op = next["server"] - streams["server"]
      BY <1>4, <2>2, Zenon
    <3>2. new_max(nx, op) = new_max(next["server"], streams["server"])
      BY <1>1, <1>2, <3>1 DEF new_max
    <3> QED BY <1>3, <1>8, <2>2, <3>2, Zenon
  <2> QED BY <2>1, <2>2, Zenon
<1>10. nx <= m + 1
  <2>1. m >= max["server"]
    BY <1>1, <1>2, <1>8 DEF new_max
  <2>2. m \in Int
    BY <1>1, <1>2 DEF new_max
  <2> HIDE DEF m
  <2> QED BY <1>1, <1>2, <2>1, <2>2
<1>11. streams'["client"] <= max_streams
  BY <1>1, <1>2, <1>8
<1>12. LimitInv'
  BY <1>4, <1>9, <1>10, <1>11, Zenon DEF LimitInv, new_max
<1> QED BY <1>6, <1>7, <1>12, Zenon

(* A step outside a packet that leaves the server alone.                     *)
LEMMA QuietLimits ==
  ASSUME LimitInv, UNCHANGED <<max, pending>>, next'["server"] = next["server"],
         streams'["server"] = streams["server"], streams'["client"] <= max_streams
  PROVE  LimitInv'
  BY Zenon DEF LimitInv, new_max

LEMMA OpenCInv ==
  ASSUME CInv, NEW n \in Ids, Open(n) \/ Block(n)
  PROVE  TableInv' /\ LimitInv' /\ OtherTypes'
<1> USE Ints, TwoEnds
<1>0. IInv /\ TableInv /\ LimitInv /\ OtherTypes /\ streams \in [Ends -> Int]
  BY Zenon DEF CInv, IInv, Counters
<1>1. CASE Open(n)
  <2>1. n >= next["client"] /\ ~exceeds(n)
    BY <1>0, <1>1 DEF Open, Looks, IInv, OpenedByClient, nobody
  <2>2. TableInv'
    BY <1>0, <1>1, <2>1, OpenTable, Zenon
  <2>3. /\ next'["server"] = next["server"] /\ streams'["server"] = streams["server"]
        /\ streams'["client"] = streams["client"] + n - next["client"] + 1
    BY <1>0, <1>1, Zenon DEF Open, TableInv
  <2>4. streams'["client"] <= max_streams
    BY <1>0, <2>1, <2>3 DEF exceeds
  <2>5. UNCHANGED <<max, pending>>
    BY <1>1, Zenon DEF Open, limits
  <2>6. LimitInv'
    BY <1>0, <2>3, <2>4, <2>5, QuietLimits, Zenon
  <2>7. OtherTypes'
    BY <1>0, <1>1, Zenon DEF OtherTypes, Open, limits
  <2> QED BY <2>2, <2>6, <2>7, Zenon
<1>2. CASE Block(n)
  <2>1. UNCHANGED <<tab, next, streams, max, pending, failed, uni>>
    BY <1>2, Zenon DEF Block, limits
  <2>2. TableInv'
    BY <1>0, <2>1, SameTable, Zenon
  <2>3. LimitInv'
    BY <1>0, <2>1, Zenon DEF LimitInv, new_max
  <2>4. OtherTypes'
    BY <1>0, <1>2, <2>1, Zenon DEF OtherTypes, Block
  <2> QED BY <2>2, <2>3, <2>4, Zenon
<1> QED BY <1>1, <1>2, Zenon

LEMMA WriteCInv ==
  ASSUME CInv, NEW e \in Ends, NEW n \in Ids, Finish(e, n) \/ Reset(e, n)
  PROVE  TableInv' /\ LimitInv' /\ OtherTypes'
<1>0. TableInv /\ LimitInv /\ OtherTypes /\ streams \in [Ends -> Int]
  BY Zenon DEF CInv, IInv, Counters
<1>1. PICK s \in {"SENT", "RESET_SENT"}, t \in {"fin", "reset"} :
        /\ tab' = [tab EXCEPT ![e][n].send = s]
        /\ net' = net \cup {[t |-> t, to |-> peer(e), n |-> n]}
  BY Zenon DEF Finish, Reset
<1>2. /\ UNCHANGED <<next, streams, max, pending, failed, wait, awake, uni>>
      /\ tab[e][n] # none
  BY Zenon DEF Finish, Reset, Writable, limits
<1>3. TableInv'
  BY <1>0, <1>1, <1>2, WriteTable, Zenon
<1>4. LimitInv'
  BY <1>0, <1>2, Zenon DEF LimitInv, new_max
<1>5. [t |-> t, to |-> peer(e), n |-> n] \in Frame
  BY FramesTyped, TwoEnds, Zenon
<1>6. OtherTypes'
  BY <1>0, <1>1, <1>2, <1>5, Zenon DEF OtherTypes
<1> QED BY <1>3, <1>4, <1>6, Zenon

LEMMA ReadCInv ==
  ASSUME CInv, NEW e \in Ends, NEW n \in Ids, Read(e, n)
  PROVE  TableInv' /\ LimitInv' /\ OtherTypes'
<1>0. /\ TableInv /\ LimitInv /\ OtherTypes /\ streams \in [Ends -> Int]
      /\ uni \in BOOLEAN /\ pending \in BOOLEAN
  BY Zenon DEF CInv, IInv, Counters, LimitInv, OtherTypes
<1>1. TableInv' /\ streams' = streams /\ pending' = pending
  BY <1>0, ReadTable, Zenon
<1>2. UNCHANGED <<next, max, failed, wait, awake, net, uni>>
  BY Zenon DEF Read
<1> QED BY <1>0, <1>1, <1>2, Zenon DEF LimitInv, new_max, OtherTypes

LEMMA AckCInv ==
  ASSUME CInv, NEW m \in net, DeliverEndAck(m)
  PROVE  TableInv' /\ LimitInv' /\ OtherTypes'
<1>0. IInv /\ TableInv /\ LimitInv /\ OtherTypes /\ streams \in [Ends -> Int]
  BY Zenon DEF CInv, IInv, Counters
<1>1. m.to \in Ends /\ m.n \in Ids
  <2>1. m.t \in {"fin_ack", "reset_ack"} /\ m \in AnyFrame
    BY <1>0, Zenon DEF DeliverEndAck, IInv, FramesSound
  <2> QED BY <2>1, FrameRead, Zenon
<1>2. TableInv' /\ (streams' = streams \/ streams' = [streams EXCEPT ![m.to] = @ - 1])
  BY <1>0, <1>1, AckTable, Zenon
<1>3. PICK released \in BOOLEAN : /\ Done(m.to, released, {}, net \ {m}, 0)
                                  /\ ~released => streams' = streams
  BY <1>0, <1>1, AckTable, Zenon
<1>4. UNCHANGED <<next, wait, uni>>
  BY Zenon DEF DeliverEndAck
<1>5. /\ streams'["server"] <= streams["server"] /\ streams'["client"] <= streams["client"]
      /\ streams'["server"] \in Int
      /\ (m.to = "server" /\ released) \/ streams'["server"] = streams["server"]
  BY <1>0, <1>1, <1>2, <1>3, TwoEnds, Ints DEF Ends
<1>6. next'["server"] <= max["server"] + 1
  BY <1>0, <1>4, Zenon DEF LimitInv
<1>7. /\ next'["server"] - streams'["server"] >= next["server"] - streams["server"]
      /\ \/ m.to = "server" /\ released
         \/ next'["server"] - streams'["server"] = next["server"] - streams["server"]
  <2>1. next'["server"] = next["server"] /\ next["server"] \in Int /\ streams["server"] \in Int
    BY <1>0, <1>4, Ints, Zenon
  <2> QED BY <1>5, <2>1
<1>8. {} \in SUBSET Frame /\ net \ {m} \in SUBSET Frame
  BY <1>0, Zenon DEF OtherTypes
<1>9. LimitInv' /\ failed' \in 0 .. MaxFail /\ net' \subseteq Frame
  BY <1>0, <1>1, <1>2, <1>3, <1>5, <1>6, <1>7, <1>8, NoneFailed, DoneLimits, Zenon
<1>10. awake' \in BOOLEAN
  BY <1>0, Zenon DEF DeliverEndAck, OtherTypes
<1> QED BY <1>0, <1>2, <1>4, <1>9, <1>10, Zenon DEF OtherTypes

LEMMA EndCInv ==
  ASSUME CInv, NEW m \in net, DeliverEnd(m)
  PROVE  TableInv' /\ LimitInv' /\ OtherTypes'
<1> DEFINE e == m.to
           n == m.n
           st == [got(e, n) EXCEPT !.recv = IF m.t = "fin" THEN "RECVD" ELSE "RESET_RECVD"]
           ack == {Ack(m)}
           skip == closed(e, n) \/ received(got(e, n))
           opened == IF n >= next[e] THEN n - next[e] + 1 ELSE 0
           released == ~skip /\ counts(st, FALSE)
           less == IF released THEN 1 ELSE 0
<1>0. /\ IInv /\ TableInv /\ LimitInv /\ OtherTypes
      /\ streams \in [Ends -> Int] /\ next \in [Ends -> Int]
  BY Zenon DEF CInv, IInv, Counters
<1>1. m.t \in {"fin", "reset"} /\ m \in AnyFrame /\ n < next["client"] /\ ~limited(e, n)
  BY <1>0, Zenon DEF DeliverEnd, IInv, FramesSound
<1>2. e \in Ends /\ n \in Ids
  BY <1>1, FrameRead, Zenon
<1>3. TableInv'
  BY <1>0, <1>2, EndTable, Zenon
<1>4. /\ next' = [next EXCEPT ![e] = @ + opened]
      /\ streams' = [streams EXCEPT ![e] = @ + opened - less]
      /\ UNCHANGED <<wait, uni>>
  BY Zenon DEF DeliverEnd
<1>5. PICK rest \in taken(m) : Done(e, released, ack, rest, 0)
  BY Zenon DEF DeliverEnd
<1>6. awake' \in BOOLEAN
  BY <1>0, Zenon DEF DeliverEnd, OtherTypes
<1>7. rest \in SUBSET Frame /\ ack \in SUBSET Frame
  <2>1. rest \subseteq net
    BY Zenon DEF taken
  <2>2. ack \in SUBSET Frame
    BY <1>2, AckTyped, Zenon
  <2> QED BY <1>0, <2>1, <2>2, Zenon DEF OtherTypes
<1>8. /\ opened \in Int /\ opened >= 0 /\ less \in {0, 1} /\ (e = "client" => opened = 0)
      /\ released \in BOOLEAN /\ (~released => less = 0)
      /\ e = "server" => next["server"] + opened <= max["server"] + 1
  <2>1. n \in Int /\ next[e] \in Int /\ max["server"] \in Int
    BY <1>0, <1>2, Ints, Zenon
  <2>2. opened \in Int /\ opened >= 0 /\ (e = "client" => opened = 0)
    BY <1>1, <2>1
  <2>3. ASSUME e = "server" PROVE next["server"] + opened <= max["server"] + 1
    <3>1. n <= max["server"] /\ next["server"] <= max["server"] + 1
      BY <1>0, <1>1, <2>1, <2>3 DEF limited, LimitInv
    <3> QED BY <2>1, <2>3, <3>1
  <2> QED BY <2>2, <2>3, Zenon
<1> HIDE DEF opened, less, released, ack
<1>9. /\ next'["server"] \in Int /\ streams'["server"] \in Int
      /\ next'["server"] - streams'["server"] >= next["server"] - streams["server"]
      /\ next'["server"] <= max["server"] + 1
      /\ \/ e = "server" /\ released
         \/ next'["server"] - streams'["server"] = next["server"] - streams["server"]
      /\ streams'["client"] <= streams["client"]
  <2>1. CASE e = "client"
    <3>1. /\ next'["server"] = next["server"] /\ streams'["server"] = streams["server"]
          /\ streams'["client"] = streams["client"] + opened - less
      BY <1>0, <1>4, <2>1, TwoEnds, Zenon
    <3>2. next["server"] <= max["server"] + 1
      BY <1>0, Zenon DEF LimitInv
    <3> QED BY <1>0, <1>8, <2>1, <3>1, <3>2, Ints
  <2>2. CASE e = "server"
    <3>1. /\ next'["server"] = next["server"] + opened
          /\ streams'["server"] = streams["server"] + opened - less
          /\ streams'["client"] = streams["client"]
      BY <1>0, <1>4, <2>2, TwoEnds, Zenon
    <3> QED BY <1>0, <1>8, <2>2, <3>1, Ints
  <2> QED BY <1>2, <2>1, <2>2, Zenon DEF Ends
<1> HIDE DEF e
<1>10. LimitInv' /\ failed' \in 0 .. MaxFail /\ net' \subseteq Frame
  BY <1>0, <1>2, <1>3, <1>5, <1>7, <1>8, <1>9, NoneFailed, DoneLimits, Zenon
<1> QED BY <1>0, <1>3, <1>4, <1>6, <1>10, Zenon DEF OtherTypes

LEMMA UncreatedCInv ==
  ASSUME CInv, NEW m \in net, DeliverUncreated(m)
  PROVE  TableInv' /\ LimitInv' /\ OtherTypes'
<1>0. IInv /\ TableInv /\ LimitInv /\ OtherTypes
  BY Zenon DEF CInv
<1>1. UNCHANGED <<tab, next, streams, wait, awake, uni>> /\ failed < MaxFail
  BY Zenon DEF DeliverUncreated
<1>2. TableInv'
  BY <1>0, <1>1, SameTable, Zenon
<1>3. PICK rest \in taken(m) : Done("server", FALSE, {Ack(m)}, rest, 1)
  BY Zenon DEF DeliverUncreated
<1>4. {Ack(m)} \in SUBSET Frame /\ rest \in SUBSET Frame
  <2>1. m.t \in {"fin", "reset"} /\ m \in AnyFrame
    BY <1>0, Zenon DEF DeliverUncreated, IInv, FramesSound
  <2>2. Ack(m) \in Frame
    BY <2>1, FrameRead, AckTyped, Zenon
  <2>3. rest \subseteq net
    BY Zenon DEF taken
  <2> QED BY <1>0, <2>2, <2>3, Zenon DEF OtherTypes
<1>5. /\ next'["server"] - streams'["server"] = next["server"] - streams["server"]
      /\ next'["server"] - streams'["server"] >= next["server"] - streams["server"]
      /\ next'["server"] <= max["server"] + 1
      /\ streams'["client"] <= streams["client"]
  BY <1>0, <1>1, Ints DEF LimitInv
<1>6. failed + 1 <= MaxFail
  BY <1>0, <1>1, StreamAssumption DEF OtherTypes
<1>7. LimitInv' /\ failed' \in 0 .. MaxFail /\ net' \subseteq Frame
  BY <1>0, <1>2, <1>3, <1>4, <1>5, <1>6, TwoEnds, DoneLimits, Zenon
<1> QED BY <1>0, <1>1, <1>2, <1>7, Zenon DEF OtherTypes

(* MAX_STREAMS and a loss.                                                   *)
LEMMA DropCInv ==
  ASSUME CInv, NEW m \in net, DeliverMaxStreams(m) \/ Lose(m)
  PROVE  TableInv' /\ LimitInv' /\ OtherTypes'
<1>0. IInv /\ TableInv /\ LimitInv /\ OtherTypes /\ max \in [Ends -> Int]
  BY Zenon DEF CInv, IInv, Counters
<1>1. /\ UNCHANGED <<tab, next, streams, pending, failed, wait, uni>>
      /\ awake' \in {awake, TRUE} /\ net' \subseteq net
  BY Zenon DEF DeliverMaxStreams, Lose, limits
<1>2. max'["server"] = max["server"]
  <2>1. max' = max \/ max' = [max EXCEPT !["client"] = m.v - 1]
    BY Zenon DEF DeliverMaxStreams, Lose, limits
  <2> QED BY <1>0, <2>1, TwoEnds, Zenon
<1>3. TableInv'
  BY <1>0, <1>1, SameTable, Zenon
<1>4. LimitInv'
  BY <1>0, <1>1, <1>2, Zenon DEF LimitInv, new_max
<1>5. OtherTypes'
  BY <1>0, <1>1, Zenon DEF OtherTypes
<1> QED BY <1>3, <1>4, <1>5, Zenon

LEMMA NextCInv == CInv /\ [Next]_vars => CInv'
<1> SUFFICES ASSUME CInv, [Next]_vars PROVE TableInv' /\ LimitInv' /\ OtherTypes'
  BY NextIInv, Zenon DEF CInv
<1>1. ASSUME NEW n \in Ids, Open(n) \/ Block(n) PROVE TableInv' /\ LimitInv' /\ OtherTypes'
  BY <1>1, OpenCInv, Zenon
<1>2. ASSUME NEW e \in Ends, NEW n \in Ids, Finish(e, n) \/ Reset(e, n) \/ Read(e, n)
      PROVE  TableInv' /\ LimitInv' /\ OtherTypes'
  BY <1>2, WriteCInv, ReadCInv, Zenon
<1>3. ASSUME NEW m \in net, Deliver(m) \/ Lose(m) PROVE TableInv' /\ LimitInv' /\ OtherTypes'
  BY <1>3, EndCInv, UncreatedCInv, AckCInv, DropCInv, Zenon DEF Deliver
<1>4. ASSUME UNCHANGED vars PROVE TableInv' /\ LimitInv' /\ OtherTypes'
  <2>1. TableInv'
    BY <1>4, SameTable, Zenon DEF CInv, vars
  <2> QED BY <1>4, <2>1, Zenon DEF vars, CInv, LimitInv, new_max, OtherTypes
<1> QED BY <1>1, <1>2, <1>3, <1>4, Zenon DEF Next, Rest

LEMMA InitCInv == Init => CInv
<1> SUFFICES ASSUME Init PROVE TableInv /\ LimitInv /\ OtherTypes
  BY InitIInv, Zenon DEF CInv
<1>1. \A e \in Ends : tab[e] \in Row /\ \A n \in Ids : tab[e][n] = none
  BY Zenon DEF Init, Row
<1>2. \A e \in Ends : OpenOf(tab[e]) = {}
  BY <1>1, FreshStream, Zenon DEF OpenOf
<1>3. Settled(none)
  BY Zenon DEF Settled, none
<1>4. Cardinality({}) = 0
  BY FS_EmptySet, Zenon
<1>5. TableInv
  <2>1. tab \in [Ends -> Row] /\ next \in [Ends -> Nat] /\ \A e \in Ends : next[e] <= Wanted
    BY StreamAssumption DEF Init, Row
  <2>2. \A e \in Ends : streams[e] = Cardinality(OpenOf(tab[e]))
    BY <1>2, <1>4, Zenon DEF Init
  <2> QED BY <1>1, <1>3, <2>1, <2>2, Zenon DEF TableInv
<1>6. LimitInv
  <2>1. pending \in BOOLEAN /\ ~pending
    BY Zenon DEF Init
  <2>2. max["server"] = max_streams - 1 /\ \A e \in Ends : next[e] = 0 /\ streams[e] = 0
    BY TwoEnds, Zenon DEF Init
  <2> QED BY <2>1, <2>2, StreamAssumption, TwoEnds DEF LimitInv, new_max
<1>7. OtherTypes
  <2>1. awake \in BOOLEAN /\ uni \in BOOLEAN
    BY StreamAssumption, Zenon DEF Init
  <2>2. wait \in Ids \cup {nobody} /\ failed \in 0 .. MaxFail /\ net \subseteq Frame
    BY StreamAssumption DEF Init
  <2> QED BY <2>1, <2>2, Zenon DEF OtherTypes
<1> QED BY <1>5, <1>6, <1>7, Zenon

(* The streams a server opened are the open ones and the closed ones.        *)
LEMMA LimitExact == CInv => LimitCurrent
<1> SUFFICES ASSUME CInv PROVE LimitCurrent
  BY Zenon
<1> DEFINE f == tab["server"]
           p == next["server"]
           C == {n \in Ids : n < p /\ (f[n] = none \/ f[n].done)}
<1>1. /\ p \in Nat /\ p <= Wanted /\ streams["server"] = Cardinality(OpenOf(f))
      /\ \A n \in Ids : n >= p => f[n] = none
      /\ max["server"] = p - 1 + max_streams - streams["server"]
  BY TwoEnds, Zenon DEF CInv, TableInv, LimitInv, new_max
<1>2. OpenOf(f) \cap C = {} /\ OpenOf(f) \cup C = 0 .. p - 1
  <2>1. C = {n \in Ids : n < p /\ Over(f[n])}
    BY Zenon DEF Over
  <2>2. \A n \in OpenOf(f) : n \in Ids /\ n < p /\ ~Over(f[n])
    <3> TAKE n \in OpenOf(f)
    <3>1. n \in Ids /\ ~Over(f[n])
      BY Zenon DEF OpenOf
    <3>2. n \in Nat /\ ~(n >= p)
      BY <1>1, <3>1, FiniteIds, FreshStream, Zenon
    <3> QED BY <1>1, <3>1, <3>2
  <2>3. \A n \in 0 .. p - 1 : n \in Ids /\ n < p
    BY <1>1, StreamAssumption DEF Ids
  <2>4. \A n \in Ids : n < p => n \in 0 .. p - 1
    BY <1>1, FiniteIds
  <2> HIDE DEF C, f, p
  <2>5. OpenOf(f) \cap C = {}
    BY <2>1, <2>2, Zenon
  <2>6. \A n \in Ids : n \in OpenOf(f) <=> ~Over(f[n])
    BY Zenon DEF OpenOf
  <2>7. OpenOf(f) \cup C = 0 .. p - 1
    BY <2>1, <2>2, <2>3, <2>4, <2>6, Zenon
  <2> QED BY <2>5, <2>7, Zenon
<1>3. IsFiniteSet(C) /\ Cardinality(C) \in Nat
  <2>1. C \in SUBSET Ids
    BY Zenon
  <2> QED BY <2>1, FiniteIds, FS_Subset, FS_CardinalityType, Zenon
<1>4. Cardinality(0 .. p - 1) = p
  <2>1. 0 \in Int /\ p - 1 \in Int
    BY <1>1
  <2>2. Cardinality(0 .. p - 1) = IF 0 > p - 1 THEN 0 ELSE p - 1 - 0 + 1
    BY <2>1, FS_Interval, Zenon
  <2> QED BY <1>1, <2>2
<1> HIDE DEF C, f, p
<1>5. Cardinality(OpenOf(f) \cup C) = Cardinality(OpenOf(f)) + Cardinality(C) - Cardinality({})
  <2> DEFINE O == OpenOf(f)
  <2>1. IsFiniteSet(O) /\ O \cap C = {}
    BY <1>2, FiniteOpen, Zenon
  <2> HIDE DEF O
  <2>2. Cardinality(O \cup C) = Cardinality(O) + Cardinality(C) - Cardinality(O \cap C)
    BY <1>3, <2>1, FS_Union, Zenon
  <2> QED BY <2>1, <2>2, Zenon DEF O
<1>6. Cardinality({}) = 0
  BY FS_EmptySet, Zenon
<1>7. p = Cardinality(OpenOf(f)) + Cardinality(C)
  <2>1. Cardinality(OpenOf(f) \cup C) = p
    BY <1>2, <1>4, Zenon
  <2> QED BY <1>3, <1>5, <1>6, <2>1, FiniteOpen
<1>8. max["server"] + 1 = max_streams + Cardinality(C)
  BY <1>1, <1>3, <1>7, FiniteOpen, StreamAssumption
<1> QED BY <1>8, Zenon DEF C, f, p, LimitCurrent

(* The counts of open streams that quic_stream_create and quic_stream_put     *)
(* keep are exact at both ends, the limit quic_stream_max_streams_update      *)
(* computes is the window plus the streams released, no more than the window  *)
(* is open at a time, and every variable has its type: for every number of    *)
(* streams and every window.                                                  *)
THEOREM CountsKept == Spec => []Counts
<1>1. CInv => Counts
  <2> SUFFICES ASSUME CInv PROVE Counts
    BY Zenon
  <2>0. IInv /\ TableInv /\ LimitInv /\ OtherTypes
    BY Zenon DEF CInv
  <2>1. CountersExact
    <3>1. \A e \in Ends :
            OpenOf(tab[e]) = {n \in Ids : tab[e][n] # none /\ ~tab[e][n].done}
      BY Zenon DEF OpenOf, Over
    <3> QED BY <2>0, <3>1, Zenon DEF TableInv, CountersExact
  <2>2. \A e \in Ends : streams[e] \in Nat
    BY <2>0, OpenBound, Zenon
  <2>3. TypeOK
    <3>1. tab \in [Ends -> [Ids -> Stream \cup {none}]] /\ next \in [Ends -> Nat]
      BY <2>0, Zenon DEF TableInv, Row
    <3>2. max \in [Ends -> Int] /\ streams \in [Ends -> Nat]
      BY <2>0, <2>2, Zenon DEF IInv, Counters
    <3>3. {pending, awake, uni} \subseteq BOOLEAN
      BY <2>0, Zenon DEF LimitInv, OtherTypes
    <3> QED BY <2>0, <3>1, <3>2, <3>3, Zenon DEF TypeOK, OtherTypes
  <2>4. Concurrency
    <3>1. streams["client"] <= max_streams
      BY <2>0, Zenon DEF LimitInv
    <3>2. streams["server"] <= max_streams
      BY <2>0, <2>2, TwoEnds, Ints DEF LimitInv, new_max
    <3> QED BY <3>1, <3>2, Zenon DEF Concurrency, Ends
  <2> QED BY <2>1, <2>3, <2>4, LimitExact, Zenon DEF Counts
<1> QED BY <1>1, InitCInv, NextCInv, PTL DEF Spec

(* A table changes only where a stream is, or where one is opened.           *)
LEMMA ClosedKept ==
  ASSUME CInv, [Next]_vars, NEW e \in Ends, NEW n \in Ids, n < next[e], tab[e][n] = none
  PROVE  tab'[e][n] = none
<1> USE Ints
<1>0. IInv /\ Tables /\ tab \in [Ends -> Row]
  BY Zenon DEF CInv, IInv, TableInv
<1>1. ASSUME NEW k \in Ids, Open(k) PROVE tab'[e][n] = none
  <2>1. tab' = [tab EXCEPT !["client"] = Opened("client", k)]
    BY <1>1, Zenon DEF Open
  <2>2. CASE e = "client"
    BY <1>0, <2>1, <2>2 DEF Opened
  <2>3. CASE e # "client"
    BY <1>0, <2>1, <2>3, Zenon
  <2> QED BY <2>2, <2>3, Zenon
<1>2. ASSUME NEW d \in Ends, NEW k \in Ids, NEW st, tab[d][k] # none,
             tab' = [tab EXCEPT ![d][k] = st]
      PROVE  tab'[e][n] = none
  BY <1>0, <1>2, Zenon DEF Row
<1>3. ASSUME NEW d \in Ends, NEW k \in Ids, Finish(d, k) \/ Reset(d, k)
      PROVE  tab'[e][n] = none
  <2>1. PICK s : tab' = [tab EXCEPT ![d][k].send = s]
    BY <1>3, Zenon DEF Finish, Reset
  <2>2. tab' = [tab EXCEPT ![d][k] = [tab[d][k] EXCEPT !.send = s]] /\ tab[d][k] # none
    BY <1>3, <2>1, Zenon DEF Finish, Reset, Writable
  <2> QED BY <1>2, <2>2, Zenon
<1>4. ASSUME NEW d \in Ends, NEW k \in Ids, Read(d, k) PROVE tab'[e][n] = none
  <2>1. PICK st : tab' = [tab EXCEPT ![d][k] = st]
    BY <1>4, Zenon DEF Read, Put
  <2>2. tab[d][k] # none
    BY <1>4 DEF Read, none
  <2> QED BY <1>2, <2>1, <2>2, Zenon
<1>5. ASSUME NEW m \in net, DeliverEndAck(m) PROVE tab'[e][n] = none
  <2>1. m.t \in {"fin_ack", "reset_ack"} /\ m \in AnyFrame
    BY <1>0, <1>5, Zenon DEF DeliverEndAck, IInv, FramesSound
  <2>2. m.to \in Ends /\ m.n \in Ids
    BY <2>1, FrameRead, Zenon
  <2>3. \/ tab' = tab
        \/ /\ tab[m.to][m.n].send \in {"SENT", "RESET_SENT"}
           /\ \E st : tab' = [tab EXCEPT ![m.to][m.n] = st]
    BY <1>5, Zenon DEF DeliverEndAck, Put
  <2>4. tab[m.to][m.n].send \in {"SENT", "RESET_SENT"} => tab[m.to][m.n] # none
    BY DEF none
  <2> QED BY <1>2, <2>2, <2>3, <2>4, Zenon
<1>6. ASSUME NEW m \in net, DeliverEnd(m) PROVE tab'[e][n] = none
  <2>1. m.t \in {"fin", "reset"} /\ m \in AnyFrame
    BY <1>0, <1>6, Zenon DEF DeliverEnd, IInv, FramesSound
  <2>2. m.to \in Ends /\ m.n \in Ids
    BY <2>1, FrameRead, Zenon
  <2>3. \/ tab' = tab
        \/ /\ ~closed(m.to, m.n)
           /\ \E st : tab' = [tab EXCEPT ![m.to] = [Opened(m.to, m.n) EXCEPT ![m.n] = st]]
    BY <1>6, Zenon DEF DeliverEnd
  <2>4. ASSUME ~closed(m.to, m.n), NEW st, m.to = e,
               tab' = [tab EXCEPT ![m.to] = [Opened(m.to, m.n) EXCEPT ![m.n] = st]]
        PROVE  tab'[e][n] = none
    <3>1. n # m.n
      BY <2>4, Zenon DEF closed
    <3>2. tab'[e] = [Opened(e, m.n) EXCEPT ![m.n] = st]
      BY <1>0, <2>4, Zenon
    <3>3. Opened(e, m.n)[n] = tab[e][n] /\ DOMAIN Opened(e, m.n) = Ids
      BY <1>0 DEF Opened
    <3> QED BY <3>1, <3>2, <3>3, Zenon
  <2>5. ASSUME NEW st, m.to # e,
               tab' = [tab EXCEPT ![m.to] = [Opened(m.to, m.n) EXCEPT ![m.n] = st]]
        PROVE  tab'[e][n] = none
    BY <1>0, <2>5, Zenon
  <2> QED BY <2>3, <2>4, <2>5, Zenon
<1>7. ASSUME \/ \E k \in Ids : Block(k)
             \/ \E m \in net : DeliverUncreated(m) \/ DeliverMaxStreams(m) \/ Lose(m)
             \/ Rest \/ UNCHANGED vars
      PROVE  tab'[e][n] = none
  <2>1. tab' = tab
    BY <1>7, Zenon DEF Block, DeliverUncreated, DeliverMaxStreams, Lose, Rest, vars
  <2> QED BY <2>1, Zenon
<1> QED BY <1>1, <1>3, <1>4, <1>5, <1>6, <1>7, Zenon DEF Next, Deliver

(* A stream that was deleted is never opened again, however late or often a   *)
(* STREAM or RESET_STREAM frame for it arrives (quic_stream_get,              *)
(* quic_stream_id_closed), for every number of streams.                       *)
THEOREM ClosedForGood == Spec => ClosedStays
<1>1. CInv /\ [Next]_vars =>
        [\A e \in Ends, n \in Ids : n < next[e] /\ tab[e][n] = none => tab'[e][n] = none]_vars
  BY ClosedKept, Zenon
<1> QED BY <1>1, InitCInv, NextCInv, PTL DEF Spec, ClosedStays
===============================================================================
