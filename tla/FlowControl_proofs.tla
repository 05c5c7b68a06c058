-------------------------- MODULE FlowControl_proofs --------------------------
(* That the sender keeps to the limits it was given, the receiver's unread     *)
(* data to the windows it offered, the counters of both levels to each other,  *)
(* that legal data is never refused and that a sender whose data was read has  *)
(* credit again: for any streams, windows, frame sizes, and any order or       *)
(* repetition of the frames.                                                   *)
EXTENDS FlowControl, FiniteSetTheorems, TLAPS

USE SMTT(30)

SendType == [bytes : Nat, max_bytes : Nat, last_max_bytes : Nat,
             data_blocked : BOOLEAN, reset : BOOLEAN]
InqType == [bytes : Nat, max_bytes : Nat, highest : Nat]
RecvType == [bytes : Nat, max_bytes : Nat, highest : Nat, got : SUBSET Nat,
             state : {"RECV", "STOPPED", "RESET_RECVD"}]

(* UnreadBounded is not inductive: data is accepted up to max_bytes, so what *)
(* the receiver offers must itself be within the window.  A limit that was   *)
(* lowered under memory pressure keeps this, and so does one raised again.   *)
Offered(l, window) ==
    /\ l.highest <= l.bytes + window
    /\ l.max_bytes <= l.bytes + window

SenderInv == outq \in Sender /\ send \in [Streams -> SendType] /\ WithinLimits

ReceiverInv ==
    /\ inq \in InqType /\ recv \in [Streams -> RecvType]
    /\ Offered(inq, max_data)
    /\ \A s \in Streams : Offered(recv[s], stream_window) /\ IsFiniteSet(recv[s].got)

NetInv == net \subseteq Frame /\ pressure \in BOOLEAN /\ error \in BOOLEAN

IInv == SenderInv /\ ReceiverInv /\ NetInv

LEMMA Constants ==
  /\ max_data \in Nat /\ stream_window \in Nat /\ Total \in Nat
  /\ mss \in Nat \ {0} /\ MaxFrame \in Nat
  BY WindowAssumption, Zenon

LEMMA InitIInv == Init => IInv
<1> SUFFICES ASSUME Init PROVE IInv
  BY Zenon
<1>1. SenderInv
  BY Constants DEF Init, SenderInv, Sender, SendType, WithinLimits
<1>2. inq \in InqType /\ recv \in [Streams -> RecvType]
  BY Constants, Zenon DEF Init, InqType, RecvType
<1>3. Offered(inq, max_data)
  BY Constants DEF Init, Offered
<1>4. \A s \in Streams : Offered(recv[s], stream_window) /\ recv[s].got = {}
  BY Constants DEF Init, Offered
<1>5. NetInv
  BY Zenon DEF Init, NetInv
<1> QED BY <1>1, <1>2, <1>3, <1>4, <1>5, FS_EmptySet, Zenon DEF IInv, ReceiverInv
-------------------------------------------------------------------------------
(* Frames: what each kind carries.                                           *)
LEMMA FrameMade ==
  /\ \A s \in Streams, off \in Nat, len \in Nat \ {0} :
       [t |-> "data", s |-> s, off |-> off, len |-> len] \in Frame
  /\ \A v \in Nat : [t |-> "max_data", v |-> v] \in Frame
  /\ \A s \in Streams, v \in Nat : [t |-> "max_stream_data", s |-> s, v |-> v] \in Frame
  /\ [t |-> "data_blocked"] \in Frame
  /\ \A s \in Streams : /\ [t |-> "stream_data_blocked", s |-> s] \in Frame
                        /\ [t |-> "reset", s |-> s] \in Frame
                        /\ [t |-> "stop", s |-> s] \in Frame
  BY Zenon DEF Frame

LEMMA FrameRead ==
  ASSUME NEW m \in Frame
  PROVE  /\ m.t = "data" => m.s \in Streams /\ m.off \in Nat /\ m.len \in Nat \ {0}
         /\ m.t = "max_data" => m.v \in Nat
         /\ m.t = "max_stream_data" => m.s \in Streams /\ m.v \in Nat
         /\ m.t \in {"stream_data_blocked", "reset", "stop"} => m.s \in Streams
  BY Zenon DEF Frame

LEMMA ConsumedFrames ==
  ASSUME net \subseteq Frame, NEW m, NEW new, new \subseteq Frame, Consumed(m, new)
  PROVE  net' \subseteq Frame
  BY Zenon DEF Consumed
-------------------------------------------------------------------------------
(* The new limit of quic_inq_flow_control lies within the window, whatever   *)
(* memory pressure does.                                                     *)
LEMMA LimitBound ==
  ASSUME NEW l, NEW window \in Nat, l.bytes \in Nat
  PROVE  limit(l, window) \in Nat /\ limit(l, window) <= l.bytes + window
<1>1. window \div 2 \in Nat /\ window \div 2 <= window
  OBVIOUS
<1> QED BY <1>1 DEF limit

(* Reading raises one level's limit, at the connection ...                   *)
LEMMA RaisedInq ==
  ASSUME NEW l \in InqType, NEW n \in Nat, NEW window \in Nat, Offered(l, window)
  PROVE  LET k == [l EXCEPT !.bytes = @ + n]
         IN  /\ raised(k, window) \in InqType /\ Offered(raised(k, window), window)
             /\ limit(k, window) \in Nat
<1> DEFINE k == [l EXCEPT !.bytes = @ + n]
<1>1. /\ k \in InqType /\ k.bytes = l.bytes + n /\ l.bytes \in Nat /\ k.bytes \in Nat
      /\ k.highest = l.highest /\ k.max_bytes = l.max_bytes
      /\ l.highest \in Nat /\ l.max_bytes \in Nat
  BY DEF InqType
<1> HIDE DEF k
<1>2. limit(k, window) \in Nat /\ limit(k, window) <= k.bytes + window
  BY <1>1, LimitBound, Zenon
<1>3. Offered(k, window)
  BY <1>1 DEF Offered
<1> DEFINE r == [k EXCEPT !.max_bytes = limit(k, window)]
<1>4. /\ r \in InqType /\ r.max_bytes = limit(k, window)
      /\ r.bytes = k.bytes /\ r.highest = k.highest
  BY <1>1, <1>2, Zenon DEF InqType
<1>5. Offered(r, window)
  BY <1>2, <1>3, <1>4, Zenon DEF Offered
<1>6. raised(k, window) = k \/ raised(k, window) = r
  BY Zenon DEF raised
<1> HIDE DEF r
<1>7. /\ raised(k, window) \in InqType /\ Offered(raised(k, window), window)
      /\ limit(k, window) \in Nat
  BY <1>1, <1>2, <1>3, <1>4, <1>5, <1>6, Zenon
<1> QED BY <1>7, Zenon DEF k

(* ... and of a stream.                                                      *)
LEMMA RaisedRecv ==
  ASSUME NEW l \in RecvType, NEW n \in Nat, NEW window \in Nat, Offered(l, window)
  PROVE  LET k == [l EXCEPT !.bytes = @ + n]
         IN  /\ raised(k, window) \in RecvType /\ Offered(raised(k, window), window)
             /\ raised(k, window).got = l.got /\ limit(k, window) \in Nat
<1> DEFINE k == [l EXCEPT !.bytes = @ + n]
<1>1. /\ k \in RecvType /\ k.bytes = l.bytes + n /\ l.bytes \in Nat /\ k.bytes \in Nat
      /\ k.highest = l.highest /\ k.max_bytes = l.max_bytes /\ k.got = l.got
      /\ l.highest \in Nat /\ l.max_bytes \in Nat
  BY DEF RecvType
<1> HIDE DEF k
<1>2. limit(k, window) \in Nat /\ limit(k, window) <= k.bytes + window
  BY <1>1, LimitBound, Zenon
<1>3. Offered(k, window)
  BY <1>1 DEF Offered
<1> DEFINE r == [k EXCEPT !.max_bytes = limit(k, window)]
<1>4. /\ r \in RecvType /\ r.max_bytes = limit(k, window)
      /\ r.bytes = k.bytes /\ r.highest = k.highest /\ r.got = k.got
  BY <1>1, <1>2, Zenon DEF RecvType
<1>5. Offered(r, window)
  BY <1>2, <1>3, <1>4, Zenon DEF Offered
<1>6. raised(k, window) = k \/ raised(k, window) = r
  BY Zenon DEF raised
<1> HIDE DEF r
<1>7. /\ raised(k, window) \in RecvType /\ Offered(raised(k, window), window)
      /\ raised(k, window).got = l.got /\ limit(k, window) \in Nat
  BY <1>1, <1>2, <1>3, <1>4, <1>5, <1>6, Zenon
<1> QED BY <1>7, Zenon DEF k

(* The state of one stream is replaced by one that is as good.               *)
LEMMA StreamReplaced ==
  ASSUME ReceiverInv, NEW s \in Streams, NEW r \in RecvType,
         Offered(r, stream_window), IsFiniteSet(r.got), recv' = [recv EXCEPT ![s] = r],
         inq' \in InqType, Offered(inq', max_data)
  PROVE  ReceiverInv'
<1>1. recv' \in [Streams -> RecvType]
  BY Zenon DEF ReceiverInv
<1>2. ASSUME NEW d \in Streams
      PROVE  Offered(recv'[d], stream_window) /\ IsFiniteSet(recv'[d].got)
  <2>1. CASE d = s
    BY <2>1, Zenon DEF ReceiverInv
  <2>2. CASE d # s
    <3>1. recv'[d] = recv[d]
      BY <2>2, Zenon DEF ReceiverInv
    <3> QED BY <3>1, Zenon DEF ReceiverInv
  <2> QED BY <2>1, <2>2, Zenon
<1> QED BY <1>1, <1>2, Zenon DEF ReceiverInv, Offered, InqType, RecvType

LEMMA SendReplaced ==
  ASSUME SenderInv, NEW s \in Streams, NEW r \in SendType, r.bytes <= r.max_bytes,
         send' = [send EXCEPT ![s] = r], outq' \in Sender, outq'.bytes <= outq'.max_bytes
  PROVE  SenderInv'
<1>1. send' \in [Streams -> SendType]
  BY Zenon DEF SenderInv
<1>2. ASSUME NEW d \in Streams PROVE send'[d].bytes <= send'[d].max_bytes
  BY Zenon DEF SenderInv, WithinLimits
<1> QED BY <1>1, <1>2, Zenon DEF SenderInv, WithinLimits, Sender, SendType

(* quic_outq_flow_control of a blocked level leaves its counters alone.      *)
LEMMA CheckedLevel ==
  /\ \A l \in Sender : /\ checked(l) \in Sender
                       /\ checked(l).bytes = l.bytes /\ checked(l).max_bytes = l.max_bytes
  /\ \A l \in SendType : /\ checked(l) \in SendType
                         /\ checked(l).bytes = l.bytes /\ checked(l).max_bytes = l.max_bytes
<1>1. ASSUME NEW l \in Sender
      PROVE  /\ checked(l) \in Sender
             /\ checked(l).bytes = l.bytes /\ checked(l).max_bytes = l.max_bytes
  <2> DEFINE a == [l EXCEPT !.last_max_bytes = l.max_bytes]
             b == [l EXCEPT !.last_max_bytes = l.max_bytes, !.data_blocked = TRUE]
  <2>1. a \in Sender
    BY Zenon DEF Sender
  <2>2. b = [a EXCEPT !.data_blocked = TRUE]
    BY Zenon
  <2> HIDE DEF a
  <2>3. b \in Sender
    BY <2>1, <2>2, Zenon DEF Sender
  <2>4. b.bytes = l.bytes /\ b.max_bytes = l.max_bytes
    BY Zenon DEF Sender
  <2>5. checked(l) = b \/ checked(l) = l
    BY Zenon DEF checked
  <2> HIDE DEF b
  <2> QED BY <2>3, <2>4, <2>5, Zenon
<1>2. ASSUME NEW l \in SendType
      PROVE  /\ checked(l) \in SendType
             /\ checked(l).bytes = l.bytes /\ checked(l).max_bytes = l.max_bytes
  <2> DEFINE a == [l EXCEPT !.last_max_bytes = l.max_bytes]
             b == [l EXCEPT !.last_max_bytes = l.max_bytes, !.data_blocked = TRUE]
  <2>1. a \in SendType
    BY Zenon DEF SendType
  <2>2. b = [a EXCEPT !.data_blocked = TRUE]
    BY Zenon
  <2> HIDE DEF a
  <2>3. b \in SendType
    BY <2>1, <2>2, Zenon DEF SendType
  <2>4. b.bytes = l.bytes /\ b.max_bytes = l.max_bytes
    BY Zenon DEF SendType
  <2>5. checked(l) = b \/ checked(l) = l
    BY Zenon DEF checked
  <2> HIDE DEF b
  <2> QED BY <2>3, <2>4, <2>5, Zenon
<1> QED BY <1>1, <1>2, Zenon
-------------------------------------------------------------------------------
(* The sending application: quic_sendmsg and quic_sock_stream_reset.         *)
LEMMA SendKeeps ==
  ASSUME IInv, NEW s \in Streams, NEW n \in 1..MaxFrame, Send(s, n)
  PROVE  IInv'
<1>1. /\ outq \in Sender /\ send[s] \in SendType /\ n \in Nat \ {0}
      /\ outq.bytes \in Nat /\ outq.max_bytes \in Nat
      /\ send[s].bytes \in Nat /\ send[s].max_bytes \in Nat
  BY Constants DEF IInv, SenderInv, Sender, SendType
<1>2. n <= outq.max_bytes - outq.bytes /\ n <= send[s].max_bytes - send[s].bytes
  BY <1>1, Constants DEF Send, wspace, min
<1> DEFINE r == [send[s] EXCEPT !.bytes = @ + n]
           q == [outq EXCEPT !.bytes = @ + n]
<1>3. r \in SendType /\ r.bytes = send[s].bytes + n /\ r.max_bytes = send[s].max_bytes
  BY <1>1 DEF SendType
<1>4. q \in Sender /\ q.bytes = outq.bytes + n /\ q.max_bytes = outq.max_bytes
  BY <1>1 DEF Sender
<1>5. send' = [send EXCEPT ![s] = r] /\ outq' = q
  BY Zenon DEF Send
<1> HIDE DEF r, q
<1>6. r.bytes <= r.max_bytes /\ q.bytes <= q.max_bytes
  BY <1>1, <1>2, <1>3, <1>4
<1>7. SenderInv'
  BY <1>3, <1>4, <1>5, <1>6, SendReplaced, Zenon DEF IInv
<1>8. net' \subseteq Frame
  BY <1>1, FrameMade, Zenon DEF Send, IInv, NetInv
<1>9. ReceiverInv' /\ NetInv'
  BY <1>8, Zenon DEF Send, IInv, ReceiverInv, NetInv, Offered
<1> QED BY <1>7, <1>9, Zenon DEF IInv

LEMMA BlockKeeps ==
  ASSUME IInv, NEW s \in Streams, Block(s)
  PROVE  IInv'
<1>1. /\ outq \in Sender /\ send[s] \in SendType
      /\ outq.bytes <= outq.max_bytes /\ send[s].bytes <= send[s].max_bytes
  BY Zenon DEF IInv, SenderInv, WithinLimits
<1>2. send' = [send EXCEPT ![s] = checked(send[s])] /\ outq' = checked(outq)
  BY Zenon DEF Block
<1>3. SenderInv'
  BY <1>1, <1>2, CheckedLevel, SendReplaced, Zenon DEF IInv
<1>4. ReceiverInv' /\ NetInv'
  BY Zenon DEF Block, IInv, ReceiverInv, NetInv, Offered
<1> QED BY <1>3, <1>4, Zenon DEF IInv

(* A BLOCKED frame of another implementation.                                *)
LEMMA AnnounceEffect ==
  ASSUME NEW s \in Streams, Announce(s)
  PROVE  /\ UNCHANGED <<outq, send, inq, recv, pressure, error>> /\ net \subseteq net'
         /\ net' \subseteq net \cup {[t |-> "stream_data_blocked", s |-> s], [t |-> "data_blocked"]}
  BY Zenon DEF Announce

LEMMA AnnounceKeeps ==
  ASSUME IInv, NEW s \in Streams, Announce(s)
  PROVE  IInv'
<1>1. net' \subseteq Frame
  BY AnnounceEffect, FrameMade, Zenon DEF IInv, NetInv
<1> QED BY <1>1, AnnounceEffect, Zenon DEF IInv, SenderInv, WithinLimits, ReceiverInv, NetInv, Offered

LEMMA ResetKeeps ==
  ASSUME IInv, NEW s \in Streams, Reset(s), net' \subseteq Frame
  PROVE  IInv'
<1> DEFINE r == [send[s] EXCEPT !.reset = TRUE]
<1>1. /\ outq \in Sender /\ send[s] \in SendType
      /\ outq.bytes <= outq.max_bytes /\ send[s].bytes <= send[s].max_bytes
  BY Zenon DEF IInv, SenderInv, WithinLimits
<1>2. r \in SendType /\ r.bytes = send[s].bytes /\ r.max_bytes = send[s].max_bytes
  BY <1>1, Zenon DEF SendType
<1>3. send' = [send EXCEPT ![s] = r] /\ outq' = outq
  BY Zenon DEF Reset
<1> HIDE DEF r
<1>4. SenderInv'
  BY <1>1, <1>2, <1>3, SendReplaced, Zenon DEF IInv
<1>5. ReceiverInv' /\ NetInv'
  BY Zenon DEF Reset, IInv, ReceiverInv, NetInv, Offered
<1> QED BY <1>4, <1>5, Zenon DEF IInv
-------------------------------------------------------------------------------
(* The receiving application: quic_recvmsg and quic_sock_stream_stop_sending. *)
LEMMA ReadKeeps ==
  ASSUME IInv, NEW s \in Streams, NEW n \in 1..readable(s), Read(s, n)
  PROVE  IInv'
<1>1. /\ inq \in InqType /\ recv[s] \in RecvType /\ Offered(inq, max_data)
      /\ Offered(recv[s], stream_window) /\ IsFiniteSet(recv[s].got)
  BY Zenon DEF IInv, ReceiverInv
<1>2. n \in Nat
  <2> DEFINE R == {b \in recv[s].got : b >= recv[s].bytes /\ 0 .. b \subseteq recv[s].got}
  <2>1. IsFiniteSet(R)
    BY <1>1, FS_Subset, Zenon
  <2>2. readable(s) \in Nat
    BY <2>1, FS_CardinalityType, Zenon DEF readable
  <2> QED BY <2>2
<1> DEFINE conn == [inq EXCEPT !.bytes = @ + n]
           strm == [recv[s] EXCEPT !.bytes = @ + n]
<1>3. /\ raised(conn, max_data) \in InqType /\ Offered(raised(conn, max_data), max_data)
      /\ limit(conn, max_data) \in Nat
  BY <1>1, <1>2, Constants, RaisedInq, Zenon
<1>4. /\ raised(strm, stream_window) \in RecvType
      /\ Offered(raised(strm, stream_window), stream_window)
      /\ raised(strm, stream_window).got = recv[s].got /\ limit(strm, stream_window) \in Nat
  BY <1>1, <1>2, Constants, RaisedRecv, Zenon
<1>5. /\ inq' = raised(conn, max_data)
      /\ recv' = [recv EXCEPT ![s] = raised(strm, stream_window)]
      /\ outq' = outq /\ send' = send /\ pressure' = pressure /\ error' = error
  BY Zenon DEF Read
<1>6. net' \subseteq net \cup {[t |-> "max_data", v |-> limit(conn, max_data)],
                               [t |-> "max_stream_data", s |-> s, v |-> limit(strm, stream_window)]}
  BY Zenon DEF Read
<1> HIDE DEF conn, strm
<1>7. ReceiverInv'
  BY <1>1, <1>3, <1>4, <1>5, StreamReplaced, Zenon DEF IInv
<1>8. SenderInv'
  BY <1>5, Zenon DEF IInv, SenderInv, WithinLimits
<1>9. NetInv'
  BY <1>3, <1>4, <1>5, <1>6, FrameMade, Zenon DEF IInv, NetInv
<1> QED BY <1>7, <1>8, <1>9, Zenon DEF IInv

(* A stream changes its receiving state only.                                *)
LEMMA StateKeeps ==
  ASSUME IInv, NEW s \in Streams, NEW st \in {"RECV", "STOPPED", "RESET_RECVD"},
         recv' = [recv EXCEPT ![s].state = st], net' \subseteq Frame,
         UNCHANGED <<outq, send, inq, pressure, error>>
  PROVE  IInv'
<1> DEFINE r == [recv[s] EXCEPT !.state = st]
<1>1. /\ inq \in InqType /\ recv[s] \in RecvType /\ Offered(inq, max_data)
      /\ Offered(recv[s], stream_window) /\ IsFiniteSet(recv[s].got)
  BY Zenon DEF IInv, ReceiverInv
<1>2. /\ r \in RecvType /\ r.bytes = recv[s].bytes /\ r.max_bytes = recv[s].max_bytes
      /\ r.highest = recv[s].highest /\ r.got = recv[s].got
  BY <1>1, Zenon DEF RecvType
<1>3. recv' = [recv EXCEPT ![s] = r]
  BY Zenon
<1> HIDE DEF r
<1>4. Offered(r, stream_window) /\ IsFiniteSet(r.got)
  BY <1>1, <1>2, Zenon DEF Offered
<1>5. ReceiverInv'
  BY <1>1, <1>2, <1>3, <1>4, StreamReplaced, Zenon DEF IInv
<1>6. SenderInv' /\ NetInv'
  BY Zenon DEF IInv, SenderInv, WithinLimits, NetInv
<1> QED BY <1>5, <1>6, Zenon DEF IInv
-------------------------------------------------------------------------------
(* quic_inq_stream_recv: data within both limits is accepted.                *)
LEMMA DataKeeps ==
  ASSUME IInv, NEW m \in Frame, DeliverData(m)
  PROVE  IInv'
<1> DEFINE s == m.s
           off == m.off + m.len
           new == IF off > recv[s].highest THEN off - recv[s].highest ELSE 0
           over == \/ inq.highest + new > inq.max_bytes
                   \/ recv[s].highest + new > recv[s].max_bytes
<1>1. s \in Streams /\ m.off \in Nat /\ m.len \in Nat /\ off \in Nat
  BY FrameRead DEF DeliverData
<1>2. /\ inq \in InqType /\ recv[s] \in RecvType /\ Offered(inq, max_data)
      /\ Offered(recv[s], stream_window) /\ IsFiniteSet(recv[s].got)
  BY <1>1, Zenon DEF IInv, ReceiverInv
<1>3. /\ inq.highest \in Nat /\ inq.max_bytes \in Nat /\ inq.bytes \in Nat
      /\ recv[s].highest \in Nat /\ recv[s].max_bytes \in Nat /\ recv[s].bytes \in Nat
      /\ recv[s].got \subseteq Nat
  BY <1>2, Zenon DEF InqType, RecvType
<1>4. new \in Nat
  BY <1>1, <1>3
<1>5. net' \subseteq Frame /\ outq' = outq /\ send' = send /\ pressure' = pressure
  BY ConsumedFrames, Zenon DEF DeliverData, IInv, NetInv
<1>6. SenderInv'
  BY <1>5, Zenon DEF IInv, SenderInv, WithinLimits
<1>7. CASE inq' = inq /\ recv' = recv /\ error' \in BOOLEAN
  BY <1>5, <1>6, <1>7, Zenon DEF IInv, ReceiverInv, NetInv, Offered
<1>8. CASE /\ ~(new > 0 /\ over)
           /\ inq' = [inq EXCEPT !.highest = @ + new]
           /\ recv' = [recv EXCEPT ![s].highest = @ + new, ![s].got = @ \cup m.off .. off - 1]
           /\ error' = error
  <2> DEFINE q == [inq EXCEPT !.highest = @ + new]
             got == recv[s].got \cup m.off .. off - 1
             a == [recv[s] EXCEPT !.highest = @ + new]
             r == [a EXCEPT !.got = got]
  <2>1. recv' = [recv EXCEPT ![s] = r]
    <3>1. recv' = [[recv EXCEPT ![s].highest = @ + new] EXCEPT ![s].got = @ \cup m.off .. off - 1]
      BY <1>8, Zenon
    <3>2. [recv EXCEPT ![s].highest = @ + new] = [recv EXCEPT ![s] = a]
      BY Zenon
    <3>3. recv \in [Streams -> RecvType] /\ a.got = recv[s].got
      BY <1>2, Zenon DEF IInv, ReceiverInv, RecvType
    <3> DEFINE f == [recv EXCEPT ![s] = a]
               more == m.off .. off - 1
    <3>4. recv' = [f EXCEPT ![s].got = @ \cup more]
      BY <3>1, <3>2, Zenon
    <3>5. f[s] = a /\ r = [a EXCEPT !.got = @ \cup more]
      BY <1>1, <3>3, Zenon
    <3> HIDE DEF a, r, more, s
    <3>6. recv' = [f EXCEPT ![s] = r]
      BY <3>4, <3>5, Zenon
    <3>7. [f EXCEPT ![s] = r] = [recv EXCEPT ![s] = r]
      BY <1>1, <3>3, Zenon
    <3> QED BY <3>6, <3>7, Zenon
  <2>2. got \in SUBSET Nat
    BY <1>1, <1>3
  <2>3. IsFiniteSet(got)
    <3>1. IsFiniteSet(m.off .. off - 1)
      <4>1. m.off \in Int /\ off - 1 \in Int
        BY <1>1
      <4> HIDE DEF off
      <4> QED BY <4>1, FS_Interval, Zenon
    <3> QED BY <1>2, <3>1, FS_Union, Zenon
  <2> HIDE DEF new, got
  <2>4. q \in InqType /\ q.highest = inq.highest + new /\ q.bytes = inq.bytes /\ q.max_bytes = inq.max_bytes
    BY <1>2, <1>3, <1>4 DEF InqType
  <2>5. /\ a \in RecvType /\ a.highest = recv[s].highest + new
        /\ a.bytes = recv[s].bytes /\ a.max_bytes = recv[s].max_bytes
    BY <1>2, <1>3, <1>4 DEF RecvType
  <2> HIDE DEF a
  <2>6. /\ r \in RecvType /\ r.got = got /\ r.highest = recv[s].highest + new
        /\ r.bytes = recv[s].bytes /\ r.max_bytes = recv[s].max_bytes
    BY <2>2, <2>5, Zenon DEF RecvType
  <2>7. \/ new = 0
        \/ inq.highest + new <= inq.max_bytes /\ recv[s].highest + new <= recv[s].max_bytes
    BY <1>3, <1>4, <1>8
  <2>8. inq' = q
    BY <1>8, Zenon
  <2> HIDE DEF r, q
  <2>9. Offered(q, max_data)
    BY <1>2, <1>3, <1>4, <2>4, <2>7, Constants DEF Offered
  <2>10. Offered(r, stream_window) /\ IsFiniteSet(r.got)
    BY <1>2, <1>3, <1>4, <2>3, <2>6, <2>7, Constants DEF Offered
  <2>11. inq' \in InqType /\ Offered(inq', max_data) /\ ReceiverInv
    BY <2>4, <2>8, <2>9, Zenon DEF IInv
  <2>12. ReceiverInv'
    BY <1>1, <2>1, <2>6, <2>10, <2>11, StreamReplaced, Zenon
  <2> QED BY <1>5, <1>6, <1>8, <2>12, Zenon DEF IInv, NetInv
<1>9. \/ inq' = inq /\ recv' = recv /\ error' \in BOOLEAN
      \/ /\ ~(new > 0 /\ over)
         /\ inq' = [inq EXCEPT !.highest = @ + new]
         /\ recv' = [recv EXCEPT ![s].highest = @ + new, ![s].got = @ \cup m.off .. off - 1]
         /\ error' = error
  <2>1. error \in BOOLEAN
    BY Zenon DEF IInv, NetInv
  <2> QED BY <2>1, Zenon DEF DeliverData
<1> QED BY <1>7, <1>8, <1>9, Zenon

(* quic_frame_max_data_process and quic_frame_max_stream_data_process: a     *)
(* limit never goes back.                                                    *)
LEMMA MaxDataKeeps ==
  ASSUME IInv, NEW m \in Frame, DeliverMaxData(m)
  PROVE  IInv'
<1> DEFINE v == IF m.v > outq.max_bytes THEN m.v ELSE outq.max_bytes
<1>1. /\ outq \in Sender /\ outq.bytes <= outq.max_bytes /\ m.v \in Nat
      /\ outq.bytes \in Nat /\ outq.max_bytes \in Nat
  BY FrameRead, Zenon DEF IInv, SenderInv, WithinLimits, DeliverMaxData, Sender
<1>2. v \in Nat /\ outq.bytes <= v /\ outq' = [outq EXCEPT !.max_bytes = v]
  BY <1>1 DEF DeliverMaxData
<1> HIDE DEF v
<1>3. outq' \in Sender /\ outq'.bytes <= outq'.max_bytes
  BY <1>1, <1>2, Zenon DEF Sender
<1>4. net' \subseteq Frame
  BY ConsumedFrames, Zenon DEF DeliverMaxData, IInv, NetInv
<1> QED BY <1>3, <1>4, Zenon DEF DeliverMaxData, IInv, SenderInv, WithinLimits, ReceiverInv, NetInv, Offered

LEMMA MaxStreamDataKeeps ==
  ASSUME IInv, NEW m \in Frame, DeliverMaxStreamData(m)
  PROVE  IInv'
<1> DEFINE s == m.s
           v == IF m.v > send[s].max_bytes THEN m.v ELSE send[s].max_bytes
           r == [send[s] EXCEPT !.max_bytes = v]
<1>1. s \in Streams /\ m.v \in Nat
  BY FrameRead, Zenon DEF DeliverMaxStreamData
<1>2. /\ outq \in Sender /\ outq.bytes <= outq.max_bytes
      /\ send[s] \in SendType /\ send[s].bytes <= send[s].max_bytes
      /\ send[s].bytes \in Nat /\ send[s].max_bytes \in Nat
  BY <1>1, Zenon DEF IInv, SenderInv, WithinLimits, SendType
<1>3. v \in Nat /\ send[s].bytes <= v
  BY <1>1, <1>2
<1>4. send' = [send EXCEPT ![s] = r] /\ outq' = outq
  BY Zenon DEF DeliverMaxStreamData
<1> HIDE DEF v
<1>5. r \in SendType /\ r.bytes = send[s].bytes /\ r.max_bytes = v
  BY <1>2, <1>3, Zenon DEF SendType
<1> HIDE DEF r
<1>6. SenderInv'
  BY <1>1, <1>2, <1>3, <1>4, <1>5, SendReplaced, Zenon DEF IInv
<1>7. net' \subseteq Frame
  BY ConsumedFrames, Zenon DEF DeliverMaxStreamData, IInv, NetInv
<1> QED BY <1>6, <1>7, Zenon DEF DeliverMaxStreamData, IInv, ReceiverInv, NetInv, Offered

(* quic_frame_data_blocked_process and quic_frame_stream_data_blocked_process: *)
(* the limit is set anew from what was read.                                   *)
LEMMA DataBlockedKeeps ==
  ASSUME IInv, NEW m \in Frame, DeliverDataBlocked(m)
  PROVE  IInv'
<1> DEFINE v == limit(inq, max_data)
<1>1. /\ inq \in InqType /\ Offered(inq, max_data) /\ inq.bytes \in Nat
  BY Zenon DEF IInv, ReceiverInv, InqType
<1>2. v \in Nat /\ v <= inq.bytes + max_data
  BY <1>1, LimitBound, Constants, Zenon
<1>3. inq' = [inq EXCEPT !.max_bytes = v]
  BY Zenon DEF DeliverDataBlocked
<1> HIDE DEF v
<1>4. /\ inq' \in InqType /\ inq'.max_bytes = v
      /\ inq'.bytes = inq.bytes /\ inq'.highest = inq.highest
  BY <1>1, <1>2, <1>3, Zenon DEF InqType
<1>5. Offered(inq', max_data)
  BY <1>1, <1>2, <1>4, Zenon DEF Offered
<1>6. recv' = recv /\ outq' = outq /\ send' = send /\ pressure' = pressure /\ error' = error
  BY Zenon DEF DeliverDataBlocked
<1>7. ReceiverInv'
  BY <1>4, <1>5, <1>6, Zenon DEF IInv, ReceiverInv, Offered
<1>8. net' \subseteq Frame
  <2> DEFINE new == {[t |-> "max_data", v |-> inq'.max_bytes]}
  <2>1. new \subseteq Frame /\ Consumed(m, new) /\ net \subseteq Frame
    BY <1>2, <1>4, FrameMade, Zenon DEF DeliverDataBlocked, IInv, NetInv
  <2> HIDE DEF new
  <2> QED BY <2>1, ConsumedFrames, Zenon
<1> QED BY <1>6, <1>7, <1>8, Zenon DEF IInv, SenderInv, WithinLimits, NetInv

LEMMA StreamDataBlockedKeeps ==
  ASSUME IInv, NEW m \in Frame, DeliverStreamDataBlocked(m)
  PROVE  IInv'
<1> DEFINE s == m.s
           v == limit(recv[s], stream_window)
           max == [t |-> "max_stream_data", s |-> s, v |-> v]
           r == [recv[s] EXCEPT !.max_bytes = v]
<1>1. s \in Streams /\ net \subseteq Frame
  BY FrameRead, Zenon DEF DeliverStreamDataBlocked, IInv, NetInv
<1>2. /\ inq \in InqType /\ recv[s] \in RecvType /\ Offered(inq, max_data)
      /\ Offered(recv[s], stream_window) /\ IsFiniteSet(recv[s].got) /\ recv[s].bytes \in Nat
  BY <1>1, Zenon DEF IInv, ReceiverInv, RecvType
<1>3. v \in Nat /\ v <= recv[s].bytes + stream_window
  BY <1>2, LimitBound, Constants, Zenon
<1>4. max \in Frame
  BY <1>1, <1>3, FrameMade, Zenon
<1>5. outq' = outq /\ send' = send /\ inq' = inq /\ pressure' = pressure /\ error' = error
  BY Zenon DEF DeliverStreamDataBlocked
<1>6. SenderInv'
  BY <1>5, Zenon DEF IInv, SenderInv, WithinLimits
<1>7. CASE Consumed(m, {}) /\ recv' = recv
  <2>1. net' \subseteq Frame
    BY <1>1, <1>7, ConsumedFrames, Zenon
  <2> QED BY <1>5, <1>6, <1>7, <2>1, Zenon DEF IInv, ReceiverInv, NetInv, Offered
<1>8. CASE recv' = [recv EXCEPT ![s].max_bytes = v] /\ Consumed(m, {max})
  <2>1. net' \subseteq Frame
    BY <1>1, <1>4, <1>8, ConsumedFrames, Zenon
  <2>2. recv' = [recv EXCEPT ![s] = r]
    BY <1>8, Zenon
  <2> HIDE DEF v
  <2>3. /\ r \in RecvType /\ r.max_bytes = v /\ r.bytes = recv[s].bytes
        /\ r.highest = recv[s].highest /\ r.got = recv[s].got
    BY <1>2, <1>3, Zenon DEF RecvType
  <2> HIDE DEF r
  <2>4. Offered(r, stream_window) /\ IsFiniteSet(r.got)
    BY <1>2, <1>3, <2>3, Zenon DEF Offered
  <2>5. ReceiverInv'
    BY <1>1, <1>2, <1>5, <2>2, <2>3, <2>4, StreamReplaced, Zenon DEF IInv
  <2> QED BY <1>5, <1>6, <2>1, <2>5, Zenon DEF IInv, NetInv
<1> QED BY <1>7, <1>8, Zenon DEF DeliverStreamDataBlocked

-------------------------------------------------------------------------------
LEMMA DeliverKeeps ==
  ASSUME IInv, NEW m \in net, Deliver(m)
  PROVE  IInv'
<1>1. m \in Frame /\ net \subseteq Frame
  BY Zenon DEF IInv, NetInv
<1>2. CASE DeliverReset(m)
  <2>1. m.s \in Streams /\ net' \subseteq Frame
    BY <1>1, <1>2, FrameRead, ConsumedFrames, Zenon DEF DeliverReset
  <2> QED BY <1>2, <2>1, StateKeeps, Zenon DEF DeliverReset
<1>3. CASE DeliverStop(m)
  <2>1. m.s \in Streams
    BY <1>1, <1>3, FrameRead, Zenon DEF DeliverStop
  <2>2. {[t |-> "reset", s |-> m.s]} \subseteq Frame
    BY <2>1, FrameMade, Zenon
  <2>3. net' \subseteq Frame
    BY <1>1, <1>3, <2>2, ConsumedFrames, Zenon DEF DeliverStop
  <2> QED BY <1>3, <2>1, <2>3, ResetKeeps, Zenon DEF DeliverStop
<1> QED BY <1>1, <1>2, <1>3, DataKeeps, MaxDataKeeps, MaxStreamDataKeeps, DataBlockedKeeps,
           StreamDataBlockedKeeps, Zenon DEF Deliver

LEMMA NextIInv == IInv /\ [Next]_vars => IInv'
<1> SUFFICES ASSUME IInv, [Next]_vars PROVE IInv'
  BY Zenon
<1>1. CASE Write
  BY <1>1, SendKeeps, Zenon DEF Write
<1>2. CASE Wait
  BY <1>2, BlockKeeps, AnnounceKeeps, Zenon DEF Wait
<1>3. CASE Consume
  BY <1>3, ReadKeeps, Zenon DEF Consume
<1>4. CASE Arrive
  BY <1>4, DeliverKeeps, Zenon DEF Arrive
<1>5. CASE Pressure
  BY <1>5, Zenon DEF Pressure, IInv, SenderInv, WithinLimits, ReceiverInv, Offered, NetInv
<1>6. ASSUME NEW s \in Streams, AppReset(s) PROVE IInv'
  <2>1. net' \subseteq Frame
    BY <1>6, FrameMade, Zenon DEF AppReset, IInv, NetInv
  <2> QED BY <1>6, <2>1, ResetKeeps, Zenon DEF AppReset
<1>7. ASSUME NEW s \in Streams, StopSending(s) PROVE IInv'
  <2>1. net' \subseteq Frame
    BY <1>7, FrameMade, Zenon DEF StopSending, IInv, NetInv
  <2> QED BY <1>7, <2>1, StateKeeps, Zenon DEF StopSending
<1>8. CASE UNCHANGED vars
  BY <1>8, Zenon DEF vars, IInv, SenderInv, WithinLimits, ReceiverInv, Offered, NetInv
<1> QED BY <1>1, <1>2, <1>3, <1>4, <1>5, <1>6, <1>7, <1>8, Zenon DEF Next, Abandon

(* The sender never exceeds a limit it was given, so that the subtractions of  *)
(* quic_outq_wspace do not wrap, and the receiver never holds more unread data *)
(* than the windows, however frames are reordered or repeated, streams are     *)
(* abandoned, frames cannot be allocated and memory pressure comes and goes.   *)
THEOREM LimitsCorrect == Spec => [](TypeOK /\ LimitsKept)
<1>1. IInv => TypeOK
  BY Zenon DEF IInv, SenderInv, SendType, ReceiverInv, InqType, RecvType, NetInv, TypeOK
<1>2. IInv => LimitsKept
  <2> SUFFICES ASSUME IInv PROVE LimitsKept
    BY Zenon
  <2>1. inq.highest - inq.bytes <= max_data
    BY Constants DEF IInv, ReceiverInv, InqType, Offered
  <2>2. ASSUME NEW s \in Streams PROVE recv[s].highest - recv[s].bytes <= stream_window
    <3>1. recv[s] \in RecvType /\ Offered(recv[s], stream_window)
      BY Zenon DEF IInv, ReceiverInv
    <3> QED BY <3>1, Constants DEF RecvType, Offered
  <2> QED BY <2>1, <2>2, Zenon DEF LimitsKept, UnreadBounded, IInv, SenderInv
<1> QED BY <1>1, <1>2, InitIInv, NextIInv, PTL DEF Spec
-------------------------------------------------------------------------------
(* What the other steps change, pointwise.                                     *)
LEMMA ResetEffect ==
  ASSUME IInv, NEW s \in Streams, Reset(s)
  PROVE  /\ outq' = outq /\ inq' = inq /\ recv' = recv /\ pressure' = pressure /\ error' = error
         /\ \A d \in Streams : /\ send'[d].bytes = send[d].bytes
                               /\ send'[d].max_bytes = send[d].max_bytes
<1>1. send \in [Streams -> SendType] /\ send' = [send EXCEPT ![s].reset = TRUE]
  BY Zenon DEF IInv, SenderInv, Reset
<1>2. \A d \in Streams \ {s} : send'[d] = send[d]
  BY <1>1, Zenon
<1>3. send'[s].bytes = send[s].bytes /\ send'[s].max_bytes = send[s].max_bytes
  BY <1>1, Zenon DEF SendType
<1> QED BY <1>2, <1>3, Zenon DEF Reset

LEMMA StateEffect ==
  ASSUME IInv, NEW s \in Streams, NEW st, recv' = [recv EXCEPT ![s].state = st]
  PROVE  \A d \in Streams : /\ recv'[d].bytes = recv[d].bytes
                            /\ recv'[d].max_bytes = recv[d].max_bytes
                            /\ recv'[d].highest = recv[d].highest
<1>1. recv \in [Streams -> RecvType]
  BY Zenon DEF IInv, ReceiverInv
<1>2. \A d \in Streams \ {s} : recv'[d] = recv[d]
  BY <1>1, Zenon
<1>3. /\ recv'[s].bytes = recv[s].bytes /\ recv'[s].max_bytes = recv[s].max_bytes
      /\ recv'[s].highest = recv[s].highest
  BY <1>1, Zenon DEF RecvType
<1> QED BY <1>2, <1>3, Zenon

LEMMA BlockEffect ==
  ASSUME IInv, NEW s \in Streams, Block(s)
  PROVE  /\ outq'.bytes = outq.bytes /\ outq'.max_bytes = outq.max_bytes
         /\ UNCHANGED <<inq, recv, net, pressure, error>>
         /\ \A d \in Streams : /\ send'[d].bytes = send[d].bytes
                               /\ send'[d].max_bytes = send[d].max_bytes
<1>1. /\ outq \in Sender /\ send \in [Streams -> SendType] /\ send[s] \in SendType
      /\ send' = [send EXCEPT ![s] = checked(send[s])] /\ outq' = checked(outq)
  BY Zenon DEF IInv, SenderInv, Block
<1>2. \A d \in Streams \ {s} : send'[d] = send[d]
  BY <1>1, Zenon
<1>3. /\ send'[s].bytes = send[s].bytes /\ send'[s].max_bytes = send[s].max_bytes
      /\ outq'.bytes = outq.bytes /\ outq'.max_bytes = outq.max_bytes
  BY <1>1, CheckedLevel, Zenon
<1> QED BY <1>2, <1>3, Zenon DEF Block

LEMMA MaxDataEffect ==
  ASSUME IInv, NEW m \in Frame, DeliverMaxData(m)
  PROVE  /\ outq'.bytes = outq.bytes
         /\ outq'.max_bytes = IF m.v > outq.max_bytes THEN m.v ELSE outq.max_bytes
         /\ send' = send /\ inq' = inq /\ recv' = recv /\ pressure' = pressure /\ error' = error
  BY Zenon DEF IInv, SenderInv, Sender, DeliverMaxData

LEMMA MaxStreamDataEffect ==
  ASSUME IInv, NEW m \in Frame, DeliverMaxStreamData(m)
  PROVE  /\ \A d \in Streams : /\ send'[d].bytes = send[d].bytes
                               /\ d # m.s => send'[d].max_bytes = send[d].max_bytes
         /\ m.s \in Streams
         /\ send'[m.s].max_bytes = IF m.v > send[m.s].max_bytes THEN m.v ELSE send[m.s].max_bytes
         /\ outq' = outq /\ inq' = inq /\ recv' = recv /\ pressure' = pressure /\ error' = error
<1> DEFINE s == m.s
           v == IF m.v > send[s].max_bytes THEN m.v ELSE send[s].max_bytes
<1>1. /\ s \in Streams /\ send \in [Streams -> SendType]
      /\ send' = [send EXCEPT ![s].max_bytes = v]
  BY FrameRead, Zenon DEF DeliverMaxStreamData, IInv, SenderInv
<1> HIDE DEF s, v
<1>2. \A d \in Streams \ {s} : send'[d] = send[d]
  BY <1>1, Zenon
<1>3. send'[s].bytes = send[s].bytes /\ send'[s].max_bytes = v
  BY <1>1, Zenon DEF SendType
<1> QED BY <1>1, <1>2, <1>3, Zenon DEF DeliverMaxStreamData, s, v

LEMMA DataBlockedEffect ==
  ASSUME IInv, NEW m \in Frame, DeliverDataBlocked(m)
  PROVE  /\ inq'.bytes = inq.bytes /\ inq'.highest = inq.highest
         /\ inq'.max_bytes = limit(inq, max_data)
         /\ outq' = outq /\ send' = send /\ recv' = recv /\ pressure' = pressure /\ error' = error
         /\ Consumed(m, {[t |-> "max_data", v |-> inq'.max_bytes]})
<1> DEFINE v == limit(inq, max_data)
<1>1. inq \in InqType /\ inq' = [inq EXCEPT !.max_bytes = v]
  BY Zenon DEF DeliverDataBlocked, IInv, ReceiverInv
<1> HIDE DEF v
<1>2. inq'.bytes = inq.bytes /\ inq'.highest = inq.highest /\ inq'.max_bytes = v
  BY <1>1, Zenon DEF InqType
<1> QED BY <1>2, Zenon DEF DeliverDataBlocked, v

LEMMA StreamDataBlockedEffect ==
  ASSUME IInv, NEW m \in Frame, DeliverStreamDataBlocked(m)
  PROVE  LET s == m.s
             v == limit(recv[s], stream_window)
         IN  /\ s \in Streams
             /\ outq' = outq /\ send' = send /\ inq' = inq /\ pressure' = pressure /\ error' = error
             /\ \/ recv' = recv /\ Consumed(m, {})
                \/ /\ recv'[s].max_bytes = v /\ \A d \in Streams \ {s} : recv'[d] = recv[d]
                   /\ Consumed(m, {[t |-> "max_stream_data", s |-> s, v |-> v]})
             /\ \A d \in Streams : recv'[d].bytes = recv[d].bytes /\ recv'[d].highest = recv[d].highest
<1> DEFINE s == m.s
           v == limit(recv[s], stream_window)
           new == {[t |-> "max_stream_data", s |-> s, v |-> v]}
<1>1. s \in Streams /\ recv \in [Streams -> RecvType]
  BY FrameRead, Zenon DEF DeliverStreamDataBlocked, IInv, ReceiverInv
<1>2. \/ recv' = recv /\ Consumed(m, {})
      \/ recv' = [recv EXCEPT ![s].max_bytes = v] /\ Consumed(m, new)
  BY Zenon DEF DeliverStreamDataBlocked
<1>3. CASE recv' = recv /\ Consumed(m, {})
  BY <1>1, <1>3, Zenon DEF DeliverStreamDataBlocked
<1>4. CASE recv' = [recv EXCEPT ![s].max_bytes = v] /\ Consumed(m, new)
  <2>0. outq' = outq /\ send' = send /\ inq' = inq /\ pressure' = pressure /\ error' = error
    BY Zenon DEF DeliverStreamDataBlocked
  <2> HIDE DEF v, s
  <2>1. \A d \in Streams \ {s} : recv'[d] = recv[d]
    BY <1>1, <1>4, Zenon
  <2>2. /\ recv'[s].bytes = recv[s].bytes /\ recv'[s].max_bytes = v
        /\ recv'[s].highest = recv[s].highest
    BY <1>1, <1>4, Zenon DEF RecvType
  <2>3. \A d \in Streams : recv'[d].bytes = recv[d].bytes /\ recv'[d].highest = recv[d].highest
    BY <2>1, <2>2, Zenon
  <2> QED BY <1>1, <1>4, <2>0, <2>1, <2>2, <2>3, Zenon DEF v, s
<1> QED BY <1>2, <1>3, <1>4, Zenon

-------------------------------------------------------------------------------
(* That the counters of the connection and of its streams never drift apart,  *)
(* that a sender that keeps to its limits is never refused, and that it has   *)
(* credit again once its data was read: the results that compare sums over    *)
(* the streams.                                                               *)
(*                                                                            *)
(* First sums over a finite set: what a sum does when one summand changes,    *)
(* how two sums compare, and that the folds of CountersAgree are sums.        *)

(* Induction over the subsets of a finite set, which comes                    *)
(* from the well-foundedness of strict inclusion: a set P of subsets that has *)
(* the empty one, and a set whenever it has that set less some element, has   *)
(* them all.                                                                  *)
LEMMA SubsetInduction ==
  ASSUME NEW S, IsFiniteSet(S), NEW P, {} \in P,
         \A s \in SUBSET S : s # {} => \E x \in s : s \ {x} \in P => s \in P
  PROVE  SUBSET S \subseteq P
<1> SUFFICES ASSUME NEW bad \in SUBSET S, bad \notin P PROVE FALSE
  BY Zenon
<1> DEFINE R == StrictSubsetOrdering(S)
           T == {s \in SUBSET S : s \notin P}
<1>1. IsWellFoundedOn(R, FiniteSubsetsOf(S))
  BY FS_StrictSubsetOrderingWellFounded, Zenon
<1>2. \A s \in SUBSET S : IsFiniteSet(s)
  BY FS_Subset, Zenon
<1>3. T \subseteq FiniteSubsetsOf(S) /\ T # {}
  BY <1>2, Zenon DEF FiniteSubsetsOf
<1> HIDE DEF R
<1>4. PICK s \in T : \A y \in T : <<y, s>> \notin R
  <2> HIDE DEF T
  <2> QED BY <1>1, <1>3, WFMin, Zenon
<1>5. s \in SUBSET S /\ s \notin P
  BY Zenon
<1>9. s # {}
  BY <1>5
<1>6. PICK x \in s : s \ {x} \in P => s \in P
  BY <1>5, <1>9, Zenon
<1>7. s \ {x} \in T
  BY <1>5, <1>6, Zenon
<1>8. <<s \ {x}, s>> \in R
  BY <1>5, <1>6, Zenon DEF R, StrictSubsetOrdering
<1> QED BY <1>4, <1>7, <1>8, Zenon

(* G[s] is the sum of h over s, for every subset s of S, in whatever order.   *)
IsSum(G, h, S) ==
    /\ G \in [SUBSET S -> Int]
    /\ G[{}] = 0
    /\ \A s \in SUBSET S : \A x \in s : G[s] = h[x] + G[s \ {x}]

SumOver(h, S) == (CHOOSE G : IsSum(G, h, S))[S]

(* A sum over s without x extends to s.                                       *)
LEMMA SumExtended ==
  ASSUME NEW s, NEW h, NEW x \in s, \A y \in s : h[y] \in Int,
         NEW G, IsSum(G, h, s \ {x})
  PROVE  \E H : IsSum(H, h, s)
<1> DEFINE H == [t \in SUBSET s |-> IF x \in t THEN h[x] + G[t \ {x}] ELSE G[t]]
<1>1. \A t \in SUBSET (s \ {x}) : G[t] \in Int
  BY Zenon DEF IsSum
<1>2. \A t \in SUBSET s : t \ {x} \in SUBSET (s \ {x}) /\ (x \notin t => t = t \ {x})
  BY Zenon
<1>3. H \in [SUBSET s -> Int]
  <2> SUFFICES ASSUME NEW t \in SUBSET s PROVE H[t] \in Int
    BY Zenon
  <2>1. G[t \ {x}] \in Int /\ (x \notin t => G[t] \in Int)
    BY <1>1, <1>2, Zenon
  <2> QED BY <2>1
<1>4. H[{}] = 0
  BY Zenon DEF IsSum
<1>5. ASSUME NEW t \in SUBSET s, NEW y \in t PROVE H[t] = h[y] + H[t \ {y}]
  <2>1. CASE y = x
    <3>1. H[t] = h[x] + G[t \ {x}] /\ H[t \ {x}] = G[t \ {x}]
      BY <2>1, Zenon
    <3> QED BY <2>1, <3>1, Zenon
  <2>2. CASE y # x /\ x \notin t
    <3>1. t \in SUBSET (s \ {x}) /\ t \ {y} \in SUBSET s /\ x \notin t \ {y}
      BY <2>2, Zenon
    <3>2. G[t] = h[y] + G[t \ {y}]
      BY <3>1, Zenon DEF IsSum
    <3> QED BY <2>2, <3>1, <3>2, Zenon
  <2>3. CASE y # x /\ x \in t
    <3> DEFINE u == t \ {x}
    <3>1. u \in SUBSET (s \ {x}) /\ y \in u /\ (t \ {y}) \ {x} = u \ {y} /\ u \ {y} \in SUBSET (s \ {x})
      BY <2>3, Zenon
    <3>2. G[u] = h[y] + G[u \ {y}] /\ G[u \ {y}] \in Int
      BY <3>1, <1>1, Zenon DEF IsSum
    <3>3. H[t] = h[x] + G[u]
      BY <2>3, Zenon
    <3>4. H[t \ {y}] = h[x] + G[u \ {y}]
      <4>1. t \ {y} \in SUBSET s /\ x \in t \ {y}
        BY <2>3, Zenon
      <4>2. H[t \ {y}] = h[x] + G[(t \ {y}) \ {x}]
        BY <4>1, Zenon
      <4> QED BY <4>2, <3>1, Zenon
    <3>5. h[x] \in Int /\ h[y] \in Int
      BY Zenon
    <3> HIDE DEF u, H
    <3> QED BY <3>2, <3>3, <3>4, <3>5
  <2> QED BY <2>1, <2>2, <2>3, Zenon
<1> HIDE DEF H
<1> QED BY <1>3, <1>4, <1>5, Zenon DEF IsSum

(* Every finite family of integers has a sum.                                 *)
LEMMA SumExists ==
  ASSUME NEW S, IsFiniteSet(S), NEW h, \A y \in S : h[y] \in Int
  PROVE  \E G : IsSum(G, h, S)
<1> DEFINE P == {s \in SUBSET S : \E G : IsSum(G, h, s)}
<1>1. {} \in P
  <2> DEFINE G == [t \in SUBSET {} |-> 0]
  <2>1. IsSum(G, h, {})
    BY DEF IsSum
  <2> QED BY <2>1, Zenon
<1>2. \A s \in SUBSET S : s # {} => \E x \in s : s \ {x} \in P => s \in P
  <2> SUFFICES ASSUME NEW s \in SUBSET S, NEW x \in s, s \ {x} \in P PROVE s \in P
    BY Zenon
  <2>1. PICK G : IsSum(G, h, s \ {x})
    BY Zenon
  <2>2. \E H : IsSum(H, h, s)
    BY <2>1, SumExtended, Zenon
  <2> QED BY <2>2, Zenon
<1> HIDE DEF P
<1>3. S \in P
  BY <1>1, <1>2, SubsetInduction, Zenon
<1> QED BY <1>3, Zenon DEF P

(* SumOver is such a sum, and an integer.                                     *)
LEMMA SumIsSum ==
  ASSUME NEW S, IsFiniteSet(S), NEW h, \A y \in S : h[y] \in Int
  PROVE  /\ IsSum(CHOOSE G : IsSum(G, h, S), h, S)
         /\ SumOver(h, S) \in Int
<1>1. IsSum(CHOOSE G : IsSum(G, h, S), h, S)
  BY SumExists, Zenon
<1> DEFINE G == CHOOSE G : IsSum(G, h, S)
<1>2. G \in [SUBSET S -> Int]
  BY <1>1, Zenon DEF IsSum
<1> HIDE DEF G
<1>3. G[S] \in Int
  BY <1>2, Zenon
<1> QED BY <1>1, <1>3, Zenon DEF SumOver, G

(* Sums of smaller numbers are smaller, on every subset.                      *)
LEMMA SumMonotone ==
  ASSUME NEW S, IsFiniteSet(S), NEW G, NEW H, NEW g, NEW h, IsSum(G, g, S), IsSum(H, h, S),
         NEW T \in SUBSET S, \A x \in T : g[x] \in Int /\ h[x] \in Int /\ g[x] <= h[x]
  PROVE  G[T] <= H[T]
<1> DEFINE P == {s \in SUBSET T : G[s] <= H[s]}
<1>1. {} \in P
  BY DEF IsSum
<1>2. \A s \in SUBSET T : s # {} => \E x \in s : s \ {x} \in P => s \in P
  <2> SUFFICES ASSUME NEW s \in SUBSET T, NEW x \in s, s \ {x} \in P PROVE s \in P
    BY Zenon
  <2>1. s \in SUBSET S /\ s \ {x} \in SUBSET S
    BY Zenon
  <2>2. /\ G[s] = g[x] + G[s \ {x}] /\ H[s] = h[x] + H[s \ {x}]
        /\ G[s \ {x}] \in Int /\ H[s \ {x}] \in Int /\ G[s] \in Int /\ H[s] \in Int
    BY <2>1, Zenon DEF IsSum
  <2>3. G[s \ {x}] <= H[s \ {x}] /\ g[x] <= h[x] /\ g[x] \in Int /\ h[x] \in Int
    BY Zenon
  <2>4. G[s] <= H[s]
    BY <2>2, <2>3
  <2> QED BY <2>4, Zenon
<1>3. IsFiniteSet(T)
  BY FS_Subset, Zenon
<1> HIDE DEF P
<1>4. T \in P
  BY <1>1, <1>2, <1>3, SubsetInduction, Zenon
<1> QED BY <1>4, Zenon DEF P

(* The sum of smaller numbers is smaller.                                     *)
LEMMA SumLess ==
  ASSUME NEW S, IsFiniteSet(S), NEW g, NEW h,
         \A x \in S : g[x] \in Int /\ h[x] \in Int /\ g[x] <= h[x]
  PROVE  SumOver(g, S) <= SumOver(h, S)
<1> DEFINE G == CHOOSE G : IsSum(G, g, S)
           H == CHOOSE H : IsSum(H, h, S)
<1>1. IsSum(G, g, S) /\ IsSum(H, h, S)
  BY SumIsSum, Zenon
<1> HIDE DEF G, H
<1>2. G[S] <= H[S]
  BY <1>1, SumMonotone
<1> QED BY <1>2, Zenon DEF SumOver, G, H

(* One summand changes: the sum changes by as much.                           *)
LEMMA SumAdded ==
  ASSUME NEW S, IsFiniteSet(S), NEW g, NEW h, NEW x \in S, NEW n \in Int,
         \A y \in S : g[y] \in Int, \A y \in S \ {x} : h[y] = g[y], h[x] = g[x] + n
  PROVE  SumOver(h, S) = SumOver(g, S) + n
<1> DEFINE G == CHOOSE G : IsSum(G, g, S)
           H == CHOOSE H : IsSum(H, h, S)
           T == S \ {x}
<1>0. \A y \in S : h[y] \in Int
  OBVIOUS
<1>1. IsSum(G, g, S) /\ IsSum(H, h, S)
  BY <1>0, SumIsSum, Zenon
<1> HIDE DEF G, H
<1>2. G[S] = g[x] + G[T] /\ H[S] = h[x] + H[T] /\ G[T] \in Int /\ H[T] \in Int
  BY <1>1, Zenon DEF IsSum
<1>3. T \in SUBSET S /\ \A y \in T : g[y] \in Int /\ h[y] \in Int /\ g[y] <= h[y] /\ h[y] <= g[y]
  BY <1>0
<1> HIDE DEF T
<1>4. G[T] <= H[T]
  BY <1>1, <1>3, SumMonotone
<1>5. H[T] <= G[T]
  BY <1>1, <1>3, SumMonotone
<1>6. H[S] = G[S] + n
  BY <1>2, <1>4, <1>5
<1> QED BY <1>6, Zenon DEF SumOver, G, H

(* Nothing sent or received sums up to nothing.                               *)
LEMMA SumOfZeros ==
  ASSUME NEW S, IsFiniteSet(S), NEW h, \A x \in S : h[x] = 0
  PROVE  SumOver(h, S) = 0
<1> DEFINE G == CHOOSE G : IsSum(G, h, S)
           P == {s \in SUBSET S : G[s] = 0}
<1>1. IsSum(G, h, S)
  BY SumIsSum
<1> HIDE DEF G
<1>2. {} \in P
  BY <1>1, Zenon DEF IsSum
<1>3. \A s \in SUBSET S : s # {} => \E x \in s : s \ {x} \in P => s \in P
  <2> SUFFICES ASSUME NEW s \in SUBSET S, NEW x \in s, s \ {x} \in P PROVE s \in P
    BY Zenon
  <2>1. G[s] = h[x] + G[s \ {x}]
    BY <1>1, Zenon DEF IsSum
  <2> QED BY <2>1
<1> HIDE DEF P
<1>4. S \in P
  BY <1>2, <1>3, SubsetInduction, Zenon
<1> QED BY <1>4, Zenon DEF P, SumOver, G

(* A fold that adds h[x] for the elements x of S one after the other.         *)
Iterates(g, h, S) ==
    g = [s \in SUBSET S |-> IF s = {} THEN 0
                            ELSE h[CHOOSE x \in s : TRUE] + g[s \ {CHOOSE x \in s : TRUE}]]

(* Whatever order CHOOSE takes, the fold ends with the sum ...                *)
LEMMA IteratedSum ==
  ASSUME NEW S, IsFiniteSet(S), NEW h, \A y \in S : h[y] \in Int,
         NEW g, Iterates(g, h, S)
  PROVE  g[S] = SumOver(h, S)
<1> DEFINE G == CHOOSE G : IsSum(G, h, S)
           P == {s \in SUBSET S : g[s] = G[s]}
<1>1. IsSum(G, h, S)
  BY SumIsSum, Zenon
<1> HIDE DEF G
<1>2. {} \in P
  <2>1. g[{}] = 0
    BY Zenon DEF Iterates
  <2> QED BY <1>1, <2>1, Zenon DEF IsSum
<1>3. \A s \in SUBSET S : s # {} => \E x \in s : s \ {x} \in P => s \in P
  <2> SUFFICES ASSUME NEW s \in SUBSET S, s # {}
               PROVE  \E x \in s : s \ {x} \in P => s \in P
    BY Zenon
  <2> DEFINE x == CHOOSE x \in s : TRUE
  <2>1. x \in s
    BY Zenon
  <2>2. g[s] = h[x] + g[s \ {x}]
    BY Zenon DEF Iterates
  <2> HIDE DEF x
  <2>3. G[s] = h[x] + G[s \ {x}]
    BY <1>1, <2>1, Zenon DEF IsSum
  <2> QED BY <2>1, <2>2, <2>3, Zenon
<1> HIDE DEF P
<1>4. S \in P
  BY <1>2, <1>3, SubsetInduction, Zenon
<1> QED BY <1>4, Zenon DEF P, SumOver, G

(* ... and there is such a fold.                                              *)
LEMMA IterationExists ==
  ASSUME NEW S, IsFiniteSet(S), NEW h, \A y \in S : h[y] \in Int
  PROVE  \E g : Iterates(g, h, S)
<1>1. PICK G : IsSum(G, h, S)
  BY SumExists, Zenon
<1>2. ASSUME NEW s \in SUBSET S
      PROVE  G[s] = IF s = {} THEN 0
                    ELSE h[CHOOSE x \in s : TRUE] + G[s \ {CHOOSE x \in s : TRUE}]
  <2>1. CASE s = {}
    BY <1>1, <2>1, Zenon DEF IsSum
  <2>2. CASE s # {}
    <3> DEFINE x == CHOOSE x \in s : TRUE
    <3>1. x \in s
      BY <2>2, Zenon
    <3> HIDE DEF x
    <3>2. G[s] = h[x] + G[s \ {x}]
      BY <1>1, <3>1, Zenon DEF IsSum
    <3> QED BY <2>2, <3>2, Zenon DEF x
  <2> QED BY <2>1, <2>2, Zenon
<1>3. G \in [SUBSET S -> Int]
  BY <1>1, Zenon DEF IsSum
<1>4. G = [s \in SUBSET S |->
                       IF s = {} THEN 0
                       ELSE h[CHOOSE x \in s : TRUE] + G[s \ {CHOOSE x \in s : TRUE}]]
  BY <1>2, <1>3, Zenon
<1> QED BY <1>4, Zenon DEF Iterates

(* The folds of CountersAgree are such sums.                                *)
FoldBytesOf(f) == FoldFunction(LAMBDA x, y : x.bytes + y, 0, f)

LEMMA FoldBytes ==
  ASSUME NEW S, IsFiniteSet(S), NEW f, DOMAIN f = S, \A y \in S : f[y].bytes \in Int
  PROVE  FoldBytesOf(f) = SumOver([y \in S |-> f[y].bytes], S)
<1> DEFINE h == [y \in S |-> f[y].bytes]
           Q(g) == g = [s \in SUBSET S |-> IF s = {} THEN 0
                         ELSE f[CHOOSE x \in s : TRUE].bytes + g[s \ {CHOOSE x \in s : TRUE}]]
           iter == CHOOSE g : Q(g)
<1>1. \A y \in S : h[y] \in Int
  BY Zenon
<1>2. FoldBytesOf(f) = iter[S]
  BY Zenon DEF FoldBytesOf, FoldFunction, FoldFunctionOnSet, MapThenFoldSet
<1>3. \A s \in SUBSET S : s # {} => h[CHOOSE x \in s : TRUE] = f[CHOOSE x \in s : TRUE].bytes
  BY Zenon
<1> HIDE DEF h
<1>4. \A g : Iterates(g, h, S) <=> Q(g)
  BY <1>3 DEF Iterates
<1>5. \E g : Iterates(g, h, S)
  BY <1>1, IterationExists, Zenon
<1> HIDE DEF Q
<1>6. Iterates(iter, h, S)
  BY <1>4, <1>5, Zenon
<1> HIDE DEF iter
<1>7. iter[S] = SumOver(h, S)
  BY <1>1, <1>6, IteratedSum, Zenon
<1> QED BY <1>2, <1>7, Zenon DEF h

FoldHighestOf(f) == FoldFunction(LAMBDA x, y : x.highest + y, 0, f)

LEMMA FoldHighest ==
  ASSUME NEW S, IsFiniteSet(S), NEW f, DOMAIN f = S, \A y \in S : f[y].highest \in Int
  PROVE  FoldHighestOf(f) = SumOver([y \in S |-> f[y].highest], S)
<1> DEFINE h == [y \in S |-> f[y].highest]
           Q(g) == g = [s \in SUBSET S |-> IF s = {} THEN 0
                         ELSE f[CHOOSE x \in s : TRUE].highest + g[s \ {CHOOSE x \in s : TRUE}]]
           iter == CHOOSE g : Q(g)
<1>1. \A y \in S : h[y] \in Int
  BY Zenon
<1>2. FoldHighestOf(f) = iter[S]
  BY Zenon DEF FoldHighestOf, FoldFunction, FoldFunctionOnSet, MapThenFoldSet
<1>3. \A s \in SUBSET S : s # {} => h[CHOOSE x \in s : TRUE] = f[CHOOSE x \in s : TRUE].highest
  BY Zenon
<1> HIDE DEF h
<1>4. \A g : Iterates(g, h, S) <=> Q(g)
  BY <1>3 DEF Iterates
<1>5. \E g : Iterates(g, h, S)
  BY <1>1, IterationExists, Zenon
<1> HIDE DEF Q
<1>6. Iterates(iter, h, S)
  BY <1>4, <1>5, Zenon
<1> HIDE DEF iter
<1>7. iter[S] = SumOver(h, S)
  BY <1>1, <1>6, IteratedSum, Zenon
<1> QED BY <1>2, <1>7, Zenon DEF h

-------------------------------------------------------------------------------
(* The counters of the connection are the sums of the streams' counters, and  *)
(* the receiver has seen nothing that was not sent.                           *)
Sent == [s \in Streams |-> send[s].bytes]
Delivered == [s \in Streams |-> recv[s].bytes]
Highest == [s \in Streams |-> recv[s].highest]

Ledger ==
    /\ outq.bytes = SumOver(Sent, Streams)
    /\ inq.bytes = SumOver(Delivered, Streams)
    /\ inq.highest = SumOver(Highest, Streams)
    /\ \A s \in Streams : recv[s].highest <= send[s].bytes
    /\ \A m \in net : m.t = "data" => m.off + m.len <= send[m.s].bytes

LEMMA CounterTypes ==
  ASSUME IInv
  PROVE  /\ \A s \in Streams : /\ send[s] \in SendType /\ recv[s] \in RecvType
                               /\ send[s].bytes \in Nat /\ send[s].max_bytes \in Nat
                               /\ recv[s].bytes \in Nat /\ recv[s].highest \in Nat
                               /\ recv[s].max_bytes \in Nat
         /\ outq.bytes \in Nat /\ outq.max_bytes \in Nat
         /\ inq.bytes \in Nat /\ inq.highest \in Nat /\ inq.max_bytes \in Nat
         /\ IsFiniteSet(Streams)
<1>1. \A s \in Streams : send[s] \in SendType /\ recv[s] \in RecvType
  BY Zenon DEF IInv, SenderInv, ReceiverInv
<1>2. outq \in Sender /\ inq \in InqType
  BY Zenon DEF IInv, SenderInv, ReceiverInv
<1> QED BY <1>1, <1>2, WindowAssumption, Zenon DEF SendType, RecvType, Sender, InqType

LEMMA InitLedger == Init => Ledger
<1> SUFFICES ASSUME Init PROVE Ledger
  BY Zenon
<1>1. \A s \in Streams : Sent[s] = 0 /\ Delivered[s] = 0 /\ Highest[s] = 0
  BY Zenon DEF Init, Sent, Delivered, Highest
<1>2. SumOver(Sent, Streams) = 0 /\ SumOver(Delivered, Streams) = 0 /\ SumOver(Highest, Streams) = 0
  BY <1>1, SumOfZeros, WindowAssumption, Zenon
<1> QED BY <1>2 DEF Init, Ledger

(* A step that moves no byte.                                                 *)
LEMMA QuietLedger ==
  ASSUME Ledger, outq'.bytes = outq.bytes, inq'.bytes = inq.bytes, inq'.highest = inq.highest,
         \A s \in Streams : /\ send'[s].bytes = send[s].bytes /\ recv'[s].bytes = recv[s].bytes
                            /\ recv'[s].highest = recv[s].highest,
         net' \subseteq Frame, \A m \in net' : m.t = "data" => m \in net
  PROVE  Ledger'
<1>1. Sent' = Sent /\ Delivered' = Delivered /\ Highest' = Highest
  BY Zenon DEF Sent, Delivered, Highest
<1>2. \A m \in net' : m.t = "data" => m.s \in Streams
  BY FrameRead, Zenon
<1> QED BY <1>1, <1>2, Zenon DEF Ledger

LEMMA SendLedger ==
  ASSUME IInv, Ledger, NEW s \in Streams, NEW n \in 1..MaxFrame, Send(s, n)
  PROVE  Ledger'
<1>1. n \in Nat /\ send \in [Streams -> SendType] /\ send[s] \in SendType /\ outq \in Sender
  BY CounterTypes, Constants DEF IInv, SenderInv
<1>2. /\ send'[s].bytes = send[s].bytes + n
      /\ \A d \in Streams \ {s} : send'[d] = send[d]
      /\ outq'.bytes = outq.bytes + n /\ inq' = inq /\ recv' = recv
  BY <1>1, Zenon DEF Send, SendType, Sender
<1>3. SumOver(Sent', Streams) = SumOver(Sent, Streams) + n
  <2>1. \A d \in Streams : Sent[d] \in Int
    BY CounterTypes DEF Sent
  <2>2. \A d \in Streams \ {s} : Sent'[d] = Sent[d]
    BY <1>1, <1>2, Zenon DEF Sent
  <2>3. Sent'[s] = Sent[s] + n /\ n \in Int /\ s \in Streams
    BY <1>1, <1>2 DEF Sent
  <2>4. IsFiniteSet(Streams)
    BY WindowAssumption, Zenon
  <2> HIDE DEF Sent
  <2> QED BY <2>1, <2>2, <2>3, <2>4, SumAdded, Zenon
<1>4. Delivered' = Delivered /\ Highest' = Highest
  BY <1>2, Zenon DEF Delivered, Highest
<1>5. \A d \in Streams : send[d].bytes <= send'[d].bytes
  BY <1>1, <1>2, CounterTypes
<1>6. \A d \in Streams : recv'[d].highest <= send'[d].bytes
  BY <1>1, <1>2, <1>5, CounterTypes DEF Ledger
<1>7. ASSUME NEW m \in net', m.t = "data" PROVE m.off + m.len <= send'[m.s].bytes
  <2>1. CASE m \in net
    <3>1. m.s \in Streams /\ m.off \in Nat /\ m.len \in Nat /\ m.off + m.len <= send[m.s].bytes
      BY <1>7, <2>1, FrameRead, Zenon DEF IInv, NetInv, Ledger
    <3> QED BY <3>1, <1>1, <1>2, <1>5, CounterTypes
  <2>2. CASE m = [t |-> "data", s |-> s, off |-> send[s].bytes, len |-> n]
    BY <1>1, <1>2, <2>2, CounterTypes
  <2> QED BY <2>1, <2>2, Zenon DEF Send
<1> QED BY <1>2, <1>3, <1>4, <1>6, <1>7, Zenon DEF Ledger

(* quic_inq_flow_control counts what was read at both levels and touches no   *)
(* other counter.                                                             *)
LEMMA ReadEffect ==
  ASSUME IInv, NEW s \in Streams, NEW n \in 1..readable(s), Read(s, n)
  PROVE  /\ n \in Nat /\ inq'.bytes = inq.bytes + n /\ inq'.highest = inq.highest
         /\ recv'[s].bytes = recv[s].bytes + n /\ recv'[s].highest = recv[s].highest
         /\ \A d \in Streams \ {s} : recv'[d] = recv[d]
         /\ outq' = outq /\ send' = send /\ pressure' = pressure /\ error' = error
<1>1. inq \in InqType /\ recv \in [Streams -> RecvType] /\ recv[s] \in RecvType
  BY Zenon DEF IInv, ReceiverInv
<1>2. n \in Nat
  <2> DEFINE R == {b \in recv[s].got : b >= recv[s].bytes /\ 0 .. b \subseteq recv[s].got}
  <2>1. IsFiniteSet(R)
    BY FS_Subset, Zenon DEF IInv, ReceiverInv
  <2>2. readable(s) \in Nat
    BY <2>1, FS_CardinalityType, Zenon DEF readable
  <2> QED BY <2>2
<1> DEFINE conn == [inq EXCEPT !.bytes = @ + n]
           strm == [recv[s] EXCEPT !.bytes = @ + n]
<1>3. conn \in InqType /\ conn.bytes = inq.bytes + n /\ conn.highest = inq.highest
  BY <1>1, <1>2 DEF InqType
<1>4. strm \in RecvType /\ strm.bytes = recv[s].bytes + n /\ strm.highest = recv[s].highest
  BY <1>1, <1>2 DEF RecvType
<1>5. inq' = raised(conn, max_data) /\ recv' = [recv EXCEPT ![s] = raised(strm, stream_window)]
  BY Zenon DEF Read
<1> HIDE DEF conn, strm
<1>6. raised(conn, max_data).bytes = conn.bytes /\ raised(conn, max_data).highest = conn.highest
  BY <1>3, Zenon DEF raised, InqType
<1>7. /\ raised(strm, stream_window).bytes = strm.bytes
      /\ raised(strm, stream_window).highest = strm.highest
  BY <1>4, Zenon DEF raised, RecvType
<1>8. recv'[s] = raised(strm, stream_window) /\ \A d \in Streams \ {s} : recv'[d] = recv[d]
  BY <1>1, <1>5, Zenon
<1> QED BY <1>2, <1>3, <1>4, <1>5, <1>6, <1>7, <1>8, Zenon DEF Read

LEMMA ReadLedger ==
  ASSUME IInv, Ledger, NEW s \in Streams, NEW n \in 1..readable(s), Read(s, n)
  PROVE  Ledger'
<1>1. /\ n \in Nat /\ inq'.bytes = inq.bytes + n /\ inq'.highest = inq.highest
      /\ recv'[s].bytes = recv[s].bytes + n /\ recv'[s].highest = recv[s].highest
      /\ \A d \in Streams \ {s} : recv'[d] = recv[d]
      /\ outq' = outq /\ send' = send
  BY ReadEffect, Zenon
<1>2. SumOver(Delivered', Streams) = SumOver(Delivered, Streams) + n
  <2>1. \A d \in Streams : Delivered[d] \in Int
    BY CounterTypes DEF Delivered
  <2>2. \A d \in Streams \ {s} : Delivered'[d] = Delivered[d]
    BY <1>1, Zenon DEF Delivered
  <2>3. Delivered'[s] = Delivered[s] + n /\ n \in Int /\ s \in Streams
    BY <1>1 DEF Delivered
  <2>4. IsFiniteSet(Streams)
    BY WindowAssumption, Zenon
  <2> HIDE DEF Delivered
  <2> QED BY <2>1, <2>2, <2>3, <2>4, SumAdded, Zenon
<1>3. Sent' = Sent
  BY <1>1, Zenon DEF Sent
<1>4. Highest' = Highest
  BY <1>1, Zenon DEF Highest
<1>5. \A d \in Streams : recv'[d].highest <= send'[d].bytes
  BY <1>1, Zenon DEF Ledger
<1>6. \A m \in net' : m.t = "data" => m \in net
  <2> DEFINE conn == [inq EXCEPT !.bytes = @ + n]
             strm == [recv[s] EXCEPT !.bytes = @ + n]
             v == limit(conn, max_data)
             w == limit(strm, stream_window)
  <2>1. net' \subseteq net \cup {[t |-> "max_data", v |-> v],
                                 [t |-> "max_stream_data", s |-> s, v |-> w]}
    BY Zenon DEF Read
  <2> HIDE DEF v, w
  <2> QED BY <2>1
<1>7. \A m \in net' : m.t = "data" => m.off + m.len <= send'[m.s].bytes
  BY <1>1, <1>6, Zenon DEF Ledger
<1> QED BY <1>1, <1>2, <1>3, <1>4, <1>5, <1>7, Zenon DEF Ledger

(* quic_inq_stream_recv moves highest of the stream and of the connection by  *)
(* the same amount, or moves nothing.                                         *)
LEMMA DataEffect ==
  ASSUME IInv, NEW m \in Frame, DeliverData(m)
  PROVE  LET s == m.s
             off == m.off + m.len
             new == IF off > recv[s].highest THEN off - recv[s].highest ELSE 0
             over == \/ inq.highest + new > inq.max_bytes
                     \/ recv[s].highest + new > recv[s].max_bytes
         IN  /\ s \in Streams /\ off \in Nat /\ new \in Nat
             /\ outq' = outq /\ send' = send /\ pressure' = pressure
             /\ inq'.bytes = inq.bytes /\ inq'.max_bytes = inq.max_bytes
             /\ \A d \in Streams : /\ recv'[d].bytes = recv[d].bytes
                                   /\ recv'[d].max_bytes = recv[d].max_bytes
             /\ \A d \in Streams \ {s} : recv'[d] = recv[d]
             /\ \/ inq' = inq /\ recv' = recv /\ new > 0 /\ over /\ error' = TRUE
                \/ inq' = inq /\ recv' = recv /\ error' = error
                \/ /\ inq'.highest = inq.highest + new /\ error' = error
                   /\ recv'[s].highest = recv[s].highest + new
<1> DEFINE s == m.s
           off == m.off + m.len
           new == IF off > recv[s].highest THEN off - recv[s].highest ELSE 0
           over == \/ inq.highest + new > inq.max_bytes
                   \/ recv[s].highest + new > recv[s].max_bytes
<1>1. s \in Streams /\ m.off \in Nat /\ m.len \in Nat /\ off \in Nat
  BY FrameRead DEF DeliverData
<1>2. inq \in InqType /\ recv \in [Streams -> RecvType] /\ recv[s] \in RecvType
  BY <1>1, Zenon DEF IInv, ReceiverInv
<1>3. new \in Nat
  BY <1>1, <1>2 DEF RecvType
<1>4. outq' = outq /\ send' = send /\ pressure' = pressure
  BY Zenon DEF DeliverData
<1>5. \/ inq' = inq /\ recv' = recv /\ new > 0 /\ over /\ error' = TRUE
      \/ inq' = inq /\ recv' = recv /\ error' = error
      \/ /\ inq' = [inq EXCEPT !.highest = @ + new]
         /\ recv' = [recv EXCEPT ![s].highest = @ + new, ![s].got = @ \cup m.off .. off - 1]
         /\ error' = error
  BY Zenon DEF DeliverData
<1>6. CASE inq' = inq /\ recv' = recv
  BY <1>1, <1>3, <1>4, <1>5, <1>6, Zenon
<1>7. CASE /\ inq' = [inq EXCEPT !.highest = @ + new]
           /\ recv' = [recv EXCEPT ![s].highest = @ + new, ![s].got = @ \cup m.off .. off - 1]
           /\ error' = error
  <2> DEFINE more == m.off .. off - 1
  <2>1. recv' = [recv EXCEPT ![s].highest = @ + new, ![s].got = @ \cup more]
    BY <1>7, Zenon
  <2> HIDE DEF new, more, off, s
  <2>2. inq'.highest = inq.highest + new /\ inq'.bytes = inq.bytes /\ inq'.max_bytes = inq.max_bytes
    BY <1>2, <1>7, Zenon DEF InqType
  <2>3. \A d \in Streams \ {s} : recv'[d] = recv[d]
    BY <1>1, <1>2, <2>1, Zenon
  <2>4. /\ recv'[s].highest = recv[s].highest + new /\ recv'[s].bytes = recv[s].bytes
        /\ recv'[s].max_bytes = recv[s].max_bytes
    BY <1>1, <1>2, <2>1, Zenon DEF RecvType
  <2>5. \A d \in Streams : recv'[d].bytes = recv[d].bytes /\ recv'[d].max_bytes = recv[d].max_bytes
    BY <2>3, <2>4, Zenon
  <2>6. error' = error
    BY <1>7, Zenon
  <2> QED BY <1>1, <1>3, <1>4, <2>2, <2>3, <2>4, <2>5, <2>6, Zenon DEF new, off, s
<1> HIDE DEF over
<1> QED BY <1>5, <1>6, <1>7, Zenon

LEMMA DataLedger ==
  ASSUME IInv, Ledger, NEW m \in net, DeliverData(m)
  PROVE  Ledger'
<1> DEFINE s == m.s
           off == m.off + m.len
           new == IF off > recv[s].highest THEN off - recv[s].highest ELSE 0
           over == \/ inq.highest + new > inq.max_bytes
                   \/ recv[s].highest + new > recv[s].max_bytes
<1>0. m \in Frame /\ m.t = "data"
  BY Zenon DEF IInv, NetInv, DeliverData
<1>1. /\ s \in Streams /\ off \in Nat /\ new \in Nat
      /\ outq' = outq /\ send' = send /\ inq'.bytes = inq.bytes
      /\ \A d \in Streams : recv'[d].bytes = recv[d].bytes
      /\ \A d \in Streams \ {s} : recv'[d] = recv[d]
      /\ \/ inq' = inq /\ recv' = recv
         \/ /\ inq'.highest = inq.highest + new /\ error' = error
            /\ recv'[s].highest = recv[s].highest + new
  BY <1>0, DataEffect, Zenon
<1>2. net' \subseteq net
  BY Zenon DEF DeliverData, Consumed
<1>3. CASE inq' = inq /\ recv' = recv
  <2>1. net' \subseteq Frame
    BY <1>2, Zenon DEF IInv, NetInv
  <2> QED BY <1>1, <1>2, <1>3, <2>1, QuietLedger, Zenon
<1>4. CASE inq'.highest = inq.highest + new /\ recv'[s].highest = recv[s].highest + new
  <2>1. off <= send[s].bytes
    BY <1>0, Zenon DEF Ledger
  <2>2. recv[s].highest + new <= send[s].bytes
    BY <1>1, <2>1, CounterTypes DEF Ledger
  <2> HIDE DEF new
  <2>3. SumOver(Highest', Streams) = SumOver(Highest, Streams) + new
    <3>1. \A d \in Streams : Highest[d] \in Int
      BY CounterTypes DEF Highest
    <3>2. \A d \in Streams \ {s} : Highest'[d] = Highest[d]
      BY <1>1, <1>4, Zenon DEF Highest
    <3>3. Highest'[s] = Highest[s] + new /\ new \in Int /\ s \in Streams
      BY <1>1, <1>4 DEF Highest
    <3>4. IsFiniteSet(Streams)
      BY WindowAssumption, Zenon
    <3> HIDE DEF Highest
    <3> QED BY <3>1, <3>2, <3>3, <3>4, SumAdded, ZenonT(40)
  <2>4. Sent' = Sent /\ Delivered' = Delivered
    BY <1>1, Zenon DEF Sent, Delivered
  <2>5. \A d \in Streams : recv'[d].highest <= send'[d].bytes
    BY <1>1, <1>4, <2>2, Zenon DEF Ledger
  <2>6. \A f \in net' : f.t = "data" => f.off + f.len <= send'[f.s].bytes
    BY <1>1, <1>2, Zenon DEF Ledger
  <2> QED BY <1>1, <1>4, <2>3, <2>4, <2>5, <2>6, Zenon DEF Ledger
<1> QED BY <1>1, <1>3, <1>4, Zenon

(* Every other step leaves the counters of bytes alone and sends no data.     *)
LEMMA ArriveLedger ==
  ASSUME IInv, IInv', Ledger, NEW m \in net, Deliver(m)
  PROVE  Ledger'
<1>1. m \in Frame /\ net' \subseteq Frame
  BY Zenon DEF IInv, NetInv
<1>2. CASE DeliverData(m)
  BY <1>2, DataLedger, Zenon
<1>3. CASE DeliverMaxData(m)
  <2>1. net' \subseteq net
    BY <1>3, Zenon DEF DeliverMaxData, Consumed
  <2> QED BY <1>1, <1>3, <2>1, MaxDataEffect, QuietLedger, Zenon
<1>4. CASE DeliverMaxStreamData(m)
  <2>1. net' \subseteq net
    BY <1>4, Zenon DEF DeliverMaxStreamData, Consumed
  <2> QED BY <1>1, <1>4, <2>1, MaxStreamDataEffect, QuietLedger, Zenon
<1>5. CASE DeliverDataBlocked(m)
  <2> DEFINE v == inq'.max_bytes
  <2>1. Consumed(m, {[t |-> "max_data", v |-> v]})
    BY <1>1, <1>5, DataBlockedEffect, Zenon
  <2> HIDE DEF v
  <2>2. \A f \in net' : f.t = "data" => f \in net
    BY <2>1 DEF Consumed
  <2> QED BY <1>1, <1>5, <2>2, DataBlockedEffect, QuietLedger, Zenon
<1>6. CASE DeliverStreamDataBlocked(m)
  <2> DEFINE s == m.s
             v == limit(recv[s], stream_window)
             max == [t |-> "max_stream_data", s |-> s, v |-> v]
  <2>1. /\ Consumed(m, {}) \/ Consumed(m, {max})
        /\ outq' = outq /\ send' = send /\ inq' = inq
        /\ \A d \in Streams : recv'[d].bytes = recv[d].bytes /\ recv'[d].highest = recv[d].highest
    BY <1>1, <1>6, StreamDataBlockedEffect, SMTT(30)
  <2> HIDE DEF v, s
  <2>2. \A f \in net' : f.t = "data" => f \in net
    BY <2>1 DEF Consumed
  <2> QED BY <1>1, <2>1, <2>2, QuietLedger, Zenon
<1>8. CASE DeliverReset(m)
  <2>1. net' \subseteq net /\ m.s \in Streams /\ outq' = outq /\ send' = send /\ inq' = inq
    BY <1>1, <1>8, FrameRead, Zenon DEF DeliverReset, Consumed
  <2>2. \A d \in Streams : recv'[d].bytes = recv[d].bytes /\ recv'[d].highest = recv[d].highest
    BY <1>8, <2>1, StateEffect, Zenon DEF DeliverReset
  <2> QED BY <1>1, <2>1, <2>2, QuietLedger, Zenon
<1>9. CASE DeliverStop(m)
  <2>1. m.s \in Streams /\ Reset(m.s) /\ Consumed(m, {[t |-> "reset", s |-> m.s]})
    BY <1>1, <1>9, FrameRead, Zenon DEF DeliverStop
  <2>2. \A f \in net' : f.t = "data" => f \in net
    BY <2>1 DEF Consumed
  <2>3. /\ outq' = outq /\ inq' = inq /\ recv' = recv
        /\ \A d \in Streams : send'[d].bytes = send[d].bytes
    BY <2>1, ResetEffect, Zenon
  <2> QED BY <1>1, <2>2, <2>3, QuietLedger, Zenon
<1> QED BY <1>2, <1>3, <1>4, <1>5, <1>6, <1>8, <1>9, Zenon DEF Deliver

LEMMA NextLedger == IInv /\ IInv' /\ Ledger /\ [Next]_vars => Ledger'
<1> SUFFICES ASSUME IInv, IInv', Ledger, [Next]_vars PROVE Ledger'
  BY Zenon
<1>0. net' \subseteq Frame
  BY Zenon DEF IInv, NetInv
<1>1. CASE Write
  BY <1>1, SendLedger, Zenon DEF Write
<1>2. ASSUME NEW s \in Streams, Block(s) PROVE Ledger'
  <2>1. /\ outq'.bytes = outq.bytes /\ inq' = inq /\ recv' = recv /\ net' = net
        /\ \A d \in Streams : send'[d].bytes = send[d].bytes
    BY <1>2, BlockEffect, Zenon
  <2> QED BY <1>0, <2>1, QuietLedger, Zenon
<1>9. ASSUME NEW s \in Streams, Announce(s) PROVE Ledger'
  <2>1. \A f \in net' : f.t = "data" => f \in net
    BY <1>9, AnnounceEffect
  <2> QED BY <1>0, <1>9, <2>1, AnnounceEffect, QuietLedger, Zenon
<1>3. CASE Consume
  BY <1>3, ReadLedger, Zenon DEF Consume
<1>4. CASE Arrive
  BY <1>4, ArriveLedger, Zenon DEF Arrive
<1>5. CASE Pressure
  BY <1>0, <1>5, QuietLedger, Zenon DEF Pressure
<1>6. ASSUME NEW s \in Streams, AppReset(s) PROVE Ledger'
  <2>1. Reset(s) /\ net' = net \cup {[t |-> "reset", s |-> s]}
    BY <1>6, Zenon DEF AppReset
  <2>2. \A f \in net' : f.t = "data" => f \in net
    BY <2>1
  <2>3. /\ outq' = outq /\ inq' = inq /\ recv' = recv
        /\ \A d \in Streams : send'[d].bytes = send[d].bytes
    BY <2>1, ResetEffect, Zenon
  <2> QED BY <1>0, <2>2, <2>3, QuietLedger, Zenon
<1>7. ASSUME NEW s \in Streams, StopSending(s) PROVE Ledger'
  <2>1. \A f \in net' : f.t = "data" => f \in net
    BY <1>7 DEF StopSending
  <2>2. \A d \in Streams : recv'[d].bytes = recv[d].bytes /\ recv'[d].highest = recv[d].highest
    BY <1>7, StateEffect, Zenon DEF StopSending
  <2>3. outq' = outq /\ send' = send /\ inq' = inq
    BY <1>7, Zenon DEF StopSending
  <2> QED BY <1>0, <2>1, <2>2, <2>3, QuietLedger, Zenon
<1>8. CASE UNCHANGED vars
  BY <1>0, <1>8, QuietLedger, Zenon DEF vars
<1> QED BY <1>1, <1>2, <1>3, <1>4, <1>5, <1>6, <1>7, <1>8, <1>9, Zenon DEF Next, Wait, Abandon

(* The connection's counters at both ends are the sums of the streams'        *)
(* counters after any sequence of writes, reads, deliveries, resets and       *)
(* purges: quic_outq_flow_control and quic_inq_flow_control never let the two *)
(* levels drift apart.                                                        *)
THEOREM CountersExact == Spec => []CountersAgree
<1>1. IInv => TypeOK
  BY Zenon DEF IInv, SenderInv, SendType, ReceiverInv, InqType, RecvType, NetInv, TypeOK
<1>2. ASSUME IInv, Ledger PROVE CountersAgree
  <2>1. DOMAIN send = Streams /\ DOMAIN recv = Streams /\ IsFiniteSet(Streams)
    BY <1>2, WindowAssumption, Zenon DEF IInv, SenderInv, ReceiverInv
  <2>2. \A s \in Streams : send[s].bytes \in Int /\ recv[s].bytes \in Int /\ recv[s].highest \in Int
    BY <1>2, CounterTypes
  <2>3. FoldBytesOf(send) = SumOver(Sent, Streams)
    BY <2>1, <2>2, FoldBytes, Zenon DEF Sent
  <2>4. FoldBytesOf(recv) = SumOver(Delivered, Streams)
    BY <2>1, <2>2, FoldBytes, Zenon DEF Delivered
  <2>5. FoldHighestOf(recv) = SumOver(Highest, Streams)
    BY <2>1, <2>2, FoldHighest, Zenon DEF Highest
  <2>6. /\ outq.bytes = FoldBytesOf(send) /\ inq.bytes = FoldBytesOf(recv)
        /\ inq.highest = FoldHighestOf(recv) /\ TypeOK
    BY <1>1, <1>2, <2>3, <2>4, <2>5, Zenon DEF Ledger
  <2> QED BY <2>6, Zenon DEF FoldBytesOf, FoldHighestOf, FoldFunction, FoldFunctionOnSet, MapThenFoldSet,
                      CountersAgree
<1> QED BY <1>1, <1>2, InitIInv, NextIInv, InitLedger, NextLedger, PTL DEF Spec
-------------------------------------------------------------------------------
(* Without memory pressure the receiver's limits only grow, so that every     *)
(* limit the sender was given, or will be given by a frame on its way, is     *)
(* still covered by the receiver's own.                                       *)
Covered ==
    /\ ~pressure /\ ~error
    /\ outq.max_bytes <= inq.max_bytes
    /\ \A s \in Streams : send[s].max_bytes <= recv[s].max_bytes
    /\ \A m \in net : /\ m.t = "max_data" => m.v <= inq.max_bytes
                      /\ m.t = "max_stream_data" => m.v <= recv[m.s].max_bytes

(* Data that was sent fits into the limits: the connection's because the sums *)
(* of what was sent and of what was received compare stream by stream.        *)
LEMMA WithinWindow ==
  ASSUME IInv, Ledger, Covered, NEW s \in Streams, NEW off \in Nat, off <= send[s].bytes,
         off > recv[s].highest
  PROVE  /\ inq.highest + (off - recv[s].highest) <= inq.max_bytes
         /\ off <= recv[s].max_bytes
<1> DEFINE n == off - recv[s].highest
           h == [d \in Streams |-> IF d = s THEN off ELSE Highest[d]]
<1>1. /\ \A d \in Streams : Highest[d] \in Int /\ Sent[d] \in Int
      /\ n \in Int /\ IsFiniteSet(Streams) /\ s \in Streams
  BY CounterTypes DEF Highest, Sent
<1>2. (\A d \in Streams \ {s} : h[d] = Highest[d]) /\ h[s] = Highest[s] + n
  BY CounterTypes DEF Highest
<1>3. \A d \in Streams : h[d] \in Int /\ Sent[d] \in Int /\ h[d] <= Sent[d]
  BY <1>1, CounterTypes DEF Ledger, Sent, Highest
<1> HIDE DEF h, n
<1>4. SumOver(h, Streams) = SumOver(Highest, Streams) + n
  BY <1>1, <1>2, SumAdded, Zenon
<1>5. SumOver(h, Streams) <= SumOver(Sent, Streams)
  BY <1>1, <1>3, SumLess, Zenon
<1>6. inq.highest + n <= outq.bytes
  BY <1>4, <1>5, Zenon DEF Ledger
<1>7. outq.bytes <= outq.max_bytes /\ outq.max_bytes <= inq.max_bytes
  BY Zenon DEF IInv, SenderInv, WithinLimits, Covered
<1>8. send[s].bytes <= send[s].max_bytes /\ send[s].max_bytes <= recv[s].max_bytes
  BY Zenon DEF IInv, SenderInv, WithinLimits, Covered
<1>9. inq.highest + n <= inq.max_bytes
  BY <1>1, <1>6, <1>7, CounterTypes
<1> QED BY <1>8, <1>9, CounterTypes DEF n

(* The limits grow, or stay; the sender's are given by frames on their way.   *)
LEMMA CoveredKept ==
  ASSUME IInv, IInv', Covered, ~pressure', ~error', inq'.max_bytes >= inq.max_bytes,
         \A s \in Streams : recv'[s].max_bytes >= recv[s].max_bytes,
         outq'.max_bytes <= inq.max_bytes,
         \A s \in Streams : send'[s].max_bytes <= recv[s].max_bytes,
         \A m \in net' : m \in net \/ /\ m.t = "max_data" => m.v <= inq'.max_bytes
                                      /\ m.t = "max_stream_data" => m.v <= recv'[m.s].max_bytes
  PROVE  Covered'
<1>1. outq'.max_bytes \in Nat /\ inq'.max_bytes \in Nat
      /\ \A s \in Streams : send'[s].max_bytes \in Nat /\ recv'[s].max_bytes \in Nat
  <2>1. outq' \in Sender /\ inq' \in InqType
    BY Zenon DEF IInv, SenderInv, ReceiverInv
  <2>2. \A s \in Streams : send'[s] \in SendType /\ recv'[s] \in RecvType
    BY Zenon DEF IInv, SenderInv, ReceiverInv
  <2> QED BY <2>1, <2>2, Zenon DEF Sender, InqType, SendType, RecvType
<1>2. outq'.max_bytes <= inq'.max_bytes
  BY <1>1, CounterTypes
<1>3. \A s \in Streams : send'[s].max_bytes <= recv'[s].max_bytes
  BY <1>1, CounterTypes
<1>4. ASSUME NEW m \in net'
      PROVE  /\ m.t = "max_data" => m.v <= inq'.max_bytes
             /\ m.t = "max_stream_data" => m.v <= recv'[m.s].max_bytes
  <2>1. CASE m \in net
    <3>1. m \in Frame
      BY <2>1, Zenon DEF IInv, NetInv
    <3>2. ASSUME m.t = "max_data" PROVE m.v <= inq'.max_bytes
      <4>1. m.v \in Nat /\ m.v <= inq.max_bytes
        BY <2>1, <3>1, <3>2, FrameRead, Zenon DEF Covered
      <4> QED BY <1>1, <4>1, CounterTypes
    <3>3. ASSUME m.t = "max_stream_data" PROVE m.v <= recv'[m.s].max_bytes
      <4>1. m.s \in Streams /\ m.v \in Nat /\ m.v <= recv[m.s].max_bytes
        BY <2>1, <3>1, <3>3, FrameRead, Zenon DEF Covered
      <4> QED BY <1>1, <4>1, CounterTypes
    <3> QED BY <3>2, <3>3, Zenon
  <2>2. CASE m \notin net
    BY <2>2, Zenon
  <2> QED BY <2>1, <2>2, Zenon
<1> QED BY <1>2, <1>3, <1>4, Zenon DEF Covered

LEMMA InitCovered == Init => Covered
  BY Constants DEF Init, Covered

(* Without pressure a new limit is the bytes read plus the whole window.      *)
LEMMA LimitGrows ==
  ASSUME NEW l, NEW window \in Nat, l.bytes \in Nat, l.max_bytes \in Nat,
         l.max_bytes <= l.bytes + window, ~pressure
  PROVE  limit(l, window) >= l.max_bytes
  BY Zenon DEF limit

LEMMA ReadCovered ==
  ASSUME IInv, IInv', Covered, NEW s \in Streams, NEW n \in 1..readable(s), Read(s, n)
  PROVE  Covered'
<1> DEFINE conn == [inq EXCEPT !.bytes = @ + n]
           strm == [recv[s] EXCEPT !.bytes = @ + n]
           v == limit(conn, max_data)
           w == limit(strm, stream_window)
<1>1. /\ n \in Nat /\ \A d \in Streams \ {s} : recv'[d] = recv[d]
      /\ outq' = outq /\ send' = send /\ pressure' = pressure /\ error' = error
  BY ReadEffect, Zenon
<1>2. /\ inq \in InqType /\ recv \in [Streams -> RecvType] /\ recv[s] \in RecvType
      /\ Offered(inq, max_data) /\ Offered(recv[s], stream_window) /\ ~pressure /\ ~error
  BY Zenon DEF IInv, ReceiverInv, Covered
<1>3. /\ conn \in InqType /\ conn.max_bytes = inq.max_bytes /\ conn.bytes = inq.bytes + n
      /\ conn.bytes \in Nat /\ conn.max_bytes \in Nat
  BY <1>1, <1>2 DEF InqType
<1>4. /\ strm \in RecvType /\ strm.max_bytes = recv[s].max_bytes /\ strm.bytes = recv[s].bytes + n
      /\ strm.bytes \in Nat /\ strm.max_bytes \in Nat
  BY <1>1, <1>2 DEF RecvType
<1>5. inq' = raised(conn, max_data) /\ recv' = [recv EXCEPT ![s] = raised(strm, stream_window)]
  BY Zenon DEF Read
<1>6. \A m \in net' : \/ m \in net
                      \/ m = [t |-> "max_data", v |-> v] /\ due(conn, max_data)
                      \/ m = [t |-> "max_stream_data", s |-> s, v |-> w] /\ due(strm, stream_window)
  BY Zenon DEF Read
<1> HIDE DEF conn, strm
<1>7. v >= inq.max_bytes
  <2>1. conn.max_bytes <= conn.bytes + max_data
    BY <1>1, <1>2, <1>3, Constants DEF Offered, InqType
  <2> QED BY <1>2, <1>3, <2>1, LimitGrows, Constants, Zenon
<1>8. w >= recv[s].max_bytes
  <2>1. strm.max_bytes <= strm.bytes + stream_window
    BY <1>1, <1>2, <1>4, Constants DEF Offered, RecvType
  <2> QED BY <1>2, <1>4, <2>1, LimitGrows, Constants, Zenon
<1> HIDE DEF v, w
<1>9. inq'.max_bytes >= inq.max_bytes /\ (due(conn, max_data) => inq'.max_bytes = v)
  BY <1>3, <1>5, <1>7, CounterTypes DEF raised, v, InqType
<1>10. /\ recv'[s].max_bytes >= recv[s].max_bytes
       /\ due(strm, stream_window) => recv'[s].max_bytes = w
  <2>1. recv'[s] = raised(strm, stream_window)
    BY <1>2, <1>5, Zenon
  <2> QED BY <1>4, <1>8, <2>1, CounterTypes DEF raised, w, RecvType
<1>11. \A m \in net' : m \in net \/ /\ m.t = "max_data" => m.v <= inq'.max_bytes
                                    /\ m.t = "max_stream_data" => m.v <= recv'[m.s].max_bytes
  <2>1. v \in Nat /\ w \in Nat
    BY <1>3, <1>4, LimitBound, Constants, Zenon DEF v, w
  <2>2. ASSUME NEW m \in net', m = [t |-> "max_data", v |-> v], due(conn, max_data)
        PROVE  m.v <= inq'.max_bytes /\ m.t # "max_stream_data"
    BY <1>9, <2>1, <2>2
  <2>3. ASSUME NEW m \in net', m = [t |-> "max_stream_data", s |-> s, v |-> w],
               due(strm, stream_window)
        PROVE  m.v <= recv'[m.s].max_bytes /\ m.t # "max_data"
    BY <1>10, <2>1, <2>3
  <2> QED BY <1>6, <2>2, <2>3, Zenon
<1>12. \A d \in Streams : recv'[d].max_bytes >= recv[d].max_bytes
  BY <1>1, <1>10, CounterTypes
<1> QED BY <1>1, <1>2, <1>9, <1>11, <1>12, CoveredKept, Zenon DEF Covered

(* A step that moves no limit and sends none.                                 *)
LEMMA StillCovered ==
  ASSUME IInv, IInv', Covered, pressure' = pressure, error' = error,
         inq'.max_bytes = inq.max_bytes, outq'.max_bytes = outq.max_bytes,
         \A s \in Streams : /\ send'[s].max_bytes = send[s].max_bytes
                            /\ recv'[s].max_bytes = recv[s].max_bytes,
         \A m \in net' : m \in net \/ m.t \notin {"max_data", "max_stream_data"}
  PROVE  Covered'
<1>1. inq'.max_bytes >= inq.max_bytes /\ \A s \in Streams : recv'[s].max_bytes >= recv[s].max_bytes
  BY CounterTypes
<1>2. ~pressure' /\ ~error' /\ outq'.max_bytes <= inq.max_bytes
      /\ \A s \in Streams : send'[s].max_bytes <= recv[s].max_bytes
  BY Zenon DEF Covered
<1>3. \A m \in net' : m \in net \/ /\ m.t = "max_data" => m.v <= inq'.max_bytes
                                   /\ m.t = "max_stream_data" => m.v <= recv'[m.s].max_bytes
  BY Zenon
<1> QED BY <1>1, <1>2, <1>3, CoveredKept, Zenon

LEMMA DataCovered ==
  ASSUME IInv, IInv', Ledger, Covered, NEW m \in net, DeliverData(m)
  PROVE  Covered'
<1> DEFINE s == m.s
           off == m.off + m.len
           new == IF off > recv[s].highest THEN off - recv[s].highest ELSE 0
           over == \/ inq.highest + new > inq.max_bytes
                   \/ recv[s].highest + new > recv[s].max_bytes
<1>1. m \in Frame /\ m.t = "data"
  BY Zenon DEF IInv, NetInv, DeliverData
<1>2. /\ s \in Streams /\ off \in Nat /\ new \in Nat
      /\ outq' = outq /\ send' = send /\ pressure' = pressure /\ inq'.max_bytes = inq.max_bytes
      /\ \A d \in Streams : recv'[d].max_bytes = recv[d].max_bytes
      /\ error' = error \/ (new > 0 /\ over)
  BY <1>1, DataEffect, Zenon
<1>3. off <= send[s].bytes
  BY <1>1, Zenon DEF Ledger
<1>4. ~(new > 0 /\ over)
  <2> SUFFICES ASSUME off > recv[s].highest PROVE ~over
    BY <1>2, CounterTypes
  <2> HIDE DEF off, s
  <2>1. inq.highest + (off - recv[s].highest) <= inq.max_bytes /\ off <= recv[s].max_bytes
    BY <1>2, <1>3, WithinWindow, Zenon
  <2>2. new = off - recv[s].highest
    BY Zenon
  <2> HIDE DEF new
  <2> QED BY <1>2, <2>1, <2>2, CounterTypes
<1>5. net' \subseteq net
  BY Zenon DEF DeliverData, Consumed
<1> HIDE DEF new, over
<1> QED BY <1>2, <1>4, <1>5, StillCovered, Zenon

LEMMA ArriveCovered ==
  ASSUME IInv, IInv', Ledger, Covered, NEW m \in net, Deliver(m)
  PROVE  Covered'
<1>1. m \in Frame /\ ~pressure /\ ~error
  BY Zenon DEF IInv, NetInv, Covered
<1>2. CASE DeliverData(m)
  BY <1>2, DataCovered, Zenon
<1>3. CASE DeliverMaxData(m)
  <2>1. net' \subseteq net /\ m.v <= inq.max_bytes
    BY <1>3, Zenon DEF DeliverMaxData, Consumed, Covered
  <2>2. outq'.max_bytes <= inq.max_bytes
    BY <1>1, <1>3, <2>1, MaxDataEffect, Zenon DEF Covered
  <2>3. send' = send /\ inq' = inq /\ recv' = recv /\ pressure' = pressure /\ error' = error
    BY <1>1, <1>3, MaxDataEffect, Zenon
  <2> QED BY <1>1, <2>1, <2>2, <2>3, CoveredKept, CounterTypes, Zenon DEF Covered
<1>4. CASE DeliverMaxStreamData(m)
  <2>1. net' \subseteq net /\ m.v <= recv[m.s].max_bytes
    BY <1>4, Zenon DEF DeliverMaxStreamData, Consumed, Covered
  <2>2. \A d \in Streams : send'[d].max_bytes <= recv[d].max_bytes
    BY <1>1, <1>4, <2>1, MaxStreamDataEffect, Zenon DEF Covered
  <2>3. outq' = outq /\ inq' = inq /\ recv' = recv /\ pressure' = pressure /\ error' = error
    BY <1>1, <1>4, MaxStreamDataEffect, Zenon
  <2> QED BY <1>1, <2>1, <2>2, <2>3, CoveredKept, CounterTypes, Zenon DEF Covered
<1>5. CASE DeliverDataBlocked(m)
  <2> DEFINE v == inq'.max_bytes
  <2>1. /\ Consumed(m, {[t |-> "max_data", v |-> v]})
        /\ v = limit(inq, max_data)
        /\ outq' = outq /\ send' = send /\ recv' = recv /\ pressure' = pressure /\ error' = error
    BY <1>1, <1>5, DataBlockedEffect, Zenon
  <2>2. v >= inq.max_bytes /\ v \in Nat
    <3>1. inq.max_bytes <= inq.bytes + max_data
      BY Zenon DEF IInv, ReceiverInv, Offered
    <3> QED BY <1>1, <2>1, <3>1, LimitGrows, LimitBound, CounterTypes, Constants, Zenon
  <2> HIDE DEF v
  <2>3. \A f \in net' : f \in net \/ /\ f.t = "max_data" => f.v <= v
                                     /\ f.t = "max_stream_data" => f.v <= recv'[f.s].max_bytes
    BY <2>1, <2>2, SMTT(20) DEF Consumed
  <2> QED BY <1>1, <2>1, <2>2, <2>3, CoveredKept, CounterTypes DEF Covered, v
<1>6. CASE DeliverStreamDataBlocked(m)
  <2> DEFINE s == m.s
             v == limit(recv[s], stream_window)
             max == [t |-> "max_stream_data", s |-> s, v |-> v]
  <2>1. /\ s \in Streams
        /\ outq' = outq /\ send' = send /\ inq' = inq /\ pressure' = pressure /\ error' = error
        /\ \/ recv' = recv /\ Consumed(m, {})
           \/ /\ recv'[s].max_bytes = v /\ \A d \in Streams \ {s} : recv'[d] = recv[d]
              /\ Consumed(m, {max})
    BY <1>1, <1>6, StreamDataBlockedEffect, ZenonT(40)
  <2>2. v >= recv[s].max_bytes /\ v \in Nat
    <3>1. recv[s].max_bytes <= recv[s].bytes + stream_window
      BY <2>1, Zenon DEF IInv, ReceiverInv, Offered
    <3>2. /\ recv[s].bytes \in Nat /\ recv[s].max_bytes \in Nat /\ stream_window \in Nat
      BY <2>1, CounterTypes, Constants, Zenon
    <3> QED BY <1>1, <3>1, <3>2, LimitGrows, LimitBound, Zenon
  <2> HIDE DEF v, s
  <2>3. \A d \in Streams : recv'[d].max_bytes >= recv[d].max_bytes
    BY <2>1, <2>2, CounterTypes
  <2>4. \A f \in net' : f \in net \/ /\ f.t = "max_data" => f.v <= inq'.max_bytes
                                     /\ f.t = "max_stream_data" => f.v <= recv'[f.s].max_bytes
    <3>1. CASE Consumed(m, {})
      BY <3>1 DEF Consumed
    <3>2. CASE recv'[s].max_bytes = v /\ Consumed(m, {max})
      BY <2>2, <3>2 DEF Consumed
    <3> QED BY <2>1, <3>1, <3>2, Zenon
  <2>5. /\ ~pressure' /\ ~error' /\ inq'.max_bytes >= inq.max_bytes
        /\ outq'.max_bytes <= inq.max_bytes
        /\ \A d \in Streams : send'[d].max_bytes <= recv[d].max_bytes
    BY <2>1, CounterTypes DEF Covered
  <2> QED BY <1>1, <2>3, <2>4, <2>5, CoveredKept, Zenon
<1>8. CASE DeliverReset(m)
  <2>1. /\ net' \subseteq net /\ m.s \in Streams /\ outq' = outq /\ send' = send /\ inq' = inq
        /\ pressure' = pressure /\ error' = error
    BY <1>1, <1>8, FrameRead, Zenon DEF DeliverReset, Consumed
  <2>2. \A d \in Streams : recv'[d].max_bytes = recv[d].max_bytes
    BY <1>8, <2>1, StateEffect, Zenon DEF DeliverReset
  <2> QED BY <2>1, <2>2, StillCovered, Zenon
<1>9. CASE DeliverStop(m)
  <2>1. m.s \in Streams /\ Reset(m.s) /\ Consumed(m, {[t |-> "reset", s |-> m.s]})
    BY <1>1, <1>9, FrameRead, Zenon DEF DeliverStop
  <2>2. \A f \in net' : f \in net \/ f.t \notin {"max_data", "max_stream_data"}
    BY <2>1 DEF Consumed
  <2>3. /\ outq' = outq /\ inq' = inq /\ recv' = recv /\ pressure' = pressure /\ error' = error
        /\ \A d \in Streams : send'[d].max_bytes = send[d].max_bytes
    BY <2>1, ResetEffect, Zenon
  <2> QED BY <2>2, <2>3, StillCovered, Zenon
<1> QED BY <1>2, <1>3, <1>4, <1>5, <1>6, <1>8, <1>9, Zenon DEF Deliver

LEMMA NextCovered ==
  ASSUME ~MayPress, IInv, IInv', Ledger, Covered, [Next]_vars
  PROVE  Covered'
<1>1. ASSUME NEW s \in Streams, NEW n \in 1..MaxFrame, Send(s, n) PROVE Covered'
  <2>1. outq \in Sender /\ send \in [Streams -> SendType] /\ send[s] \in SendType
    BY Zenon DEF IInv, SenderInv
  <2>2. /\ outq'.max_bytes = outq.max_bytes /\ inq' = inq /\ recv' = recv
        /\ pressure' = pressure /\ error' = error
        /\ \A d \in Streams : send'[d].max_bytes = send[d].max_bytes
    BY <1>1, <2>1, Zenon DEF Send, Sender, SendType
  <2>3. \A f \in net' : f \in net \/ f.t \notin {"max_data", "max_stream_data"}
    BY <1>1 DEF Send
  <2> QED BY <2>2, <2>3, StillCovered, Zenon
<1>2. ASSUME NEW s \in Streams, Block(s) PROVE Covered'
  <2>1. /\ outq'.max_bytes = outq.max_bytes /\ inq' = inq /\ recv' = recv
        /\ net' = net /\ pressure' = pressure /\ error' = error
        /\ \A d \in Streams : send'[d].max_bytes = send[d].max_bytes
    BY <1>2, BlockEffect, Zenon
  <2> QED BY <2>1, StillCovered, Zenon
<1>9. ASSUME NEW s \in Streams, Announce(s) PROVE Covered'
  <2>1. \A f \in net' : f \in net \/ f.t \notin {"max_data", "max_stream_data"}
    BY <1>9, AnnounceEffect
  <2> QED BY <1>9, <2>1, AnnounceEffect, StillCovered, Zenon
<1>3. CASE Consume
  BY <1>3, ReadCovered, Zenon DEF Consume
<1>4. CASE Arrive
  BY <1>4, ArriveCovered, Zenon DEF Arrive
<1>5. ~Pressure
  BY Zenon DEF Pressure
<1>6. ASSUME NEW s \in Streams, AppReset(s) PROVE Covered'
  <2>1. Reset(s) /\ net' = net \cup {[t |-> "reset", s |-> s]}
    BY <1>6, Zenon DEF AppReset
  <2>2. \A f \in net' : f \in net \/ f.t \notin {"max_data", "max_stream_data"}
    BY <2>1
  <2>3. /\ outq' = outq /\ inq' = inq /\ recv' = recv /\ pressure' = pressure /\ error' = error
        /\ \A d \in Streams : send'[d].max_bytes = send[d].max_bytes
    BY <2>1, ResetEffect, Zenon
  <2> QED BY <2>2, <2>3, StillCovered, Zenon
<1>7. ASSUME NEW s \in Streams, StopSending(s) PROVE Covered'
  <2>1. \A f \in net' : f \in net \/ f.t \notin {"max_data", "max_stream_data"}
    BY <1>7 DEF StopSending
  <2>2. \A d \in Streams : recv'[d].max_bytes = recv[d].max_bytes
    BY <1>7, StateEffect, Zenon DEF StopSending
  <2>3. outq' = outq /\ send' = send /\ inq' = inq /\ pressure' = pressure /\ error' = error
    BY <1>7, Zenon DEF StopSending
  <2> QED BY <2>1, <2>2, <2>3, StillCovered, Zenon
<1>8. CASE UNCHANGED vars
  BY <1>8, StillCovered, Zenon DEF vars
<1> QED BY <1>1, <1>2, <1>3, <1>4, <1>5, <1>6, <1>7, <1>8, <1>9, Zenon
        DEF Next, Write, Wait, Abandon

(* quic_inq_stream_recv never answers a sender that keeps to the limits it    *)
(* was sent with FLOW_CONTROL_ERROR, whatever is reordered, repeated, lost or *)
(* abandoned, as long as the receiver is not under memory pressure (which     *)
(* lowers a limit that was already given).                                    *)
THEOREM NoErrorWithoutPressure == ~MayPress => (Spec => []NoFlowError)
<1> SUFFICES ASSUME ~MayPress PROVE Spec => []NoFlowError
  BY Zenon
<1>1. IInv /\ IInv' /\ Ledger /\ Covered /\ [Next]_vars => Covered'
  BY NextCovered, Zenon
<1>2. Covered => NoFlowError
  BY Zenon DEF Covered, NoFlowError
<1> QED BY <1>1, <1>2, InitIInv, NextIInv, InitLedger, NextLedger, InitCovered, PTL DEF Spec
-------------------------------------------------------------------------------
(* A level's limit is always ahead of what was read of it, although it moves  *)
(* only when enough was read, and the sender has it or the frame that tells   *)
(* it is on the way.                                                          *)
ConnCredit ==
    /\ inq.bytes < inq.max_bytes
    /\ \/ inq.max_bytes <= outq.max_bytes
       \/ \E m \in net : m.t = "max_data" /\ m.v = inq.max_bytes

StreamCredit(s) ==
    /\ recv[s].bytes < recv[s].max_bytes
    /\ \/ recv[s].max_bytes <= send[s].max_bytes
       \/ \E m \in net : m.t = "max_stream_data" /\ m.s = s /\ m.v = recv[s].max_bytes

Credit == ConnCredit /\ \A s \in Streams : StreamCredit(s)

(* What CreditReturns needs: no limit update fails to be sent, and a window   *)
(* of two bytes (half of it must be a byte) and of a packet at least.         *)
WideWindows ==
    /\ ~MayFail
    /\ max_data >= 2 /\ max_data >= mss
    /\ stream_window >= 2 /\ stream_window >= mss

LEMMA LimitAhead ==
  ASSUME NEW l, NEW window \in Nat, l.bytes \in Nat, window >= 2
  PROVE  l.bytes < limit(l, window)
<1>1. window \div 2 \in Nat /\ window \div 2 >= 1
  OBVIOUS
<1> QED BY <1>1 DEF limit

(* The threshold of quic_inq_flow_control is never more than the window.      *)
LEMMA NotDueAhead ==
  ASSUME NEW l, NEW window \in Nat, l.bytes \in Nat, l.max_bytes \in Nat, window >= mss,
         ~due(l, window)
  PROVE  l.bytes < l.max_bytes
<1> DEFINE q == window \div 16
           t == Max({mss, q})
<1>1. q \in Nat /\ q <= window /\ mss \in Nat
  BY Constants
<1>2. t \in {mss, q}
  <2>1. \E x \in {mss, q} : \A y \in {mss, q} : x >= y
    BY <1>1
  <2> QED BY <2>1, Zenon DEF Max
<1>3. ~(l.bytes + window - l.max_bytes >= t)
  BY Zenon DEF due
<1> HIDE DEF t, q
<1> QED BY <1>1, <1>2, <1>3

LEMMA RaisedAhead ==
  /\ \A l \in InqType, window \in Nat :
       window >= 2 /\ window >= mss => raised(l, window).bytes < raised(l, window).max_bytes
  /\ \A l \in RecvType, window \in Nat :
       window >= 2 /\ window >= mss => raised(l, window).bytes < raised(l, window).max_bytes
<1>1. ASSUME NEW l \in InqType, NEW window \in Nat, window >= 2, window >= mss
      PROVE  raised(l, window).bytes < raised(l, window).max_bytes
  <2>1. l.bytes \in Nat /\ l.max_bytes \in Nat
    BY Zenon DEF InqType
  <2>2. CASE due(l, window)
    <3>1. /\ raised(l, window).bytes = l.bytes
          /\ raised(l, window).max_bytes = limit(l, window)
      BY <2>2, Zenon DEF raised, InqType
    <3> QED BY <1>1, <2>1, <3>1, LimitAhead, Zenon
  <2>3. CASE ~due(l, window)
    BY <1>1, <2>1, <2>3, NotDueAhead, Zenon DEF raised
  <2> QED BY <2>2, <2>3, Zenon
<1>2. ASSUME NEW l \in RecvType, NEW window \in Nat, window >= 2, window >= mss
      PROVE  raised(l, window).bytes < raised(l, window).max_bytes
  <2>1. l.bytes \in Nat /\ l.max_bytes \in Nat
    BY Zenon DEF RecvType
  <2>2. CASE due(l, window)
    <3>1. /\ raised(l, window).bytes = l.bytes
          /\ raised(l, window).max_bytes = limit(l, window)
      BY <2>2, Zenon DEF raised, RecvType
    <3> QED BY <1>2, <2>1, <3>1, LimitAhead, Zenon
  <2>3. CASE ~due(l, window)
    BY <1>2, <2>1, <2>3, NotDueAhead, Zenon DEF raised
  <2> QED BY <2>2, <2>3, Zenon
<1> QED BY <1>1, <1>2, Zenon

LEMMA InitCredit == WideWindows /\ Init => Credit
  BY Constants DEF WideWindows, Init, Credit, ConnCredit, StreamCredit

(* What keeps a level's credit: neither limit moves, and no update is lost.   *)
LEMMA StreamKept ==
  ASSUME NEW s \in Streams, StreamCredit(s), recv'[s].bytes = recv[s].bytes,
         recv'[s].max_bytes = recv[s].max_bytes, send'[s].max_bytes = send[s].max_bytes,
         \A m \in net : m.t = "max_stream_data" => m \in net'
  PROVE  StreamCredit(s)'
<1>1. CASE recv[s].max_bytes <= send[s].max_bytes
  BY <1>1, Zenon DEF StreamCredit
<1>2. CASE \E m \in net : m.t = "max_stream_data" /\ m.s = s /\ m.v = recv[s].max_bytes
  <2>1. \E m \in net' : m.t = "max_stream_data" /\ m.s = s /\ m.v = recv'[s].max_bytes
    BY <1>2, Zenon
  <2> QED BY <2>1, Zenon DEF StreamCredit
<1> QED BY <1>1, <1>2, Zenon DEF StreamCredit

LEMMA ConnKept ==
  ASSUME ConnCredit, inq'.bytes = inq.bytes, inq'.max_bytes = inq.max_bytes,
         outq'.max_bytes = outq.max_bytes, \A m \in net : m.t = "max_data" => m \in net'
  PROVE  ConnCredit'
<1>1. CASE inq.max_bytes <= outq.max_bytes
  BY <1>1, Zenon DEF ConnCredit
<1>2. CASE \E m \in net : m.t = "max_data" /\ m.v = inq.max_bytes
  <2>1. \E m \in net' : m.t = "max_data" /\ m.v = inq'.max_bytes
    BY <1>2, Zenon
  <2> QED BY <2>1, Zenon DEF ConnCredit
<1> QED BY <1>1, <1>2, Zenon DEF ConnCredit

LEMMA StillCredit ==
  ASSUME Credit, inq'.bytes = inq.bytes, inq'.max_bytes = inq.max_bytes,
         outq'.max_bytes = outq.max_bytes,
         \A s \in Streams : /\ recv'[s].bytes = recv[s].bytes
                            /\ recv'[s].max_bytes = recv[s].max_bytes
                            /\ send'[s].max_bytes = send[s].max_bytes,
         \A m \in net : m.t \in {"max_data", "max_stream_data"} => m \in net'
  PROVE  Credit'
<1>1. ConnCredit'
  BY ConnKept, Zenon DEF Credit
<1>2. ASSUME NEW s \in Streams PROVE StreamCredit(s)'
  BY StreamKept, Zenon DEF Credit
<1> QED BY <1>1, <1>2, Zenon DEF Credit

(* quic_recvmsg: either level's limit stays, or it moves and is announced.    *)
LEMMA ReadCredit ==
  ASSUME WideWindows, IInv, Credit, NEW s \in Streams, NEW n \in 1..readable(s), Read(s, n)
  PROVE  Credit'
<1> DEFINE conn == [inq EXCEPT !.bytes = @ + n]
           strm == [recv[s] EXCEPT !.bytes = @ + n]
           v == limit(conn, max_data)
           w == limit(strm, stream_window)
<1>1. /\ n \in Nat /\ \A d \in Streams \ {s} : recv'[d] = recv[d]
      /\ outq' = outq /\ send' = send
  BY ReadEffect, Zenon
<1>2. inq \in InqType /\ recv \in [Streams -> RecvType] /\ recv[s] \in RecvType
  BY Zenon DEF IInv, ReceiverInv
<1>3. conn \in InqType /\ conn.max_bytes = inq.max_bytes
  BY <1>1, <1>2 DEF InqType
<1>4. strm \in RecvType /\ strm.max_bytes = recv[s].max_bytes
  BY <1>1, <1>2 DEF RecvType
<1>5. inq' = raised(conn, max_data) /\ recv' = [recv EXCEPT ![s] = raised(strm, stream_window)]
  BY Zenon DEF Read
<1>6. /\ net \subseteq net'
      /\ due(conn, max_data) => [t |-> "max_data", v |-> v] \in net'
      /\ due(strm, stream_window) => [t |-> "max_stream_data", s |-> s, v |-> w] \in net'
  BY Zenon DEF Read, WideWindows
<1> HIDE DEF conn, strm, v, w
<1>7. recv'[s] = raised(strm, stream_window)
  BY <1>2, <1>5, Zenon
<1>8. inq'.bytes < inq'.max_bytes /\ recv'[s].bytes < recv'[s].max_bytes
  BY <1>3, <1>4, <1>5, <1>7, RaisedAhead, Constants, Zenon DEF WideWindows
<1>9. ConnCredit'
  <2>1. CASE due(conn, max_data)
    <3>1. inq'.max_bytes = v
      BY <1>3, <1>5, <2>1, Zenon DEF raised, v, InqType
    <3>2. \E m \in net' : m.t = "max_data" /\ m.v = inq'.max_bytes
      BY <1>6, <2>1, <3>1, Zenon
    <3> QED BY <1>8, <3>2, Zenon DEF ConnCredit
  <2>2. CASE ~due(conn, max_data)
    <3>1. inq'.max_bytes = inq.max_bytes
      BY <1>3, <1>5, <2>2, Zenon DEF raised
    <3>2. \/ inq'.max_bytes <= outq'.max_bytes
          \/ \E m \in net' : m.t = "max_data" /\ m.v = inq'.max_bytes
      BY <1>1, <1>6, <3>1, Zenon DEF Credit, ConnCredit
    <3> QED BY <1>8, <3>2, Zenon DEF ConnCredit
  <2> QED BY <2>1, <2>2, Zenon
<1>10. StreamCredit(s)'
  <2>1. CASE due(strm, stream_window)
    <3>1. recv'[s].max_bytes = w
      BY <1>4, <1>7, <2>1, Zenon DEF raised, w, RecvType
    <3>2. \E m \in net' : m.t = "max_stream_data" /\ m.s = s /\ m.v = recv'[s].max_bytes
      BY <1>6, <2>1, <3>1, Zenon
    <3> QED BY <1>8, <3>2, Zenon DEF StreamCredit
  <2>2. CASE ~due(strm, stream_window)
    <3>1. recv'[s].max_bytes = recv[s].max_bytes
      BY <1>4, <1>7, <2>2, Zenon DEF raised
    <3>2. CASE recv[s].max_bytes <= send[s].max_bytes
      BY <1>1, <1>8, <3>1, <3>2, Zenon DEF StreamCredit
    <3>3. CASE \E m \in net : m.t = "max_stream_data" /\ m.s = s /\ m.v = recv[s].max_bytes
      <4>1. \E m \in net' : m.t = "max_stream_data" /\ m.s = s /\ m.v = recv'[s].max_bytes
        BY <1>6, <3>1, <3>3, Zenon
      <4> QED BY <1>8, <4>1, Zenon DEF StreamCredit
    <3> QED BY <3>2, <3>3, Zenon DEF Credit, StreamCredit
  <2> QED BY <2>1, <2>2, Zenon
<1>11. ASSUME NEW d \in Streams, d # s PROVE StreamCredit(d)'
  <2>1. recv'[d] = recv[d] /\ send' = send /\ StreamCredit(d)
    BY <1>1, <1>11, Zenon DEF Credit
  <2> QED BY <1>6, <2>1, StreamKept, Zenon
<1> QED BY <1>9, <1>10, <1>11, Zenon DEF Credit

LEMMA ArriveCredit ==
  ASSUME WideWindows, IInv, Credit, NEW m \in net, Deliver(m)
  PROVE  Credit'
<1>1. m \in Frame
  BY Zenon DEF IInv, NetInv
<1>2. CASE DeliverData(m)
  <2>1. /\ outq' = outq /\ send' = send /\ inq'.max_bytes = inq.max_bytes
        /\ inq'.bytes = inq.bytes
        /\ \A d \in Streams : recv'[d].max_bytes = recv[d].max_bytes /\ recv'[d].bytes = recv[d].bytes
    BY <1>1, <1>2, DataEffect, Zenon
  <2>2. \A f \in net : f.t \in {"max_data", "max_stream_data"} => f \in net'
    BY <1>2, Zenon DEF DeliverData, Consumed
  <2> QED BY <2>1, <2>2, StillCredit, Zenon
<1>3. CASE DeliverMaxData(m)
  <2>1. /\ send' = send /\ inq' = inq /\ recv' = recv
        /\ outq'.max_bytes = IF m.v > outq.max_bytes THEN m.v ELSE outq.max_bytes
    BY <1>1, <1>3, MaxDataEffect, Zenon
  <2>2. m.t = "max_data" /\ m.v \in Nat /\ \A f \in net : f # m => f \in net'
    BY <1>1, <1>3, FrameRead, Zenon DEF DeliverMaxData, Consumed
  <2>3. outq'.max_bytes >= outq.max_bytes /\ outq'.max_bytes >= m.v
    BY <2>1, <2>2, CounterTypes
  <2>4. \/ inq.max_bytes <= outq'.max_bytes
        \/ \E f \in net' : f.t = "max_data" /\ f.v = inq.max_bytes
    <3>1. CASE inq.max_bytes <= outq.max_bytes
      <4>1. outq'.max_bytes \in Nat
        BY <2>1, <2>2, CounterTypes, Zenon
      <4> QED BY <2>3, <3>1, <4>1, CounterTypes
    <3>2. ASSUME NEW f \in net, f.t = "max_data", f.v = inq.max_bytes
          PROVE  \/ inq.max_bytes <= outq'.max_bytes
                 \/ \E g \in net' : g.t = "max_data" /\ g.v = inq.max_bytes
      <4>1. CASE f = m
        <5>1. inq.max_bytes = m.v
          BY <3>2, <4>1, Zenon
        <5> QED BY <2>1, <2>2, <2>3, <5>1, CounterTypes
      <4>2. CASE f # m
        BY <2>2, <3>2, <4>2, Zenon
      <4> QED BY <4>1, <4>2, Zenon
    <3> QED BY <3>1, <3>2, Zenon DEF Credit, ConnCredit
  <2>5. ConnCredit'
    BY <2>1, <2>4, Zenon DEF Credit, ConnCredit
  <2>6. ASSUME NEW d \in Streams PROVE StreamCredit(d)'
    BY <2>1, <2>2, StreamKept, Zenon DEF Credit
  <2> QED BY <2>5, <2>6, Zenon DEF Credit
<1>4. CASE DeliverMaxStreamData(m)
  <2> DEFINE s == m.s
  <2>1. /\ outq' = outq /\ inq' = inq /\ recv' = recv /\ s \in Streams
        /\ \A d \in Streams : d # s => send'[d].max_bytes = send[d].max_bytes
        /\ send'[s].max_bytes = IF m.v > send[s].max_bytes THEN m.v ELSE send[s].max_bytes
    BY <1>1, <1>4, MaxStreamDataEffect, Zenon
  <2>2. m.t = "max_stream_data" /\ m.v \in Nat /\ \A f \in net : f # m => f \in net'
    BY <1>1, <1>4, FrameRead, Zenon DEF DeliverMaxStreamData, Consumed
  <2> HIDE DEF s
  <2>3. send'[s].max_bytes >= send[s].max_bytes /\ send'[s].max_bytes >= m.v
    BY <2>1, <2>2, CounterTypes
  <2>4. ASSUME NEW d \in Streams
        PROVE  \/ recv[d].max_bytes <= send'[d].max_bytes
               \/ \E f \in net' : f.t = "max_stream_data" /\ f.s = d /\ f.v = recv[d].max_bytes
    <3>1. CASE recv[d].max_bytes <= send[d].max_bytes
      <4>1. CASE d = s
        <5>1. send'[s].max_bytes \in Nat
          BY <2>1, <2>2, CounterTypes, Zenon
        <5> QED BY <2>1, <2>3, <3>1, <4>1, <5>1, CounterTypes
      <4>2. CASE d # s
        BY <2>1, <3>1, <4>2, Zenon
      <4> QED BY <4>1, <4>2, Zenon
    <3>2. ASSUME NEW f \in net, f.t = "max_stream_data", f.s = d, f.v = recv[d].max_bytes
          PROVE  \/ recv[d].max_bytes <= send'[d].max_bytes
                 \/ \E g \in net' : g.t = "max_stream_data" /\ g.s = d /\ g.v = recv[d].max_bytes
      <4>1. CASE f = m
        <5>1. d = s /\ recv[d].max_bytes = m.v
          BY <3>2, <4>1, Zenon DEF s
        <5> QED BY <2>1, <2>2, <2>3, <5>1, CounterTypes
      <4>2. CASE f # m
        BY <2>2, <3>2, <4>2, Zenon
      <4> QED BY <4>1, <4>2, Zenon
    <3> QED BY <3>1, <3>2, Zenon DEF Credit, StreamCredit
  <2>5. ASSUME NEW d \in Streams PROVE StreamCredit(d)'
    BY <2>1, <2>4, Zenon DEF Credit, StreamCredit
  <2>6. ConnCredit'
    BY <2>1, <2>2, ConnKept, Zenon DEF Credit
  <2> QED BY <2>5, <2>6, Zenon DEF Credit
<1>5. CASE DeliverDataBlocked(m)
  <2> DEFINE v == inq'.max_bytes
  <2>1. /\ Consumed(m, {[t |-> "max_data", v |-> v]}) /\ m.t = "data_blocked"
        /\ v = limit(inq, max_data) /\ inq'.bytes = inq.bytes
        /\ outq' = outq /\ send' = send /\ recv' = recv
    BY <1>1, <1>5, DataBlockedEffect, Zenon DEF DeliverDataBlocked
  <2>2. inq'.bytes < v
    BY <2>1, LimitAhead, CounterTypes, Constants, Zenon DEF WideWindows
  <2> HIDE DEF v
  <2>3. [t |-> "max_data", v |-> v] \in net' /\ \A f \in net : f # m => f \in net'
    BY <2>1, Zenon DEF Consumed
  <2>4. ASSUME NEW d \in Streams PROVE StreamCredit(d)'
    BY <2>1, <2>3, StreamKept, Zenon DEF Credit
  <2>5. \E f \in net' : f.t = "max_data" /\ f.v = v
    BY <2>3, Zenon
  <2>6. ConnCredit'
    BY <2>1, <2>2, <2>5, Zenon DEF ConnCredit, v
  <2> QED BY <2>4, <2>6, Zenon DEF Credit
<1>6. CASE DeliverStreamDataBlocked(m)
  <2> DEFINE s == m.s
             v == limit(recv[s], stream_window)
             max == [t |-> "max_stream_data", s |-> s, v |-> v]
  <2>1. /\ s \in Streams /\ m.t = "stream_data_blocked"
        /\ outq' = outq /\ send' = send /\ inq' = inq
        /\ \A d \in Streams : recv'[d].bytes = recv[d].bytes
        /\ \/ recv' = recv /\ Consumed(m, {})
           \/ /\ recv'[s].max_bytes = v /\ \A d \in Streams \ {s} : recv'[d] = recv[d]
              /\ Consumed(m, {max})
    BY <1>1, <1>6, StreamDataBlockedEffect, ZenonT(40) DEF DeliverStreamDataBlocked
  <2>2. recv[s].bytes < v
    BY <2>1, LimitAhead, CounterTypes, Constants, Zenon DEF WideWindows
  <2> HIDE DEF v, s
  <2>3. CASE recv' = recv /\ Consumed(m, {})
    <3>1. \A f \in net : f.t \in {"max_data", "max_stream_data"} => f \in net'
      BY <2>1, <2>3, Zenon DEF Consumed
    <3> QED BY <2>1, <2>3, <3>1, StillCredit, Zenon
  <2>4. CASE /\ recv'[s].max_bytes = v /\ \A d \in Streams \ {s} : recv'[d] = recv[d]
             /\ Consumed(m, {max})
    <3>1. max \in net' /\ \A f \in net : f # m => f \in net'
      BY <2>4, Zenon DEF Consumed
    <3>2. ASSUME NEW d \in Streams, d # s PROVE StreamCredit(d)'
      <4>1. recv'[d] = recv[d] /\ send' = send /\ StreamCredit(d)
        BY <2>1, <2>4, <3>2, Zenon DEF Credit
      <4> QED BY <2>1, <3>1, <4>1, StreamKept, Zenon
    <3>3. StreamCredit(s)'
      <4>1. \E f \in net' : f.t = "max_stream_data" /\ f.s = s /\ f.v = recv'[s].max_bytes
        BY <2>4, <3>1, Zenon
      <4> QED BY <2>1, <2>2, <2>4, <4>1, Zenon DEF StreamCredit
    <3>4. ConnCredit'
      BY <2>1, <3>1, ConnKept, Zenon DEF Credit
    <3> QED BY <3>2, <3>3, <3>4, Zenon DEF Credit
  <2> QED BY <2>1, <2>3, <2>4, Zenon
<1>7. CASE DeliverReset(m)
  <2>1. /\ m.s \in Streams /\ outq' = outq /\ send' = send /\ inq' = inq
        /\ \A f \in net : f.t \in {"max_data", "max_stream_data"} => f \in net'
    BY <1>1, <1>7, FrameRead, Zenon DEF DeliverReset, Consumed
  <2>2. \A d \in Streams : recv'[d].bytes = recv[d].bytes /\ recv'[d].max_bytes = recv[d].max_bytes
    BY <1>7, <2>1, StateEffect, Zenon DEF DeliverReset
  <2> QED BY <2>1, <2>2, StillCredit, Zenon
<1>8. CASE DeliverStop(m)
  <2>1. /\ m.s \in Streams /\ Reset(m.s)
        /\ \A f \in net : f.t \in {"max_data", "max_stream_data"} => f \in net'
    BY <1>1, <1>8, FrameRead, Zenon DEF DeliverStop, Consumed
  <2>2. /\ outq' = outq /\ inq' = inq /\ recv' = recv
        /\ \A d \in Streams : send'[d].max_bytes = send[d].max_bytes
    BY <2>1, ResetEffect, Zenon
  <2> QED BY <2>1, <2>2, StillCredit, Zenon
<1> QED BY <1>2, <1>3, <1>4, <1>5, <1>6, <1>7, <1>8, Zenon DEF Deliver

LEMMA NextCredit ==
  ASSUME WideWindows, IInv, Credit, [Next]_vars
  PROVE  Credit'
<1>1. ASSUME NEW s \in Streams, NEW n \in 1..MaxFrame, Send(s, n) PROVE Credit'
  <2>1. outq \in Sender /\ send \in [Streams -> SendType] /\ send[s] \in SendType
    BY Zenon DEF IInv, SenderInv
  <2>2. /\ outq'.max_bytes = outq.max_bytes /\ inq' = inq /\ recv' = recv /\ net \subseteq net'
        /\ \A d \in Streams : send'[d].max_bytes = send[d].max_bytes
    BY <1>1, <2>1, Zenon DEF Send, Sender, SendType
  <2> QED BY <2>2, StillCredit, Zenon
<1>2. ASSUME NEW s \in Streams, Block(s) PROVE Credit'
  <2>1. /\ outq'.max_bytes = outq.max_bytes /\ inq' = inq /\ recv' = recv /\ net' = net
        /\ \A d \in Streams : send'[d].max_bytes = send[d].max_bytes
    BY <1>2, BlockEffect, Zenon
  <2> QED BY <2>1, StillCredit, Zenon
<1>3. ASSUME NEW s \in Streams, Announce(s) PROVE Credit'
  <2>1. outq' = outq /\ send' = send /\ inq' = inq /\ recv' = recv /\ net \subseteq net'
    BY <1>3, AnnounceEffect, Zenon
  <2> QED BY <2>1, StillCredit, Zenon
<1>4. CASE Consume
  BY <1>4, ReadCredit, Zenon DEF Consume
<1>5. CASE Arrive
  BY <1>5, ArriveCredit, Zenon DEF Arrive
<1>6. CASE Pressure
  BY <1>6, StillCredit, Zenon DEF Pressure
<1>7. ASSUME NEW s \in Streams, AppReset(s) PROVE Credit'
  <2>1. Reset(s) /\ net \subseteq net'
    BY <1>7, Zenon DEF AppReset
  <2>2. /\ outq' = outq /\ inq' = inq /\ recv' = recv
        /\ \A d \in Streams : send'[d].max_bytes = send[d].max_bytes
    BY <2>1, ResetEffect, Zenon
  <2> QED BY <2>1, <2>2, StillCredit, Zenon
<1>8. ASSUME NEW s \in Streams, StopSending(s) PROVE Credit'
  <2>1. outq' = outq /\ send' = send /\ inq' = inq /\ net \subseteq net'
    BY <1>8, Zenon DEF StopSending
  <2>2. \A d \in Streams : recv'[d].bytes = recv[d].bytes /\ recv'[d].max_bytes = recv[d].max_bytes
    BY <1>8, StateEffect, Zenon DEF StopSending
  <2> QED BY <2>1, <2>2, StillCredit, Zenon
<1>9. CASE UNCHANGED vars
  BY <1>9, StillCredit, Zenon DEF vars
<1> QED BY <1>1, <1>2, <1>3, <1>4, <1>5, <1>6, <1>7, <1>8, <1>9, Zenon
        DEF Next, Write, Wait, Abandon

(* When nothing is on the way and all that was sent was read, the sender may  *)
(* send again at both levels: quic_inq_flow_control puts its updates off      *)
(* until max(mss, window >> 4) bytes were read, but never until the sender    *)
(* has nothing left.  It holds for any streams, any windows of at least a     *)
(* packet, any order and repetition of frames and any memory pressure, as     *)
(* long as the updates can be allocated.                                      *)
THEOREM SenderNotStarved == WideWindows => (Spec => []CreditReturns)
<1> SUFFICES ASSUME WideWindows PROVE Spec => []CreditReturns
  BY Zenon
<1>1. Init => Credit
  BY InitCredit, Zenon
<1>2. IInv /\ Credit /\ [Next]_vars => Credit'
  BY NextCredit, Zenon
<1>3. ASSUME IInv, Ledger, Credit PROVE CreditReturns
  <2> SUFFICES ASSUME net = {}, \A s \in Streams : recv[s].bytes = send[s].bytes
               PROVE  ~blocked(outq) /\ \A s \in Streams : ~blocked(send[s])
    BY Zenon DEF CreditReturns
  <2>1. Delivered = Sent
    BY Zenon DEF Delivered, Sent
  <2>2. inq.bytes = outq.bytes
    BY <1>3, <2>1, Zenon DEF Ledger
  <2>3. inq.bytes < inq.max_bytes /\ inq.max_bytes <= outq.max_bytes
    BY <1>3, Zenon DEF Credit, ConnCredit
  <2>4. ~blocked(outq)
    BY <1>3, <2>2, <2>3, CounterTypes DEF blocked
  <2>5. ASSUME NEW s \in Streams PROVE ~blocked(send[s])
    <3>1. recv[s].bytes < recv[s].max_bytes /\ recv[s].max_bytes <= send[s].max_bytes
      BY <1>3, Zenon DEF Credit, StreamCredit
    <3> QED BY <1>3, <3>1, CounterTypes DEF blocked
  <2> QED BY <2>4, <2>5, Zenon
<1> QED BY <1>1, <1>2, <1>3, InitIInv, NextIInv, InitLedger, NextLedger, PTL DEF Spec
===============================================================================
