----------------------------- MODULE ByteStreams -----------------------------
(* What the receiving part of streams promises to the reader: of each stream *)
(* the bytes 0, 1, 2, ... in order and once each, no byte before it arrived, *)
(* the end after the last byte and once; or, for a stream that was abandoned *)
(* (reset by the peer or stopped by the reader), any prefix of that.         *)
EXTENDS Integers, Sequences

CONSTANTS Streams, Size     \* every stream has the bytes 0 .. Size - 1

VARIABLES
    arrived,    \* arrived[s]: the bytes that have arrived
    out,        \* out[s]: what the reader was given, a sequence of bytes
    ended,      \* ended[s]: the reader was told that the stream is complete
    abandoned   \* abandoned[s]: nothing more needs to be delivered

vars == <<arrived, out, ended, abandoned>>

Init ==
    /\ arrived = [s \in Streams |-> {}]
    /\ out = [s \in Streams |-> <<>>]
    /\ ended = [s \in Streams |-> FALSE]
    /\ abandoned = [s \in Streams |-> FALSE]

Arrive(s) ==
    /\ \E B \in SUBSET (0 .. Size - 1) : arrived' = [arrived EXCEPT ![s] = @ \cup B]
    /\ UNCHANGED <<out, ended, abandoned>>

Read(s) ==
    /\ ~abandoned[s] /\ ~ended[s]
    /\ \E n \in Len(out[s]) .. Size, e \in BOOLEAN :
          /\ 0 .. n - 1 \subseteq arrived[s]
          /\ e => n = Size
          /\ out' = [out EXCEPT ![s] = [i \in 1 .. n |-> i - 1]]
          /\ ended' = [ended EXCEPT ![s] = e]
    /\ UNCHANGED <<arrived, abandoned>>

Abandon(s) ==
    /\ ~ended[s]
    /\ abandoned' = [abandoned EXCEPT ![s] = TRUE]
    /\ UNCHANGED <<arrived, out, ended>>

Next == \E s \in Streams : Arrive(s) \/ Read(s) \/ Abandon(s)

Spec == Init /\ [][Next]_vars
=============================================================================
