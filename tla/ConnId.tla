------------------------------- MODULE ConnId -------------------------------
(***************************************************************************)
(* The connection ID sets of an endpoint (connid.c, connid.h).  A set      *)
(* holds the sequence numbers of a list kept in ascending order, the       *)
(* number in use, the one set aside for a new path, and a counter that the *)
(* code keeps in eight bits.  The ID values and the stateless reset tokens *)
(* are left out: a number stands for its connection ID.                    *)
(***************************************************************************)
EXTENDS Integers, FiniteSets, FiniteSetsExt

None == -1

IdSet == [ids : SUBSET Nat, count : 0..255, active : Nat \cup {None}, alt : Nat \cup {None}]

EmptySet == [ids |-> {}, count |-> 0, active |-> None, alt |-> None]

FirstNumber(s) == Min(s.ids)

LastNumber(s) == FirstNumber(s) + s.count - 1

(* The unbroken run of numbers of ids that starts at n. *)
RunFrom(ids, n) == {m \in ids : m >= n /\ n..m \subseteq ids}

(* quic_conn_id_add: a number already listed is ignored; the counter only  *)
(* moves when the number extends the run, and then over the whole run.     *)
Add(s, n) ==
    LET t == [s EXCEPT !.ids = @ \cup {n}]
    IN  IF n \in s.ids
        THEN s
        ELSE IF n # LastNumber(t) + 1
        THEN t
        ELSE [t EXCEPT !.active = IF @ = None THEN n ELSE @,
                       !.count = (@ + Cardinality(RunFrom(t.ids, n))) % 256]

RemoveUpToMutant(s, n) ==
    LET gone == {m \in s.ids : m <= n}
    IN  [s EXCEPT !.ids = @ \ gone, !.count = (@ - Cardinality(gone)) % 256]

(* quic_conn_id_remove: every number up to n goes, the counter drops by    *)
(* one for each, and the active entry moves to the first one left.         *)
RemoveUpTo(s, n) ==
    LET gone == {m \in s.ids : m <= n}
        left == s.ids \ gone
    IN  [s EXCEPT !.ids = left,
                  !.count = (@ - Cardinality(gone)) % 256,
                  !.active = IF @ \in gone /\ left # {} THEN Min(left) ELSE @]

(* quic_conn_id_update_active: only a number that is listed is taken up. *)
UpdateActive(s, n) == IF n \in s.ids THEN [s EXCEPT !.active = n] ELSE s

(* quic_conn_id_select_alt: the entry set aside for the new path, None     *)
(* when there is none to be had.  same says that the peer kept its own ID. *)
SelectAlt(s, same) ==
    CASE s.alt # None -> s.alt
      [] s.alt = None /\ same -> s.active
      [] s.alt = None /\ ~same /\ s.active # LastNumber(s) ->
             Min({m \in s.ids : m > s.active})
      [] s.alt = None /\ ~same /\ s.active = LastNumber(s) ->
             IF s.active = FirstNumber(s) THEN s.active ELSE None

SwapActive(s) == [s EXCEPT !.active = s.alt, !.alt = s.active]

(* quic_conn_id_choose *)
Choose(s, path) == IF path = 1 /\ s.alt # None THEN s.alt ELSE s.active
=============================================================================
