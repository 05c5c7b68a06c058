------------------------------ MODULE MCInQueue ------------------------------
(* Instances of InQueue. *)
EXTENDS InQueue

\* The ways to cut a stream: every piece, with FIN or without.
AllFrames ==
    {f \in [offset : 0 .. Size, len : 0 .. Size, fin : BOOLEAN] :
        /\ f.offset + f.len <= Size
        /\ f.fin => f.offset + f.len = Size
        /\ f.len = 0 => f.fin}
=============================================================================
