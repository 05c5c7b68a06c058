----------------------------- MODULE MCOutQueue -----------------------------
(* Instances of OutQueue.                                                    *)
EXTENDS OutQueue

\* A stream is written to twice, and reset.
Abandon == <<"crypto", "stream", "datagram", "stream", "reset">>

\* Two writes to a stream, the first of them with MSG_MORE, and one to another stream.
Opening == <<"crypto", "stream", "stream", "other">>

\* The same without the last write.
Held == <<"crypto", "stream", "stream">>
=============================================================================
