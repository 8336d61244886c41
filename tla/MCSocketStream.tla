--------------------------- MODULE MCSocketStream ---------------------------
(* SocketStream for TLC, as a ByteStream too.  No symmetry: the run checks *)
(* liveness.                                                               *)
EXTENDS SocketStream, SocketReads
=============================================================================
