---------------------------- MODULE SocketReads -----------------------------
(* What the fibers that read from a socket see of it: a ByteStream.        *)
EXTENDS SocketImpl

Stream == INSTANCE ByteStream WITH
  open     <- ~closed_,
  readers  <- {f \in Fibers : at[f] = "cond"},
  held     <- IF reading_ /\ buf_ = NoBuf /\ len_ > 0 THEN len_ ELSE 0,
  received <- delivered,
  taken    <- returned

\* The socket implements ByteStream: whatever reads, callbacks, errors and closes do to
\* buf_, len_ and reading_, bytes go to the one fiber that reads, all and once, and a
\* read ends without the bytes that arrived for it only once the socket is closed.
ImplementsStream == Stream!Spec
=============================================================================
