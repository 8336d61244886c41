----------------------------- MODULE ByteStream -----------------------------
(***************************************************************************)
(* What a socket promises to the fibers that read from it, without libuv,  *)
(* buffers, condition variable or flags: one fiber reads at a time; the    *)
(* bytes that arrive for it are returned by that read, all and once; a     *)
(* read ends without bytes, by an error or at the end of the stream, only  *)
(* when none have arrived for it, or when the socket has been closed.      *)
(* SocketImpl implements this specification.                               *)
(***************************************************************************)
EXTENDS Integers

CONSTANT Fibers

VARIABLES
  open,       \* the socket has not been closed
  readers,    \* the fibers that wait in read()
  held,       \* bytes that have arrived for the reader
  received,   \* bytes that have arrived so far
  taken       \* bytes that reads have returned so far

vars == <<open, readers, held, received, taken>>

Init ==
  /\ open = TRUE
  /\ readers = {}
  /\ held = 0
  /\ received = 0
  /\ taken = 0

Begin(f) ==
  /\ open /\ readers = {}
  /\ readers' = {f}
  /\ UNCHANGED <<open, held, received, taken>>

\* Bytes arrive, also while the socket is being closed.
Arrive ==
  /\ readers # {} /\ held = 0
  /\ held' \in Nat \ {0}
  /\ received' = received + held'
  /\ UNCHANGED <<open, readers, taken>>

Return(f) ==
  /\ open /\ readers = {f}
  /\ taken' = taken + held
  /\ readers' = {} /\ held' = 0
  /\ UNCHANGED <<open, received>>

\* A read ends without bytes; at the end of the stream it closes the socket.
End(f) ==
  /\ readers = {f}
  /\ open => held = 0
  /\ readers' = {} /\ held' = 0
  /\ open' \in {open, FALSE}
  /\ UNCHANGED <<received, taken>>

Close ==
  /\ open /\ open' = FALSE
  /\ UNCHANGED <<readers, held, received, taken>>

Next == (\E f \in Fibers : Begin(f) \/ Return(f) \/ End(f)) \/ Arrive \/ Close

Spec == Init /\ [][Next]_vars
=============================================================================
