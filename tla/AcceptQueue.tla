----------------------------- MODULE AcceptQueue -----------------------------
(***************************************************************************)
(* What a listening server socket promises to the fibers that call         *)
(* accept(), without counter, condition variable or event loop: a call     *)
(* waits only while the open queue has nothing for it, takes one           *)
(* connection or one error, each of which goes to one call, and is refused *)
(* only once the queue is closed.  ServerSocketImpl implements this        *)
(* specification.                                                          *)
(***************************************************************************)
EXTENDS Integers

CONSTANT Fibers

VARIABLES
  open,       \* the queue has not been closed
  held,       \* a connection waits to be accepted
  errors,     \* errors that wait to be reported
  outcome     \* what each fiber's accept() does, or did last

vars == <<open, held, errors, outcome>>

Init ==
  /\ open = TRUE
  /\ held = FALSE
  /\ errors = 0
  /\ outcome = [f \in Fibers |-> "away"]

Becomes(f, o) == outcome' = [outcome EXCEPT ![f] = o]

Free(f) == outcome[f] \notin {"waiting", "failing"}

Asks(f) == Free(f) \/ outcome[f] = "waiting"

\* accept() waits.
Wait(f) ==
  /\ open /\ ~held /\ errors = 0
  /\ Free(f)
  /\ Becomes(f, "waiting")
  /\ UNCHANGED <<open, held, errors>>

\* accept() takes the connection, which may turn out to be unusable.
Take(f) ==
  /\ open /\ held
  /\ Asks(f)
  /\ held' = FALSE
  /\ Becomes(f, "ok") \/ Becomes(f, "failing")
  /\ UNCHANGED <<open, errors>>

\* accept() takes an error.
TakeError(f) ==
  /\ open /\ ~held /\ errors > 0
  /\ Asks(f)
  /\ errors' = errors - 1
  /\ Becomes(f, "failing")
  /\ UNCHANGED <<open, held>>

Fail(f) ==
  /\ outcome[f] = "failing"
  /\ Becomes(f, "uv_error")
  /\ UNCHANGED <<open, held, errors>>

Refuse(f) ==
  /\ ~open
  /\ Asks(f)
  /\ Becomes(f, "runtime_error")
  /\ UNCHANGED <<open, held, errors>>

\* The fiber goes on to another operation of the socket.
Leave(f) ==
  /\ Free(f)
  /\ Becomes(f, "away")
  /\ UNCHANGED <<open, held, errors>>

Close(f) ==
  /\ open /\ open' = FALSE
  /\ Free(f)
  /\ Becomes(f, "away")
  /\ UNCHANGED <<held, errors>>

\* A connection that nobody took goes with the closed queue.
Drop ==
  /\ ~open
  /\ held' = FALSE
  /\ UNCHANGED <<open, errors, outcome>>

Arrive(ok) ==
  /\ open /\ ~held
  /\ held' = ok
  /\ errors' = IF ok THEN errors ELSE errors + 1
  /\ UNCHANGED <<open, outcome>>

Next ==
  \/ \E f \in Fibers :
       Wait(f) \/ Take(f) \/ TakeError(f) \/ Fail(f) \/ Refuse(f) \/ Leave(f) \/ Close(f)
  \/ Drop
  \/ \E ok \in BOOLEAN : Arrive(ok)

Spec == Init /\ [][Next]_vars
=============================================================================
