---------------------------- MODULE SocketStream ----------------------------
(***************************************************************************)
(* The calls that loop over socket::read (src/src/socket.cpp and           *)
(* include/fiberio/iostream.hpp): read_exactly, read_string_exactly and    *)
(* the read, write and close of socket_device, on the socket of SocketImpl *)
(* and next to the plain calls of other fibers.                            *)
(*                                                                         *)
(* A loop keeps the thread from the end of one read to the start of the    *)
(* next: while running is a fiber, nothing else of the thread moves, only  *)
(* the peer does.                                                          *)
(***************************************************************************)
EXTENDS SocketImpl

CONSTANTS LoopSizes   \* sizes of the buffers that loops fill

ASSUME StreamAssumption == LoopSizes \subseteq Nat

VARIABLES
  loop,         \* the looping call that each fiber makes
  size,         \* the size of its buffer
  bytes_left,   \* the local bytes_left, or n - bytes_read in socket_device
  start,        \* bytes that reads had returned when the call began
  running,      \* the fiber between two reads of its loop, or NoBuf
  closed_in_,   \* members of the socket_device on the socket
  closed_out_

loopVars == <<loop, size, bytes_left, start>>
deviceVars == <<closed_in_, closed_out_>>
streamVars == <<vars, loopVars, running, deviceVars>>

StreamInit ==
  /\ Init
  /\ loop = [f \in Fibers |-> "none"]
  /\ size = [f \in Fibers |-> 0]
  /\ bytes_left = [f \in Fibers |-> 0]
  /\ start = [f \in Fibers |-> 0]
  /\ running = NoBuf
  /\ closed_in_ = FALSE
  /\ closed_out_ = FALSE
-----------------------------------------------------------------------------
(* read_exactly and socket_device::read                                    *)

loop_begin(f, op, n) ==
  /\ running = NoBuf
  /\ Calls(f, "read")
  /\ loop' = [loop EXCEPT ![f] = op]
  /\ size' = [size EXCEPT ![f] = n]
  /\ bytes_left' = [bytes_left EXCEPT ![f] = n]
  /\ start' = [start EXCEPT ![f] = returned]
  /\ running' = f
  /\ UNCHANGED <<memberVars, uvVars, at, status, result, dataVars, alive, deviceVars>>

read_exactly(f) == \E n \in LoopSizes : loop_begin(f, "read_exactly", n)

device_read(f) == \E n \in LoopSizes : loop_begin(f, "device_read", n)

\* Fault: read_exactly, too, ends with the stream.
goes_on_while_open(f) == bytes_left[f] > 0 /\ ~closed_

\* The condition of the loop; socket_device asks is_open() as well.
goes_on(f) == bytes_left[f] > 0 /\ (loop[f] = "device_read" => ~closed_)

\* Fault: other fibers run before the loop's next read.
thread_after_read_yielded(f) == NoBuf

\* Who has the thread when a read of f's loop has returned.
thread_after_read(f) == f

Looping(f) == loop[f] # "none"

\* The call is over, and its locals with it.
loop_over(f) ==
  /\ loop' = [loop EXCEPT ![f] = "none"]
  /\ size' = [size EXCEPT ![f] = 0]
  /\ bytes_left' = [bytes_left EXCEPT ![f] = 0]
  /\ start' = [start EXCEPT ![f] = 0]

\* The loop ends with the number of bytes it has read.
loop_end(f) ==
  /\ Looping(f) /\ at[f] = "idle"
  /\ ~goes_on(f)
  /\ result' = [result EXCEPT ![f] = "ok"]
  /\ loop_over(f)
  /\ running' = NoBuf
  /\ UNCHANGED <<memberVars, uvVars, at, call, status, calls, dataVars, alive, deviceVars>>

\* The next read is started, or throws, which ends the loop.
loop_read(f) ==
  /\ Looping(f) /\ at[f] = "idle"
  /\ goes_on(f)
  /\ read_begin(f, f, bytes_left[f])
  /\ running' = NoBuf
  /\ IF at'[f] = "idle" THEN loop_over(f) ELSE UNCHANGED loopVars
  /\ UNCHANGED <<call, calls, deviceVars>>

\* The fiber resumes inside read().  When read() returns, the loop goes on with
\* the bytes it got; when read() throws, so does the loop.
loop_resumed(f) ==
  /\ running = NoBuf
  /\ Looping(f)
  /\ FiberResume(f)
  /\ \/ /\ at'[f] # "idle"
        /\ UNCHANGED <<loopVars, running>>
     \/ /\ at'[f] = "idle" /\ result'[f] \in {"ok", "0"}
        /\ bytes_left' = [bytes_left EXCEPT ![f] = @ - (returned' - returned)]
        /\ running' = thread_after_read(f)
        /\ UNCHANGED <<loop, size, start>>
     \/ /\ at'[f] = "idle" /\ result'[f] \notin {"ok", "0"}
        /\ loop_over(f)
        /\ UNCHANGED running
  /\ UNCHANGED deviceVars
-----------------------------------------------------------------------------
(* socket_device::close                                                    *)

\* Fault: the directions are looked at before the new one is noted.
both_closed_before == closed_in_ /\ closed_out_

both_closed == closed_in_' /\ closed_out_'

\* Fault: the device does not ask whether the socket is closed already.
device_closes_again == both_closed

\* socket_impl::close does nothing on a closed socket.
device_closes == both_closed /\ ~closed_

\* The mode is compared, not tested for its bits: a close of both directions at once
\* closes neither.
device_close(f, mode) ==
  /\ running = NoBuf
  /\ Calls(f, "close")
  /\ OverlapClose \/ \A g \in Fibers : at[g] # "getaddrinfo"
  /\ closed_in_' = (closed_in_ \/ mode = "in")
  /\ closed_out_' = (closed_out_ \/ mode = "out")
  /\ \/ device_closes /\ close_begin(f)
     \/ /\ ~device_closes
        /\ Returns(f, "ok")
        /\ UNCHANGED <<closed_, tcp_, uv_reading>>
  /\ UNCHANGED <<reading_, buf_, len_, peer, dataVars, alive, loopVars, running>>
-----------------------------------------------------------------------------
LoopStep(f) == loop_end(f) \/ loop_read(f) \/ loop_resumed(f)

\* Plain calls of other fibers, device writes among them.
PlainCall(f) == running = NoBuf /\ FiberCall(f) /\ UNCHANGED <<loopVars, running, deviceVars>>

PlainResume(f) ==
  /\ running = NoBuf /\ ~Looping(f)
  /\ FiberResume(f)
  /\ UNCHANGED <<loopVars, running, deviceVars>>

\* The event loop runs when no fiber does; the peer does not wait for it.
Event(f) == running = NoBuf /\ Callback(f) /\ UNCHANGED <<loopVars, running, deviceVars>>

Read == running = NoBuf /\ read_callback /\ UNCHANGED <<loopVars, running, deviceVars>>

Closed == running = NoBuf /\ on_handle_closed /\ UNCHANGED <<loopVars, running, deviceVars>>

PeerStops == peer_stops /\ UNCHANGED <<loopVars, running, deviceVars>>

StreamNext ==
  \/ \E f \in Fibers :
       \/ read_exactly(f) \/ device_read(f) \/ LoopStep(f)
       \/ \E mode \in {"in", "out", "in|out"} : device_close(f, mode)
       \/ PlainCall(f) \/ PlainResume(f) \/ Event(f)
  \/ Read
  \/ Closed
  \/ PeerStops
  \/ Destroyed /\ UNCHANGED streamVars

StreamSpec == StreamInit /\ [][StreamNext]_streamVars

(* As for SocketImpl: ready fibers run, and libuv completes what it took.   *)
StreamFairness ==
  /\ \A f \in Fibers :
       WF_streamVars(LoopStep(f)) /\ WF_streamVars(PlainResume(f)) /\ WF_streamVars(Event(f))
  /\ WF_streamVars(Closed)
  /\ WF_streamVars(peer # "open" /\ Read)

StreamFairSpec == StreamSpec /\ StreamFairness
-----------------------------------------------------------------------------
(* Properties                                                              *)

\* The buffer that a loop fills holds consecutive bytes of the stream: from its
\* first read to its last, no other fiber's read takes bytes in between.
LoopIsContiguous ==
  \A f \in Fibers : Looping(f) => returned = start[f] + (size[f] - bytes_left[f])

\* read_exactly returns normally only when it has filled its buffer, however the
\* bytes arrive and whatever other fibers do to the socket meanwhile.
ExactlyFills ==
  [][\A f \in Fibers :
       loop[f] = "read_exactly" /\ loop'[f] = "none" /\ result'[f] = "ok" =>
         returned' = start[f] + size[f]]_streamVars

\* A loop that throws drops the bytes it has read.  It does so only at the end of
\* the connection: neither another fiber's read nor a shortage of data makes a
\* loop that has consumed bytes fail.
LossOnlyAtEnd ==
  [][\A f \in Fibers :
       Looping(f) /\ loop'[f] = "none" /\ result'[f] # "ok" /\ bytes_left[f] < size[f] =>
         closed_' \/ peer = "reset"]_streamVars

\* A loop does not outlive the stream: it ends when the peer has ended or broken
\* the connection and when the socket is closed, without reading for ever.
LoopEnds ==
  \A f \in Fibers : Looping(f) /\ (peer # "open" \/ closed_) ~> ~Looping(f)

\* Closing both directions of a socket_device, in either order and from any fiber,
\* closes the connection.
BothDirectionsClose == closed_in_ /\ closed_out_ ~> tcp_ = "closed"
=============================================================================
