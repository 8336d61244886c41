----------------------------- MODULE SocketImpl -----------------------------
(***************************************************************************)
(* One socket_impl (src/src/socket_impl.cpp) used by several fibers of its *)
(* thread.  Fibers are cooperative: a call runs without interruption up to *)
(* the point where it waits for a promise or for cond_, and continues, in  *)
(* any order relative to other woken fibers, once a libuv callback or a    *)
(* notify_all has made it ready.  libuv's stream handle is external: its   *)
(* state is tcp_, and the outcome of a request depends on that state and   *)
(* on the peer.                                                            *)
(***************************************************************************)
EXTENDS Integers, UvStatus

CONSTANTS
  Fibers,
  NoBuf,            \* the null pointer
  Created,          \* state of the handle after construction: "idle" for a new
                    \* socket, "connected" for one that do_accept has filled
  ShutdownStatus,   \* statuses of a shutdown request
  ReadSizes,        \* sizes of the buffers of reads
  MaxCalls,         \* bound: calls made by a fiber
  OverlapClose      \* may a socket be closed, or connected once more, while a
                    \* connect() resolves.  If not, callers connect a socket one
                    \* at a time and only while it has no connection, whose end
                    \* would let a read() close it, and do not close it meanwhile

ASSUME SocketAssumption ==
  /\ NoBuf \notin Fibers
  /\ Created \in {"idle", "connected"}
  /\ ReadSizes \subseteq Nat
  /\ MaxCalls \in Nat
  /\ OverlapClose \in BOOLEAN

VARIABLES
  closed_, reading_,  \* members of socket_impl
  buf_,               \* the fiber whose buffer buf_ points into, or NoBuf
  len_,               \* the size of that buffer, or the result of the read
  tcp_,               \* the libuv handle
  uv_reading,         \* is the handle reading (uv_read_start ... uv_read_stop)
  peer,               \* what the other end of the connection has done
  at,                 \* where each fiber waits, "idle" outside a call
  call,               \* the call that each fiber makes
  status,             \* of the awaited request; "wait" until it is known
  result,             \* how each fiber's last call ended
  calls,              \* calls each fiber has made
  delivered,          \* bytes that read callbacks have delivered
  returned,           \* bytes that reads have returned to their callers
  alive               \* the socket_impl has not been destroyed

memberVars == <<closed_, reading_, buf_, len_>>
uvVars == <<tcp_, uv_reading, peer>>
fiberVars == <<at, call, status, result, calls>>
dataVars == <<delivered, returned>>
vars == <<memberVars, uvVars, fiberVars, dataVars, alive>>

ERROR_EOF == -1
ERROR_READ_FAILED == -2

Points == {"idle", "getaddrinfo", "uv_connect", "cond", "uv_write", "uv_shutdown", "uv_close",
           "terminate"}

Init ==
  /\ closed_ = FALSE
  /\ reading_ = FALSE
  /\ buf_ = NoBuf
  /\ len_ = 0
  /\ tcp_ = Created
  /\ uv_reading = FALSE
  /\ peer = "open"
  /\ at = [f \in Fibers |-> "idle"]
  /\ call = [f \in Fibers |-> "none"]
  /\ status = [f \in Fibers |-> "OK"]
  /\ result = [f \in Fibers |-> "none"]
  /\ calls = [f \in Fibers |-> 0]
  /\ delivered = 0
  /\ returned = 0
  /\ alive = TRUE
-----------------------------------------------------------------------------
(* connect's translation of uv_error                                        *)

connect_result(s) ==
  IF check_uv_status(s) = "uv_error" THEN "io_error" ELSE check_uv_status(s)
-----------------------------------------------------------------------------
(* Fibers *)

Calls(f, op) ==
  /\ alive
  /\ at[f] = "idle"
  /\ calls[f] < MaxCalls
  /\ \A g \in Fibers : call[g] # "destroy"
  /\ call' = [call EXCEPT ![f] = op]
  /\ calls' = [calls EXCEPT ![f] = @ + 1]

Suspends(f, point) ==
  /\ at' = [at EXCEPT ![f] = point]
  /\ status' = [status EXCEPT ![f] = "wait"]
  /\ UNCHANGED result

Returns(f, r) ==
  /\ at' = [at EXCEPT ![f] = "idle"]
  /\ result' = [result EXCEPT ![f] = r]
  /\ UNCHANGED status

\* f runs again after waiting at a point.
Resumes(f, point) ==
  /\ at[f] = point
  /\ status[f] # "wait"
  /\ UNCHANGED <<call, calls>>

\* Fault: waiting fibers are not notified.
notify_none(st) == st

\* cond_.notify_all, for a fiber status st.
notify_all(st) ==
  [g \in Fibers |-> IF at[g] = "cond" THEN "OK" ELSE st[g]]

(* Whether libuv takes a request.  A handle that is connecting, or failed to *)
(* connect, has a descriptor but no connection: requests on it may be        *)
(* refused at once or be taken and completed once the attempt is over.       *)

uv_refuses == tcp_ # "connected"

uv_takes == tcp_ \in {"connecting", "failed", "connected"}
-----------------------------------------------------------------------------
(* connect                                                                 *)

connect(f) ==
  /\ Calls(f, "connect")
  /\ OverlapClose \/ (tcp_ # "connected" /\ \A g \in Fibers : at[g] \notin {"getaddrinfo", "uv_connect"})
  /\ \/ closed_ /\ Returns(f, "socket_closed_error")
     \/ ~closed_ /\ Suspends(f, "getaddrinfo")
     \/ ~closed_ /\ Returns(f, connect_result("EAI_NONAME"))
  /\ UNCHANGED <<memberVars, uvVars, dataVars, alive>>

\* uv_tcp_connect fails at once on a handle that has a connection or is making
\* one.  It does not look for uv_close: on a closing handle it can open a new
\* descriptor.
connect_resolved(f) ==
  /\ Resumes(f, "getaddrinfo")
  /\ \/ /\ status[f] # "OK"
        /\ Returns(f, connect_result(status[f]))
        /\ UNCHANGED tcp_
     \/ /\ status[f] = "OK"
        /\ tcp_ \notin {"connecting", "connected"}
        /\ tcp_' = "connecting"
        /\ Suspends(f, "uv_connect")
     \/ /\ status[f] = "OK"
        /\ Returns(f, connect_result("EALREADY"))
        /\ tcp_' \in IF tcp_ = "idle" THEN {"idle", "failed"} ELSE {tcp_}
  /\ UNCHANGED <<memberVars, uv_reading, peer, dataVars, alive>>

connect_done(f) ==
  /\ Resumes(f, "uv_connect")
  /\ Returns(f, connect_result(status[f]))
  /\ UNCHANGED <<memberVars, uvVars, dataVars, alive>>
-----------------------------------------------------------------------------
(* close: shutdown, then close_handle, then cond_.notify_all               *)

close_handle(f) ==
  /\ tcp_' = "closing"
  /\ uv_reading' = FALSE
  /\ Suspends(f, "uv_close")

\* Fault: the handle is closed only after a shutdown that was carried out.
close_begin_connected(f) ==
  /\ closed_' = TRUE
  /\ IF tcp_ = "connected" THEN Suspends(f, "uv_shutdown") ELSE Returns(f, "ok")
  /\ UNCHANGED <<tcp_, uv_reading>>

\* Fault: readers are notified before libuv has stopped reading.
close_begin_notifies(f) ==
  /\ closed_' = TRUE
  /\ at' = [at EXCEPT ![f] = "uv_shutdown"]
  /\ status' = [notify_all(status) EXCEPT ![f] = "wait"]
  /\ UNCHANGED <<result, tcp_, uv_reading>>

\* Fault: closed_ is not set before shutdown suspends the fiber.
close_begin_unmarked(f) ==
  \/ uv_takes /\ Suspends(f, "uv_shutdown") /\ UNCHANGED <<closed_, tcp_, uv_reading>>
  \/ uv_refuses /\ closed_' = TRUE /\ close_handle(f)

\* A shutdown that uv_shutdown refuses fails with ENOTCONN, which close() ignores.
close_begin(f) ==
  /\ closed_' = TRUE
  /\ \/ uv_takes /\ Suspends(f, "uv_shutdown") /\ UNCHANGED <<tcp_, uv_reading>>
     \/ uv_refuses /\ close_handle(f)

close(f) ==
  /\ Calls(f, "close")
  /\ OverlapClose \/ \A g \in Fibers : at[g] # "getaddrinfo"
  /\ \/ /\ closed_
        /\ Returns(f, "ok")
        /\ UNCHANGED <<closed_, tcp_, uv_reading>>
     \/ ~closed_ /\ close_begin(f)
  /\ UNCHANGED <<reading_, buf_, len_, peer, dataVars, alive>>

\* An exception other than socket_closed_error leaves close() at once, and
\* passes through read()'s handler if it was a read that closed the socket.  Out
\* of the destructor, which is noexcept, it terminates the program.
close_shutdown_done(f) ==
  /\ Resumes(f, "uv_shutdown")
  /\ \/ /\ check_uv_status(status[f]) \in {"ok", "socket_closed_error"}
        /\ close_handle(f)
        /\ UNCHANGED <<reading_, buf_>>
     \/ /\ check_uv_status(status[f]) = "uv_error" /\ call[f] = "destroy"
        /\ at' = [at EXCEPT ![f] = "terminate"]
        /\ UNCHANGED <<reading_, buf_, tcp_, uv_reading, status, result>>
     \/ /\ check_uv_status(status[f]) = "uv_error" /\ call[f] # "destroy"
        /\ Returns(f, "uv_error")
        /\ reading_' = IF call[f] = "read" THEN FALSE ELSE reading_
        /\ buf_' = IF call[f] = "read" THEN NoBuf ELSE buf_
        /\ UNCHANGED <<tcp_, uv_reading>>
  /\ UNCHANGED <<closed_, len_, peer, dataVars, alive>>

close_done(f) ==
  /\ Resumes(f, "uv_close")
  /\ at' = [at EXCEPT ![f] = "idle"]
  /\ status' = notify_all(status)
  /\ result' = [result EXCEPT ![f] = IF call[f] = "read" THEN "0" ELSE "ok"]
  /\ len_' = IF call[f] = "read" THEN 0 ELSE len_
  /\ alive' = (call[f] # "destroy")
  /\ UNCHANGED <<closed_, reading_, buf_, uvVars, dataVars>>

\* The destructor, run when no fiber is in a call: it closes an open socket.
destroy(f) ==
  /\ alive
  /\ \A g \in Fibers : at[g] = "idle"
  /\ call' = [call EXCEPT ![f] = "destroy"]
  /\ \/ /\ closed_
        /\ alive' = FALSE
        /\ UNCHANGED <<closed_, tcp_, uv_reading, at, status, result>>
     \/ ~closed_ /\ close_begin(f) /\ UNCHANGED alive
  /\ UNCHANGED <<reading_, buf_, len_, peer, calls, dataVars>>
-----------------------------------------------------------------------------
(* read                                                                    *)

\* Fault: only an unfinished read counts as concurrent.
concurrent_if_unfinished == buf_ # NoBuf

\* Fault: concurrent reads are let through.
concurrent_never == FALSE

concurrent_read == reading_

\* Statuses with which uv_read_start may refuse; whether it takes a handle that
\* is reading already depends on libuv's version.
uv_read_refusals ==
  (IF uv_refuses THEN {"ENOTCONN"} ELSE {}) \cup (IF uv_reading THEN {"EALREADY"} ELSE {})

\* Fault: read() does not look at closed_.
read_begin_unchecked(f, b, n) ==
  /\ ~concurrent_read /\ uv_takes
  /\ reading_' = TRUE
  /\ buf_' = f
  /\ len_' = n
  /\ uv_reading' = TRUE
  /\ Suspends(f, "cond")
  /\ UNCHANGED <<closed_, tcp_, peer, dataVars, alive>>

\* A read into n bytes at b.  A null pointer looks like a read that is finished:
\* read() returns at once and leaves the handle reading.
read_begin(f, b, n) ==
  /\ \/ /\ closed_
        /\ Returns(f, "socket_closed_error")
        /\ UNCHANGED <<reading_, buf_, len_, uv_reading>>
     \/ /\ ~closed_ /\ concurrent_read
        /\ Returns(f, "io_error")
        /\ UNCHANGED <<reading_, buf_, len_, uv_reading>>
     \/ /\ ~closed_ /\ ~concurrent_read
        /\ \E s \in uv_read_refusals : Returns(f, check_uv_status(s))
        /\ buf_' = NoBuf
        /\ len_' = n
        /\ UNCHANGED <<reading_, uv_reading>>
     \/ /\ ~closed_ /\ ~concurrent_read /\ uv_takes
        /\ reading_' = (b # NoBuf)
        /\ buf_' = b
        /\ len_' = n
        /\ uv_reading' = TRUE
        /\ IF b = NoBuf THEN Returns(f, "ok") ELSE Suspends(f, "cond")
  /\ UNCHANGED <<closed_, tcp_, peer, dataVars, alive>>

\* read_string(0) reads into an empty vector, whose data() may be null.
read(f) ==
  /\ Calls(f, "read")
  /\ \E n \in ReadSizes : \E b \in IF n = 0 THEN {f, NoBuf} ELSE {f} : read_begin(f, b, n)

\* Fault: a waiting reader does not look at closed_.
must_wait_for_data == buf_ # NoBuf

\* wait_for_read_to_finish goes on waiting until the read has its result or the
\* socket is closed.
must_wait == buf_ # NoBuf /\ ~closed_

read_resumed(f) ==
  /\ Resumes(f, "cond")
  /\ \/ /\ must_wait
        /\ Suspends(f, "cond")
        /\ UNCHANGED <<memberVars, tcp_, uv_reading, returned>>
     \/ /\ ~must_wait /\ len_ = ERROR_EOF /\ ~closed_
        /\ reading_' = FALSE
        /\ close_begin(f)
        /\ UNCHANGED <<buf_, len_, returned>>
     \/ /\ ~must_wait /\ len_ = ERROR_READ_FAILED
        /\ reading_' = FALSE
        /\ buf_' = NoBuf
        /\ Returns(f, "io_error")
        /\ UNCHANGED <<closed_, len_, tcp_, uv_reading, returned>>
     \/ /\ ~must_wait /\ len_ # ERROR_READ_FAILED /\ closed_
        /\ reading_' = FALSE
        /\ len_' = 0
        /\ Returns(f, "0")
        /\ UNCHANGED <<closed_, buf_, tcp_, uv_reading, returned>>
     \/ /\ ~must_wait /\ len_ >= 0 /\ ~closed_
        /\ reading_' = FALSE
        /\ returned' = returned + len_
        /\ Returns(f, "ok")
        /\ UNCHANGED <<closed_, buf_, len_, tcp_, uv_reading>>
  /\ UNCHANGED <<peer, delivered, alive>>
-----------------------------------------------------------------------------
(* write                                                                   *)

\* What uv_write returns when it refuses.
uv_write_status == IF tcp_ = "idle" THEN "EBADF" ELSE "EPIPE"

write(f) ==
  /\ Calls(f, "write")
  /\ \/ closed_ /\ Returns(f, "socket_closed_error")
     \/ ~closed_ /\ uv_refuses /\ Returns(f, check_uv_status(uv_write_status))
     \/ ~closed_ /\ uv_takes /\ Suspends(f, "uv_write")
  /\ UNCHANGED <<memberVars, uvVars, dataVars, alive>>

write_done(f) ==
  /\ Resumes(f, "uv_write")
  /\ Returns(f, check_uv_status(status[f]))
  /\ UNCHANGED <<memberVars, uvVars, dataVars, alive>>
-----------------------------------------------------------------------------
(* libuv: the callbacks, run from the thread's event loop                  *)

Pending(f, point) == at[f] = point /\ status[f] = "wait"

addrinfo_callback(f) ==
  /\ Pending(f, "getaddrinfo")
  /\ \E s \in {"OK", "EAI_NONAME", "EAI_ADDRFAMILY"} : status' = [status EXCEPT ![f] = s]
  /\ UNCHANGED <<memberVars, uvVars, at, call, result, calls, dataVars, alive>>

connection_callback(f) ==
  /\ Pending(f, "uv_connect")
  /\ tcp_ = "connecting"
  /\ \E ok \in BOOLEAN :
       /\ status' = [status EXCEPT ![f] = IF ok THEN "OK" ELSE "ECONNREFUSED"]
       /\ tcp_' = IF ok THEN "connected" ELSE "failed"
  /\ UNCHANGED <<memberVars, uv_reading, peer, at, call, result, calls, dataVars, alive>>

\* Writes that were taken before a failed attempt to connect are cancelled.
write_callback(f) ==
  /\ Pending(f, "uv_write")
  /\ tcp_ \in {"failed", "connected"}
  /\ status' = [status EXCEPT ![f] =
                  CASE tcp_ = "failed"  -> "ECANCELED"
                    [] peer = "reset"   -> "EPIPE"
                    [] OTHER            -> "OK"]
  /\ UNCHANGED <<memberVars, uvVars, at, call, result, calls, dataVars, alive>>

\* The connection is shut down once everything written before has been sent.
shutdown_callback(f) ==
  /\ Pending(f, "uv_shutdown")
  /\ tcp_ # "connecting"
  /\ \A g \in Fibers : ~Pending(g, "uv_write")
  /\ \E s \in ShutdownStatus : status' = [status EXCEPT ![f] = s]
  /\ UNCHANGED <<memberVars, uvVars, at, call, result, calls, dataVars, alive>>

\* What libuv reports.  It does not read into a null or an empty buffer, but
\* fails with ENOBUFS.
nreads ==
  IF tcp_ = "failed" \/ peer = "reset" \/ buf_ = NoBuf \/ len_ = 0
    THEN {ERROR_READ_FAILED}
    ELSE IF peer = "eof" THEN {ERROR_EOF} ELSE 0..len_

\* Fault: on_read_finished does not notify after an error.
on_read_finished_quietly(nread) ==
  /\ buf_' = NoBuf
  /\ len_' = nread
  /\ status' = IF nread < 0 THEN status ELSE notify_all(status)

on_read_finished(nread) ==
  /\ buf_' = NoBuf
  /\ len_' = nread
  /\ status' = notify_all(status)

uv_read_stop == uv_reading' = FALSE

\* alloc_callback passes buf_ and len_ on to libuv.
read_callback ==
  /\ uv_reading
  /\ tcp_ # "connecting"
  /\ \E nread \in nreads :
       /\ on_read_finished(nread)
       /\ delivered' = IF nread > 0 THEN delivered + nread ELSE delivered
  /\ uv_read_stop
  /\ UNCHANGED <<closed_, reading_, tcp_, peer, at, call, result, calls, returned, alive>>

\* on_handle_closed; the handle's outstanding requests are cancelled first, one that
\* was started after uv_close among them.
on_handle_closed ==
  /\ \E g \in Fibers : Pending(g, "uv_close")
  /\ tcp_' = "closed"
  /\ status' = [g \in Fibers |->
                  CASE Pending(g, "uv_close") -> "OK"
                    [] Pending(g, "uv_connect") \/ Pending(g, "uv_write") -> "ECANCELED"
                    [] OTHER -> status[g]]
  /\ UNCHANGED <<memberVars, uv_reading, peer, at, call, result, calls, dataVars, alive>>

\* The peer ends the stream or the connection breaks.
peer_stops ==
  /\ tcp_ = "connected"
  /\ \/ peer = "open" /\ peer' \in {"eof", "reset"}
     \/ peer = "eof" /\ peer' = "reset"
  /\ UNCHANGED <<memberVars, tcp_, uv_reading, fiberVars, dataVars, alive>>
-----------------------------------------------------------------------------
FiberCall(f) == connect(f) \/ read(f) \/ write(f) \/ close(f) \/ destroy(f)

FiberResume(f) ==
  \/ connect_resolved(f) \/ connect_done(f)
  \/ read_resumed(f) \/ write_done(f)
  \/ close_shutdown_done(f) \/ close_done(f)

Callback(f) ==
  \/ addrinfo_callback(f) \/ connection_callback(f)
  \/ write_callback(f) \/ shutdown_callback(f)

\* Nothing more happens to a destroyed socket, or in a terminated program.
Destroyed ==
  /\ ~alive \/ \E f \in Fibers : at[f] = "terminate"
  /\ UNCHANGED vars

Next ==
  \/ \E f \in Fibers : FiberCall(f) \/ FiberResume(f) \/ Callback(f)
  \/ read_callback
  \/ on_handle_closed
  \/ peer_stops
  \/ Destroyed

Spec == Init /\ [][Next]_vars

(* Ready fibers run (the scheduler's liveness) and libuv completes every    *)
(* request: written data is eventually sent or the connection breaks.       *)
(* Nothing obliges the peer to send, but the end of its stream is reported. *)
Fairness ==
  /\ \A f \in Fibers : WF_vars(FiberResume(f)) /\ WF_vars(Callback(f))
  /\ WF_vars(on_handle_closed)
  /\ WF_vars((peer # "open" \/ tcp_ = "failed") /\ read_callback)

FairSpec == Spec /\ Fairness
-----------------------------------------------------------------------------
(* Properties                                                              *)

\* The members and the results of calls are of their types: len_ is a size or one
\* of the two error codes, and calls end with a value or a C++ exception.
TypeOK ==
  /\ closed_ \in BOOLEAN
  /\ reading_ \in BOOLEAN
  /\ buf_ \in Fibers \cup {NoBuf}
  /\ len_ \in Nat \cup {ERROR_EOF, ERROR_READ_FAILED}
  /\ tcp_ \in {"idle", "failed", "connecting", "connected", "closing", "closed"}
  /\ uv_reading \in BOOLEAN
  /\ peer \in {"open", "eof", "reset"}
  /\ at \in [Fibers -> Points]
  /\ call \in [Fibers -> {"none", "connect", "read", "write", "close", "destroy"}]
  /\ status \in [Fibers -> {"wait", "OK", "EAI_NONAME", "EAI_ADDRFAMILY", "ECONNREFUSED", "EPIPE",
                            "ECANCELED"} \cup ShutdownStatus]
  /\ result \in [Fibers -> {"none", "ok", "0", "socket_closed_error", "io_error", "uv_error",
                            "address_family_not_supported_error"}]
  /\ calls \in [Fibers -> 0..MaxCalls]
  /\ delivered \in Nat
  /\ returned \in Nat
  /\ alive \in BOOLEAN

\* reading_ is a lock: it is set exactly while one fiber waits in read(), also
\* when reads fail, when they are refused and when the socket is closed.
OneReader ==
  /\ reading_ <=> \E f \in Fibers : at[f] = "cond"
  /\ \A f, g \in Fibers : at[f] = "cond" /\ at[g] = "cond" => f = g

\* libuv writes into a caller's buffer only while that caller is still waiting
\* in read(): neither close() nor an error lets a read return before libuv has
\* stopped reading, and a handle that reads for nobody has no buffer.
BufferOutlivesRead ==
  uv_reading => tcp_ \notin {"closing", "closed"} /\ (buf_ = NoBuf \/ Pending(buf_, "cond"))

\* Every byte that libuv delivers is returned by exactly one read, as long as the
\* socket is open: len_ is not overwritten between on_read_finished and the
\* moment the reader runs.
DataAccounted ==
  ~closed_ =>
    delivered = returned + IF reading_ /\ buf_ = NoBuf /\ len_ > 0 THEN len_ ELSE 0

\* close() finishes what it starts: a socket that reports closed has its handle
\* closed, or a fiber that is on its way to close it (unless the destructor has
\* terminated the program).
CloseCompletes ==
  closed_ => \/ tcp_ = "closed"
             \/ \E f \in Fibers : at[f] \in {"uv_shutdown", "uv_close", "terminate"}

\* The memory of the handle and of the requests is released only after libuv has
\* let go of them: ~socket_impl returns with the handle closed and no request
\* outstanding.
FreedAfterClose ==
  ~alive => tcp_ = "closed" /\ \A f \in Fibers : at[f] = "idle"

\* uv_close is called once on a handle, as libuv demands, although close(), a read
\* that meets the end of the stream, both directions of a socket_device and the
\* destructor all close the socket, and each suspends in shutdown before it does.
HandleClosedOnce ==
  [][\A f \in Fibers :
       at[f] # "uv_close" /\ at'[f] = "uv_close" => tcp_ \notin {"closing", "closed"}]_vars

\* A new connection is never started on a socket that has been closed.
ConnectOnlyWhileOpen ==
  [][tcp_' = "connecting" /\ tcp_ # "connecting" => ~closed_]_vars

\* A read that finds the connection broken leaves the socket closed.
BrokenConnectionIsClosed == ~reading_ /\ len_ = ERROR_READ_FAILED => closed_

\* Closing a socket makes every call on it return: readers are notified, writers
\* and connectors have their requests completed or cancelled.
CloseReleasesAll == closed_ ~> \A f \in Fibers : at[f] = "idle"

\* The end of the stream, or its failure, ends a waiting read.
EndOfStreamEndsRead == reading_ /\ peer # "open" ~> ~reading_
=============================================================================
