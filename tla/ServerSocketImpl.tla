-------------------------- MODULE ServerSocketImpl --------------------------
(***************************************************************************)
(* One server_socket_impl (src/src/server_socket_impl.cpp) used by several *)
(* fibers of its thread: bind, listen, accept, close and destruction       *)
(* against libuv's connection callback.  libuv is external: it holds at    *)
(* most one accepted descriptor until uv_accept takes it, reports no other *)
(* connection meanwhile, and reports failures of accept(2) through the     *)
(* same callback.                                                          *)
(***************************************************************************)
EXTENDS Integers, FiniteSets, UvStatus

CONSTANTS
  Fibers,
  Names,           \* addresses a caller asks for
  Addresses,       \* addresses as update_address reports them
  Unset,           \* host_ and port_ before the first bind
  AddrinfoStatus,  \* statuses of a request to resolve a name
  MaxCalls,        \* bound: calls made by a fiber
  MaxArrivals      \* bound: reports of the connection callback

ASSUME ServerAssumption ==
  /\ Unset \notin Names \cup Addresses
  /\ Names \cap Addresses = {}
  /\ MaxCalls \in Nat
  /\ MaxArrivals \in Nat

VARIABLES
  closed_, pending_connections_,
  host_,        \* host_ and port_, which are always assigned together
  tcp_,         \* the libuv handle
  bound,        \* the address the handle is bound to
  accepted_fd,  \* libuv holds a descriptor for uv_accept
  failures,     \* reported failures that no accept() has consumed
  arrivals,     \* reports of the connection callback so far
  at, call, status, result, calls,
  alive         \* the server_socket_impl has not been destroyed

uvVars == <<tcp_, bound, accepted_fd, failures, arrivals>>
fiberVars == <<at, call, status, result, calls>>
vars == <<closed_, pending_connections_, host_, uvVars, fiberVars, alive>>

Init ==
  /\ closed_ = FALSE
  /\ pending_connections_ = 0
  /\ host_ = Unset
  /\ tcp_ = "idle"
  /\ bound = Unset
  /\ accepted_fd = FALSE
  /\ failures = 0
  /\ arrivals = 0
  /\ at = [f \in Fibers |-> "idle"]
  /\ call = [f \in Fibers |-> "none"]
  /\ status = [f \in Fibers |-> "OK"]
  /\ result = [f \in Fibers |-> "none"]
  /\ calls = [f \in Fibers |-> 0]
  /\ alive = TRUE
-----------------------------------------------------------------------------
Calls(f, op) ==
  /\ alive
  /\ at[f] = "idle"
  /\ calls[f] < MaxCalls
  /\ \A g \in Fibers : call[g] # "destroy"
  /\ call' = [call EXCEPT ![f] = op]
  /\ calls' = [calls EXCEPT ![f] = @ + 1]

Suspends(f, point) ==
  /\ at' = [at EXCEPT ![f] = point]
  /\ status' = [status EXCEPT ![f] = "wait"]
  /\ UNCHANGED result

Returns(f, r) ==
  /\ at' = [at EXCEPT ![f] = "idle"]
  /\ result' = [result EXCEPT ![f] = r]
  /\ UNCHANGED status

Resumes(f, point) ==
  /\ at[f] = point
  /\ status[f] # "wait"
  /\ UNCHANGED <<call, calls>>

Pending(f, point) == at[f] = point /\ status[f] = "wait"

\* Fault: waiting fibers are not notified.
notify_none(st) == st

notify_all(st) ==
  [g \in Fibers |-> IF at[g] = "cond" THEN "OK" ELSE st[g]]
-----------------------------------------------------------------------------
(* bind and listen.  Callers configure the socket before they close it:    *)
(* libuv gives no meaning to uv_tcp_bind and uv_listen on a closed handle.  *)

\* The requested address is stored before it is resolved; uv_getaddrinfo may fail
\* at once.
bind(f) ==
  /\ Calls(f, "bind")
  /\ ~closed_
  /\ \E n \in Names : host_' = n
  /\ Suspends(f, "getaddrinfo") \/ Returns(f, check_uv_status("ENOMEM"))
  /\ UNCHANGED <<closed_, pending_connections_, uvVars, alive>>

\* uv_tcp_getsockname fails when the bind has: libuv reports an address in use only
\* here.  That is the last alternative of bind_resolved.
update_address(a) == host_' = a

\* bind() throws when the name does not resolve, when the handle is already bound
\* and when the address cannot be had, which uv_tcp_bind or update_address finds;
\* the last leaves an unbound descriptor.
bind_resolved(f) ==
  /\ Resumes(f, "getaddrinfo")
  /\ \/ /\ status[f] # "OK"
        /\ Returns(f, check_uv_status(status[f]))
        /\ UNCHANGED <<tcp_, host_, bound>>
     \/ /\ status[f] = "OK" /\ tcp_ \in {"idle", "failed"}
        /\ tcp_' = "bound"
        /\ \E a \in Addresses : bound' = a /\ update_address(a)
        /\ Returns(f, "ok")
     \/ /\ status[f] = "OK"
        /\ tcp_' = IF tcp_ = "idle" THEN "failed" ELSE tcp_
        /\ Returns(f, check_uv_status("EINVAL"))
        /\ UNCHANGED <<host_, bound>>
  /\ UNCHANGED <<closed_, pending_connections_, accepted_fd, failures, arrivals, alive>>

\* uv_listen gives an unbound handle an address of the system's choice.
listen(f) ==
  /\ Calls(f, "listen")
  /\ ~closed_
  /\ \/ /\ tcp_' = "listening"
        /\ IF bound = Unset THEN bound' \in Addresses ELSE UNCHANGED bound
        /\ Returns(f, "ok")
     \/ UNCHANGED <<tcp_, bound>> /\ Returns(f, check_uv_status("EADDRINUSE"))
  /\ UNCHANGED <<closed_, pending_connections_, host_, accepted_fd, failures, arrivals, alive>>
-----------------------------------------------------------------------------
(* accept                                                                  *)

\* Fault: an accept() that was notified does not check again.
must_wait_once == pending_connections_ = 0 /\ ~closed_ /\ \A f \in Fibers : at[f] # "cond"

\* Fault: accept() waits on a closed socket too.
must_wait_closed == pending_connections_ = 0

must_wait == pending_connections_ = 0 /\ ~closed_

\* The loop of accept(), and what follows it.  When uv_accept has no descriptor
\* to give, or cannot use it, the exception destroys the new socket, which waits
\* for its handle.
accept_loop(f) ==
  \/ /\ must_wait
     /\ Suspends(f, "cond")
     /\ UNCHANGED <<pending_connections_, accepted_fd, failures>>
  \/ /\ closed_
     /\ Returns(f, "runtime_error")
     /\ UNCHANGED <<pending_connections_, accepted_fd, failures>>
  \/ /\ ~must_wait /\ ~closed_
     /\ pending_connections_' = pending_connections_ - 1
     /\ accepted_fd' = FALSE
     /\ IF accepted_fd
          THEN (Returns(f, "ok") \/ Suspends(f, "unwind")) /\ UNCHANGED failures
          ELSE Suspends(f, "unwind") /\ failures' = failures - 1

accept(f) ==
  /\ Calls(f, "accept")
  /\ accept_loop(f)
  /\ UNCHANGED <<closed_, host_, tcp_, bound, arrivals, alive>>

accept_resumed(f) ==
  /\ Resumes(f, "cond")
  /\ accept_loop(f)
  /\ UNCHANGED <<closed_, host_, tcp_, bound, arrivals, alive>>

accept_unwound(f) ==
  /\ Resumes(f, "unwind")
  /\ Returns(f, check_uv_status("EAGAIN"))
  /\ UNCHANGED <<closed_, pending_connections_, host_, uvVars, alive>>
-----------------------------------------------------------------------------
(* close and the destructor                                                *)

close_begin(f) ==
  /\ closed_' = TRUE
  /\ tcp_' = "closing"
  /\ Suspends(f, "uv_close")

close(f) ==
  /\ Calls(f, "close")
  /\ \A g \in Fibers : at[g] # "getaddrinfo"
  /\ \/ closed_ /\ Returns(f, "ok") /\ UNCHANGED <<closed_, tcp_>>
     \/ ~closed_ /\ close_begin(f)
  /\ UNCHANGED <<pending_connections_, host_, bound, accepted_fd, failures, arrivals, alive>>

close_done(f) ==
  /\ Resumes(f, "uv_close")
  /\ at' = [at EXCEPT ![f] = "idle"]
  /\ result' = [result EXCEPT ![f] = "ok"]
  /\ status' = notify_all(status)
  /\ alive' = (call[f] # "destroy")
  /\ UNCHANGED <<closed_, pending_connections_, host_, uvVars>>

\* Fault: the destructor leaves an open socket to its members' destructors.
destroy_only(f) ==
  /\ alive
  /\ \A g \in Fibers : at[g] = "idle"
  /\ call' = [call EXCEPT ![f] = "destroy"]
  /\ alive' = FALSE
  /\ UNCHANGED <<closed_, pending_connections_, host_, uvVars, at, status, result, calls>>

\* The destructor, run when no fiber is in a call.
destroy(f) ==
  /\ alive
  /\ \A g \in Fibers : at[g] = "idle"
  /\ call' = [call EXCEPT ![f] = "destroy"]
  /\ \/ closed_ /\ alive' = FALSE /\ UNCHANGED <<closed_, tcp_, at, status, result>>
     \/ ~closed_ /\ close_begin(f) /\ UNCHANGED alive
  /\ UNCHANGED <<pending_connections_, host_, bound, accepted_fd, failures, arrivals, calls>>
-----------------------------------------------------------------------------
(* libuv's callbacks                                                       *)

addrinfo_callback(f) ==
  /\ Pending(f, "getaddrinfo")
  /\ \E s \in AddrinfoStatus : status' = [status EXCEPT ![f] = s]
  /\ UNCHANGED <<closed_, pending_connections_, host_, uvVars, at, call, result, calls, alive>>

\* Fault: connections that arrive while no fiber accepts are not counted.
on_connection_awaited(ok) ==
  /\ pending_connections_' =
       pending_connections_ + (IF \E f \in Fibers : at[f] = "cond" THEN 1 ELSE 0)
  /\ status' = notify_all(status)

\* Connections and failures are counted alike.
on_connection(ok) ==
  /\ pending_connections_' = pending_connections_ + 1
  /\ status' = notify_all(status)

\* While libuv holds a descriptor it does not watch the listening socket.
connection_callback(ok) ==
  /\ tcp_ = "listening"
  /\ ~accepted_fd
  /\ arrivals < MaxArrivals
  /\ arrivals' = arrivals + 1
  /\ accepted_fd' = ok
  /\ failures' = IF ok THEN failures ELSE failures + 1
  /\ on_connection(ok)
  /\ UNCHANGED <<closed_, host_, tcp_, bound, at, call, result, calls, alive>>

\* uv_close also closes a descriptor that libuv holds.
on_handle_closed ==
  /\ tcp_ = "closing"
  /\ tcp_' = "closed"
  /\ accepted_fd' = FALSE
  /\ status' = [g \in Fibers |-> IF Pending(g, "uv_close") THEN "OK" ELSE status[g]]
  /\ UNCHANGED <<closed_, pending_connections_, host_, bound, failures, arrivals, at, call, result,
                 calls, alive>>

\* The handle of a new socket that could not accept is closed.
new_socket_closed(f) ==
  /\ Pending(f, "unwind")
  /\ status' = [status EXCEPT ![f] = "OK"]
  /\ UNCHANGED <<closed_, pending_connections_, host_, uvVars, at, call, result, calls, alive>>
-----------------------------------------------------------------------------
FiberCall(f) == bind(f) \/ listen(f) \/ accept(f) \/ close(f) \/ destroy(f)

FiberResume(f) == bind_resolved(f) \/ accept_resumed(f) \/ accept_unwound(f) \/ close_done(f)

Callback(f) == addrinfo_callback(f) \/ new_socket_closed(f)

\* Nothing more happens to a destroyed socket; accept() on a socket that no
\* connection reaches and nobody closes waits for ever.
Quiet ==
  /\ \/ ~alive
     \/ \A f \in Fibers : IF at[f] = "idle" THEN calls[f] = MaxCalls ELSE Pending(f, "cond")
  /\ UNCHANGED vars

Next ==
  \/ \E f \in Fibers : FiberCall(f) \/ FiberResume(f) \/ Callback(f)
  \/ \E ok \in BOOLEAN : connection_callback(ok)
  \/ on_handle_closed
  \/ Quiet

Spec == Init /\ [][Next]_vars

(* Ready fibers run and requests complete; no connection need arrive.      *)
Fairness ==
  /\ \A f \in Fibers : WF_vars(FiberResume(f)) /\ WF_vars(Callback(f))
  /\ WF_vars(on_handle_closed)

FairSpec == Spec /\ Fairness
-----------------------------------------------------------------------------
(* Properties                                                              *)

\* The state is of its type: pending_connections_, which accept() decrements after
\* the wait, is never negative.
TypeOK ==
  /\ closed_ \in BOOLEAN
  /\ pending_connections_ \in 0..MaxArrivals
  /\ host_ \in Names \cup Addresses \cup {Unset}
  /\ tcp_ \in {"idle", "failed", "bound", "listening", "closing", "closed"}
  /\ bound \in Addresses \cup {Unset}
  /\ accepted_fd \in BOOLEAN
  /\ failures \in 0..MaxArrivals
  /\ arrivals \in 0..MaxArrivals
  /\ at \in [Fibers -> {"idle", "getaddrinfo", "cond", "unwind", "uv_close"}]
  /\ call \in [Fibers -> {"none", "bind", "listen", "accept", "close", "destroy"}]
  /\ status \in [Fibers -> {"wait", "OK"} \cup AddrinfoStatus]
  /\ result \in [Fibers -> {"none", "ok", "uv_error", "socket_closed_error",
                            "address_family_not_supported_error", "runtime_error"}]
  /\ calls \in [Fibers -> 0..MaxCalls]
  /\ alive \in BOOLEAN

\* pending_connections_ is exact: one for the connection that libuv holds and one
\* for every failure not yet reported.  Were it too low, libuv would hold a
\* connection and stop listening while accept() waits; were it too high,
\* accept() would fail without a reason.
PendingIsExact ==
  ~closed_ => pending_connections_ = failures + IF accepted_fd THEN 1 ELSE 0

\* An accept() never sleeps through a connection: with a connection or a failure
\* pending some waiting fiber has been woken, or none waits.
NoSleepThroughConnection ==
  pending_connections_ > 0 /\ (\E f \in Fibers : at[f] = "cond") =>
    \E f \in Fibers : at[f] = "cond" /\ status[f] = "OK"

\* get_host() and get_port() report the address that the socket is bound to.
AddressIsBound ==
  tcp_ = "bound" /\ (\A f \in Fibers : at[f] # "getaddrinfo") => host_ = bound

\* The handle is closed before the memory it lives in is released.
FreedAfterClose ==
  ~alive => tcp_ = "closed" /\ \A f \in Fibers : at[f] = "idle"

\* Where a fiber's last call of the socket is, for the callers of accept().
accept_outcome(f) ==
  CASE call[f] # "accept" -> "away"
    [] call[f] = "accept" /\ at[f] = "idle" -> result[f]
    [] call[f] = "accept" /\ at[f] = "unwind" -> "failing"
    [] OTHER -> "waiting"

Queue == INSTANCE AcceptQueue WITH
  open    <- ~closed_,
  held    <- accepted_fd,
  errors  <- failures,
  outcome <- [f \in Fibers |-> accept_outcome(f)]

\* The socket implements AcceptQueue: whatever pending_connections_ and the notified
\* fibers make of it, an accept() waits only while libuv has nothing for it, each
\* connection and each failure ends one accept(), and none is refused before close().
ImplementsQueue == Queue!Spec

\* Closing the socket makes every waiting accept() return.
CloseReleasesAcceptors ==
  closed_ ~> \A f \in Fibers : at[f] # "cond"

\* A connection that libuv holds while a fiber waits for it is accepted, unless the
\* socket is closed.
ConnectionAccepted ==
  accepted_fd /\ (\E f \in Fibers : at[f] = "cond") ~> ~accepted_fd \/ closed_
=============================================================================
