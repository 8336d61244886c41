----------------------- MODULE ServerSocketImplProofs -----------------------
(***************************************************************************)
(* The safety of server_socket_impl, for any fibers, addresses and bounds: *)
(* pending_connections_ is exact and never negative, no accept() sleeps    *)
(* through a connection, and the socket outlives its handle.  The last     *)
(* part shows that a server socket implements AcceptQueue.                 *)
(***************************************************************************)
EXTENDS ServerSocketImpl, TLAPS

Statuses == {"wait", "OK"} \cup AddrinfoStatus

Results ==
  {"ok", "uv_error", "socket_closed_error", "address_family_not_supported_error", "runtime_error"}

\* What check_uv_status lets a call end with.
LEMMA CheckedStatus ==
  ASSUME NEW s
  PROVE  check_uv_status(s) \in Results
BY DEF check_uv_status, Results

\* The part of TypeOK about the fibers.
FibersOK ==
  /\ at \in [Fibers -> {"idle", "getaddrinfo", "cond", "unwind", "uv_close"}]
  /\ call \in [Fibers -> {"none", "bind", "listen", "accept", "close", "destroy"}]
  /\ status \in [Fibers -> Statuses]
  /\ result \in [Fibers -> {"none"} \cup Results]
  /\ calls \in [Fibers -> 0..MaxCalls]

\* The part about the members and the handle.
MembersOK ==
  /\ closed_ \in BOOLEAN
  /\ host_ \in Names \cup Addresses \cup {Unset}
  /\ tcp_ \in {"idle", "failed", "bound", "listening", "closing", "closed"}
  /\ bound \in Addresses \cup {Unset}
  /\ accepted_fd \in BOOLEAN
  /\ alive \in BOOLEAN

\* Counting: nothing is pending that has not arrived, and an open socket's count is
\* exact, so that accept() takes from a counter that is not zero.
CountInv ==
  /\ arrivals \in 0..MaxArrivals
  /\ pending_connections_ \in 0..arrivals
  /\ failures \in 0..arrivals
  /\ PendingIsExact

\* Waiting: fibers go to sleep only when nothing is pending, and every arrival wakes
\* all of them.
WaitInv ==
  pending_connections_ > 0 => \A f \in Fibers : at[f] = "cond" => status[f] = "OK"

\* Closing: closed_ says what became of the handle; nobody resolves an address for a
\* closed socket; the destructor runs alone, until the handle is closed.
CloseInv ==
  /\ closed_ <=> tcp_ \in {"closing", "closed"}
  /\ tcp_ = "closing" => \E f \in Fibers : at[f] = "uv_close"
  /\ \A f \in Fibers : at[f] = "uv_close" => closed_ /\ (status[f] # "wait" => tcp_ = "closed")
  /\ \A f \in Fibers : at[f] = "getaddrinfo" => ~closed_
  /\ \A f \in Fibers : at[f] = "cond" => status[f] \in {"wait", "OK"}
  /\ \A f \in Fibers : call[f] = "destroy" /\ alive => at[f] = "uv_close"
  /\ \A f, g \in Fibers : call[f] = "destroy" /\ g # f => at[g] = "idle"
  /\ FreedAfterClose

ServerInv == FibersOK /\ MembersOK /\ CountInv /\ WaitInv /\ CloseInv

\* ServerInv contains the four invariants.
LEMMA InvImplies == ServerInv => TypeOK /\ PendingIsExact /\ NoSleepThroughConnection /\ FreedAfterClose
BY ServerAssumption
   DEF ServerInv, FibersOK, MembersOK, CountInv, WaitInv, CloseInv, TypeOK, NoSleepThroughConnection,
       Statuses, Results

\* ServerInv holds of a new server socket.
LEMMA InvInit == Init => ServerInv
<1> SUFFICES ASSUME Init PROVE ServerInv
  OBVIOUS
<1>1. FibersOK
  BY ServerAssumption DEF Init, FibersOK, Statuses
<1>4. MembersOK
  BY Zenon DEF Init, MembersOK
<1>2. CountInv /\ WaitInv
  BY ServerAssumption DEF Init, CountInv, PendingIsExact, WaitInv
<1>3. CloseInv
  BY DEF Init, CloseInv, FreedAfterClose
<1> QED BY <1>1, <1>2, <1>3, <1>4 DEF ServerInv

\* What a call, a wait and a return do to the fibers.
LEMMA CallsEffect ==
  ASSUME FibersOK, NEW f \in Fibers, NEW op, Calls(f, op)
  PROVE  /\ alive /\ at[f] = "idle" /\ call'[f] = op
         /\ \A g \in Fibers : call[g] # "destroy" /\ (g # f => call'[g] = call[g])
         /\ calls' \in [Fibers -> 0..MaxCalls]
BY ServerAssumption DEF FibersOK, Calls

\* A fiber that suspends waits at its point and leaves the others alone.
LEMMA SuspendsEffect ==
  ASSUME FibersOK, NEW f \in Fibers, NEW p, Suspends(f, p)
  PROVE  /\ at'[f] = p /\ status'[f] = "wait"
         /\ \A g \in Fibers \ {f} : at'[g] = at[g] /\ status'[g] = status[g]
BY DEF FibersOK, Suspends

\* A fiber that returns is idle and leaves the others alone.
LEMMA ReturnsEffect ==
  ASSUME FibersOK, NEW f \in Fibers, NEW r, Returns(f, r)
  PROVE  /\ at'[f] = "idle" /\ status' = status
         /\ \A g \in Fibers \ {f} : at'[g] = at[g]
BY DEF FibersOK, Returns

\* A call, a wait and a return keep the types.
LEMMA CallsType ==
  ASSUME FibersOK, NEW f \in Fibers, NEW op \in {"bind", "listen", "accept", "close"}, Calls(f, op)
  PROVE  /\ call' \in [Fibers -> {"none", "bind", "listen", "accept", "close", "destroy"}]
         /\ calls' \in [Fibers -> 0..MaxCalls]
BY ServerAssumption DEF FibersOK, Calls

PlacesOK ==
  /\ at \in [Fibers -> {"idle", "getaddrinfo", "cond", "unwind", "uv_close"}]
  /\ status \in [Fibers -> Statuses]
  /\ result \in [Fibers -> {"none"} \cup Results]

\* A fiber that suspends keeps the types.
LEMMA SuspendsType ==
  ASSUME FibersOK, NEW f \in Fibers, NEW p \in {"getaddrinfo", "cond", "unwind", "uv_close"},
         Suspends(f, p)
  PROVE  PlacesOK'
BY DEF FibersOK, Suspends, PlacesOK, Statuses

\* A fiber that returns keeps the types.
LEMMA ReturnsType ==
  ASSUME FibersOK, NEW f \in Fibers, NEW r \in Results, Returns(f, r)
  PROVE  PlacesOK'
BY DEF FibersOK, Returns, PlacesOK

\* The fibers keep their types.
LEMMA FibersStep == ServerInv /\ [Next]_vars => FibersOK'
<1> SUFFICES ASSUME ServerInv, [Next]_vars PROVE FibersOK'
  OBVIOUS
<1> USE DEF uvVars, fiberVars
<1>0. FibersOK
  BY DEF ServerInv
<1>1. ASSUME NEW f \in Fibers, FiberCall(f)
      PROVE  FibersOK'
  <2>1. CASE bind(f)
    <3>1. Calls(f, "bind") /\ (Suspends(f, "getaddrinfo") \/ \E r \in Results : Returns(f, r))
      BY <2>1, CheckedStatus DEF bind
    <3> QED BY <1>0, <3>1, CallsType, SuspendsType, ReturnsType DEF FibersOK, PlacesOK
  <2>2. CASE listen(f)
    <3>1. Calls(f, "listen") /\ \E r \in Results : Returns(f, r)
      BY <2>2, CheckedStatus DEF listen, Results
    <3> QED BY <1>0, <3>1, CallsType, ReturnsType DEF FibersOK, PlacesOK
  <2>3. CASE accept(f)
    <3>1. Calls(f, "accept") /\ accept_loop(f)
      BY <2>3 DEF accept
    <3>2. (\E r \in {"ok", "runtime_error"} : Returns(f, r))
            \/ \E p \in {"cond", "unwind"} : Suspends(f, p)
      BY <3>1 DEF accept_loop
    <3> QED BY <1>0, <3>1, <3>2, CallsType, SuspendsType, ReturnsType DEF FibersOK, PlacesOK, Results
  <2>4. CASE close(f)
    <3>1. Calls(f, "close") /\ (Returns(f, "ok") \/ Suspends(f, "uv_close"))
      BY <2>4 DEF close, close_begin
    <3> QED BY <1>0, <3>1, CallsType, SuspendsType, ReturnsType DEF FibersOK, PlacesOK, Results
  <2>5. CASE destroy(f)
    BY <1>0, <2>5, ZenonT(30) DEF destroy, close_begin, Suspends, FibersOK, Statuses
  <2> QED BY <1>1, <2>1, <2>2, <2>3, <2>4, <2>5 DEF FiberCall
<1> USE DEF FibersOK
<1>2. ASSUME NEW f \in Fibers, FiberResume(f)
      PROVE  FibersOK'
  <2>1. CASE bind_resolved(f) \/ accept_unwound(f)
    <3>1. (\E r \in Results : Returns(f, r)) /\ UNCHANGED <<call, calls>>
      BY <2>1, CheckedStatus, ZenonT(30) DEF bind_resolved, accept_unwound, Resumes, Results
    <3> QED BY <1>0, <3>1, ReturnsType DEF PlacesOK
  <2>2. CASE accept_resumed(f)
    BY <1>0, <2>2 DEF accept_resumed, accept_loop, Suspends, Returns, Resumes, Statuses, Results
  <2>3. CASE close_done(f)
    BY <1>0, <2>3 DEF close_done, Resumes, notify_all, Statuses, Results
  <2> QED BY <1>2, <2>1, <2>2, <2>3 DEF FiberResume
<1>3. ASSUME NEW f \in Fibers, Callback(f)
      PROVE  FibersOK'
  BY <1>0, <1>3 DEF Callback, addrinfo_callback, new_socket_closed, Statuses
<1>4. ASSUME NEW ok \in BOOLEAN, connection_callback(ok)
      PROVE  FibersOK'
  BY <1>0, <1>4 DEF connection_callback, on_connection, notify_all, Statuses
<1>5. CASE on_handle_closed
  BY <1>0, <1>5 DEF on_handle_closed, Statuses
<1>6. CASE Quiet \/ UNCHANGED vars
  BY <1>0, <1>6 DEF Quiet, vars
<1> QED BY <1>1, <1>2, <1>3, <1>4, <1>5, <1>6 DEF Next

\* The members and the counters keep their types, and the count stays exact.
LEMMA CountStep == ServerInv /\ [Next]_vars => MembersOK' /\ CountInv'
<1> SUFFICES ASSUME ServerInv, [Next]_vars PROVE MembersOK' /\ CountInv'
  OBVIOUS
<1> USE ServerAssumption DEF MembersOK, CountInv, PendingIsExact, uvVars, fiberVars
<1>0. MembersOK /\ CountInv
  BY DEF ServerInv
<1>1. ASSUME NEW f \in Fibers, bind(f) \/ listen(f) \/ bind_resolved(f)
      PROVE  MembersOK' /\ CountInv'
  BY <1>0, <1>1 DEF bind, listen, bind_resolved, update_address
<1>2. ASSUME NEW f \in Fibers, accept_loop(f), UNCHANGED <<closed_, host_, tcp_, bound, arrivals, alive>>
      PROVE  MembersOK' /\ CountInv'
  <2>1. CASE UNCHANGED <<pending_connections_, accepted_fd, failures>>
    BY <1>0, <1>2, <2>1
  <2>2. CASE /\ ~must_wait /\ ~closed_
             /\ pending_connections_' = pending_connections_ - 1
             /\ accepted_fd' = FALSE
             /\ failures' = IF accepted_fd THEN failures ELSE failures - 1
    <3>1. MembersOK'
      BY <1>0, <1>2, <2>2, Zenon
    <3>2. CASE accepted_fd
      BY <1>0, <1>2, <2>2, <3>1, <3>2 DEF must_wait
    <3>3. CASE ~accepted_fd
      BY <1>0, <1>2, <2>2, <3>1, <3>3 DEF must_wait
    <3> QED BY <3>2, <3>3
  <2> QED BY <1>2, <2>1, <2>2, Zenon DEF accept_loop
<1>3. ASSUME NEW f \in Fibers, accept(f) \/ accept_resumed(f)
      PROVE  MembersOK' /\ CountInv'
  BY <1>2, <1>3 DEF accept, accept_resumed
<1>4. ASSUME NEW f \in Fibers, close(f) \/ destroy(f) \/ close_done(f) \/ accept_unwound(f)
      PROVE  MembersOK' /\ CountInv'
  <2>1. /\ UNCHANGED <<pending_connections_, host_, bound, accepted_fd, failures, arrivals>>
        /\ (closed_' = closed_ /\ tcp_' = tcp_) \/ (closed_' = TRUE /\ tcp_' = "closing")
    BY <1>4 DEF close, close_begin, destroy, close_done, accept_unwound
  <2>2. alive' \in BOOLEAN
    <3>1. CASE close_done(f)
      BY <3>1, Zenon DEF close_done
    <3>2. alive' = alive \/ alive' = FALSE \/ close_done(f)
      BY <1>4 DEF close, destroy, accept_unwound
    <3> QED BY <1>0, <3>1, <3>2, Zenon
  <2> QED BY <1>0, <2>1, <2>2, Zenon
<1>5. ASSUME NEW f \in Fibers, Callback(f)
      PROVE  MembersOK' /\ CountInv'
  BY <1>0, <1>5 DEF Callback, addrinfo_callback, new_socket_closed
<1>6. ASSUME NEW ok \in BOOLEAN, connection_callback(ok)
      PROVE  MembersOK' /\ CountInv'
  BY <1>0, <1>6 DEF connection_callback, on_connection
<1>7. CASE on_handle_closed
  BY <1>0, <1>7, Zenon DEF on_handle_closed, ServerInv, CloseInv
<1>8. CASE Quiet \/ UNCHANGED vars
  BY <1>0, <1>8 DEF Quiet, vars
<1> QED BY <1>1, <1>3, <1>4, <1>5, <1>6, <1>7, <1>8 DEF Next, FiberCall, FiberResume

\* No fiber sleeps while something is pending: every step preserves it.
LEMMA WaitStep == ServerInv /\ [Next]_vars => WaitInv'
<1> SUFFICES ASSUME ServerInv, [Next]_vars PROVE WaitInv'
  OBVIOUS
<1> USE DEF WaitInv, uvVars, fiberVars
<1>0. FibersOK /\ WaitInv /\ pending_connections_ \in Nat
  BY ServerAssumption DEF ServerInv, CountInv
<1>1. ASSUME NEW f \in Fibers, UNCHANGED pending_connections_,
             (\E r : Returns(f, r)) \/ \E p \in {"getaddrinfo", "unwind", "uv_close"} : Suspends(f, p)
      PROVE  WaitInv'
  <2>1. /\ at'[f] # "cond"
        /\ \A g \in Fibers \ {f} : at'[g] = at[g] /\ status'[g] = status[g]
    BY <1>0, <1>1, ReturnsEffect, SuspendsEffect
  <2> QED BY <1>0, <1>1, <2>1
<1>2. ASSUME NEW f \in Fibers, bind(f) \/ listen(f) \/ bind_resolved(f) \/ accept_unwound(f) \/ close(f)
      PROVE  WaitInv'
  BY <1>1, <1>2 DEF bind, listen, bind_resolved, accept_unwound, close, close_begin
<1>3. ASSUME NEW f \in Fibers, destroy(f)
      PROVE  WaitInv'
  BY <1>0, <1>1, <1>3, Zenon DEF destroy, close_begin
<1>4. ASSUME NEW f \in Fibers, accept_loop(f)
      PROVE  WaitInv'
  <2>1. CASE must_wait /\ UNCHANGED pending_connections_
    BY <2>1 DEF must_wait
  <2>2. CASE closed_ /\ Returns(f, "runtime_error") /\ UNCHANGED pending_connections_
    BY <1>1, <2>2
  <2>3. CASE /\ ~must_wait /\ ~closed_
             /\ pending_connections_' = pending_connections_ - 1
             /\ (Returns(f, "ok") \/ Suspends(f, "unwind"))
    <3>1. /\ at'[f] # "cond"
          /\ \A g \in Fibers \ {f} : at'[g] = at[g] /\ status'[g] = status[g]
      BY <1>0, <2>3, ReturnsEffect, SuspendsEffect
    <3>2. pending_connections_ > 0
      BY <1>0, <2>3 DEF must_wait
    <3> QED BY <1>0, <3>1, <3>2
  <2> QED BY <1>4, <2>1, <2>2, <2>3 DEF accept_loop
<1>5. ASSUME NEW f \in Fibers, accept(f) \/ accept_resumed(f)
      PROVE  WaitInv'
  BY <1>4, <1>5 DEF accept, accept_resumed
<1>6. ASSUME NEW f \in Fibers, close_done(f)
      PROVE  WaitInv'
  BY <1>0, <1>6 DEF close_done, Resumes, notify_all, FibersOK
<1>7. ASSUME NEW f \in Fibers, Callback(f)
      PROVE  WaitInv'
  BY <1>0, <1>7 DEF Callback, addrinfo_callback, new_socket_closed, Pending, FibersOK
<1>8. ASSUME NEW ok \in BOOLEAN, connection_callback(ok)
      PROVE  WaitInv'
  BY <1>8 DEF connection_callback, on_connection, notify_all
<1>9. CASE on_handle_closed
  BY <1>0, <1>9 DEF on_handle_closed, Pending
<1>10. CASE Quiet \/ UNCHANGED vars
  BY <1>0, <1>10 DEF Quiet, vars
<1> QED
  BY <1>2, <1>3, <1>5, <1>6, <1>7, <1>8, <1>9, <1>10 DEF Next, FiberCall, FiberResume

\* A fiber moves between places outside close(), and the handle stays open or closed.
LEMMA PlainMove ==
  ASSUME MembersOK, CloseInv, NEW f \in Fibers, alive,
         at[f] # "uv_close", call[f] # "destroy", call'[f] # "destroy",
         at[f] = "idle" => \A g \in Fibers : call[g] # "destroy",
         at'[f] # "uv_close", at'[f] = "getaddrinfo" => ~closed_,
         at'[f] = "cond" => status'[f] \in {"wait", "OK"},
         \A g \in Fibers \ {f} : at'[g] = at[g] /\ call'[g] = call[g] /\ status'[g] = status[g],
         tcp_' = tcp_ \/ (~closed_ /\ tcp_' \in {"failed", "bound", "listening"}),
         UNCHANGED <<closed_, alive>>
  PROVE  CloseInv'
<1>1. \A g \in Fibers : call[g] # "destroy" /\ call'[g] # "destroy"
  BY DEF CloseInv
<1>2. /\ closed_' <=> tcp_' \in {"closing", "closed"}
      /\ FreedAfterClose'
      /\ closed_ => tcp_' = tcp_
  BY DEF CloseInv, FreedAfterClose
<1>3. tcp_' = "closing" => \E g \in Fibers : at'[g] = "uv_close"
  BY <1>2 DEF CloseInv
<1>4. \A g \in Fibers : at'[g] = "uv_close" => closed_' /\ (status'[g] # "wait" => tcp_' = "closed")
  BY <1>2 DEF CloseInv
<1>5. /\ \A g \in Fibers : at'[g] = "getaddrinfo" => ~closed_'
      /\ \A g \in Fibers : at'[g] = "cond" => status'[g] \in {"wait", "OK"}
  BY DEF CloseInv
<1> QED BY <1>1, <1>2, <1>3, <1>4, <1>5 DEF CloseInv

\* Every step keeps closed_ and the handle in agreement.
LEMMA CloseStep == ServerInv /\ [Next]_vars => CloseInv'
<1> SUFFICES ASSUME ServerInv, [Next]_vars PROVE CloseInv'
  OBVIOUS
<1> USE DEF uvVars, fiberVars
<1>0. FibersOK /\ MembersOK /\ CloseInv
  BY DEF ServerInv
<1>a. \A f \in Fibers : at[f] # "idle" => alive /\ \A g \in Fibers \ {f} : call[g] # "destroy"
  BY <1>0 DEF CloseInv, FreedAfterClose, MembersOK
<1>b. \A f \in Fibers : at[f] # "uv_close" /\ at[f] # "idle" => call[f] # "destroy"
  BY <1>0, <1>a DEF CloseInv
<1>1. ASSUME NEW f \in Fibers, bind(f) \/ listen(f) \/ accept(f)
      PROVE  CloseInv'
  <2>1. /\ alive /\ at[f] = "idle" /\ (\A g \in Fibers : call[g] # "destroy")
        /\ call'[f] # "destroy" /\ (\A g \in Fibers \ {f} : call'[g] = call[g])
        /\ UNCHANGED <<closed_, alive>>
    BY <1>0, <1>1, CallsEffect DEF bind, listen, accept
  <2>2. /\ tcp_' = tcp_ \/ (~closed_ /\ tcp_' = "listening")
        /\ \/ \E r : Returns(f, r)
           \/ ~closed_ /\ Suspends(f, "getaddrinfo")
           \/ Suspends(f, "cond")
           \/ Suspends(f, "unwind")
    BY <1>1 DEF bind, listen, accept, accept_loop
  <2>3. /\ at'[f] # "uv_close" /\ (at'[f] = "getaddrinfo" => ~closed_)
        /\ at'[f] = "cond" => status'[f] \in {"wait", "OK"}
        /\ \A g \in Fibers \ {f} : at'[g] = at[g] /\ status'[g] = status[g]
    BY <1>0, <2>2, ReturnsEffect, SuspendsEffect
  <2> QED BY <1>0, <2>1, <2>2, <2>3, PlainMove
<1>2. ASSUME NEW f \in Fibers, bind_resolved(f) \/ accept_resumed(f) \/ accept_unwound(f)
      PROVE  CloseInv'
  <2>1. at[f] \in {"getaddrinfo", "cond", "unwind"} /\ UNCHANGED <<call, closed_, alive>>
    BY <1>2 DEF bind_resolved, accept_resumed, accept_unwound, Resumes
  <2>2. tcp_' = tcp_ \/ (~closed_ /\ tcp_' \in {"failed", "bound"})
    BY <1>0, <1>2 DEF bind_resolved, accept_resumed, accept_unwound, Resumes, CloseInv
  <2>3. (\E r : Returns(f, r)) \/ Suspends(f, "cond") \/ Suspends(f, "unwind")
    BY <1>2, ZenonT(30) DEF bind_resolved, accept_resumed, accept_unwound, accept_loop
  <2>4. /\ at'[f] \in {"idle", "cond", "unwind"}
        /\ at'[f] = "cond" => status'[f] \in {"wait", "OK"}
        /\ \A g \in Fibers \ {f} : at'[g] = at[g] /\ status'[g] = status[g]
    BY <1>0, <2>3, ReturnsEffect, SuspendsEffect
  <2>5. alive /\ call[f] # "destroy"
    BY <1>a, <1>b, <2>1
  <2> QED BY <1>0, <2>1, <2>2, <2>4, <2>5, PlainMove
<1>3. ASSUME NEW f \in Fibers, ~closed_, close_begin(f), at[f] = "idle", alive,
             \A g \in Fibers : at[g] # "getaddrinfo" /\ call[g] # "destroy",
             call'[f] = "destroy" => \A g \in Fibers : at[g] = "idle",
             \A g \in Fibers \ {f} : call'[g] = call[g], UNCHANGED alive
      PROVE  CloseInv'
  <2>1. /\ at'[f] = "uv_close" /\ status'[f] = "wait" /\ closed_' /\ tcp_' = "closing"
        /\ \A g \in Fibers \ {f} : at'[g] = at[g] /\ status'[g] = status[g]
    BY <1>0, <1>3, SuspendsEffect DEF close_begin
  <2>2. \A g \in Fibers \ {f} : at'[g] # "uv_close" /\ at'[g] # "getaddrinfo"
    BY <1>0, <1>3, <2>1 DEF CloseInv
  <2> QED BY <1>0, <1>3, <2>1, <2>2 DEF CloseInv, FreedAfterClose
<1>4. ASSUME NEW f \in Fibers, close(f)
      PROVE  CloseInv'
  <2>1. /\ alive /\ at[f] = "idle" /\ (\A g \in Fibers : call[g] # "destroy")
        /\ call'[f] = "close" /\ (\A g \in Fibers \ {f} : call'[g] = call[g])
        /\ (\A g \in Fibers : at[g] # "getaddrinfo") /\ UNCHANGED alive
    BY <1>0, <1>4, CallsEffect DEF close
  <2>2. CASE Returns(f, "ok") /\ UNCHANGED <<closed_, tcp_>>
    BY <1>0, <2>1, <2>2, ReturnsEffect, PlainMove
  <2>3. CASE ~closed_ /\ close_begin(f)
    BY <1>3, <2>1, <2>3
  <2> QED BY <1>4, <2>2, <2>3 DEF close
<1>5. ASSUME NEW f \in Fibers, destroy(f)
      PROVE  CloseInv'
  <2>1. /\ alive /\ (\A g \in Fibers : at[g] = "idle")
        /\ call'[f] = "destroy" /\ (\A g \in Fibers \ {f} : call'[g] = call[g])
    BY <1>0, <1>5 DEF destroy, FibersOK
  <2>2. \A g \in Fibers : call[g] # "destroy"
    BY <1>0, <2>1 DEF CloseInv
  <2>3. CASE closed_ /\ alive' = FALSE /\ UNCHANGED <<closed_, tcp_, at, status>>
    <3>1. tcp_ = "closed"
      BY <1>0, <2>1, <2>3 DEF CloseInv
    <3> QED BY <1>0, <2>1, <2>2, <2>3, <3>1 DEF CloseInv, FreedAfterClose
  <2>4. CASE ~closed_ /\ close_begin(f) /\ UNCHANGED alive
    BY <1>3, <2>1, <2>2, <2>4
  <2> QED BY <1>5, <2>3, <2>4, Zenon DEF destroy
<1>6. ASSUME NEW f \in Fibers, close_done(f)
      PROVE  CloseInv'
  <2>1. /\ at[f] = "uv_close" /\ status[f] # "wait" /\ at'[f] = "idle"
        /\ \A g \in Fibers \ {f} : at'[g] = at[g]
        /\ \A g \in Fibers : status'[g] = IF at[g] = "cond" THEN "OK" ELSE status[g]
        /\ alive' = (call[f] # "destroy") /\ UNCHANGED <<closed_, tcp_, call>>
    BY <1>0, <1>6 DEF close_done, Resumes, notify_all, FibersOK
  <2>2. tcp_ = "closed" /\ \A g \in Fibers \ {f} : call[g] # "destroy"
    BY <1>0, <1>a, <2>1 DEF CloseInv
  <2>3. call[f] = "destroy" => \A g \in Fibers : at'[g] = "idle"
    BY <1>0, <2>1 DEF CloseInv
  <2>4. FreedAfterClose'
    BY <2>1, <2>2, <2>3, Zenon DEF FreedAfterClose
  <2> QED BY <1>0, <2>1, <2>2, <2>3, <2>4, ZenonT(30) DEF CloseInv
<1>7. ASSUME NEW f \in Fibers, Callback(f)
      PROVE  CloseInv'
  <2>1. /\ at[f] \in {"getaddrinfo", "unwind"}
        /\ \A g \in Fibers \ {f} : status'[g] = status[g]
        /\ UNCHANGED <<closed_, tcp_, at, call, alive>>
    BY <1>0, <1>7 DEF Callback, addrinfo_callback, new_socket_closed, Pending, FibersOK
  <2> QED BY <1>0, <2>1 DEF CloseInv, FreedAfterClose
<1>8. ASSUME NEW ok \in BOOLEAN, connection_callback(ok)
      PROVE  CloseInv'
  <2>1. /\ \A g \in Fibers : status'[g] = IF at[g] = "cond" THEN "OK" ELSE status[g]
        /\ UNCHANGED <<closed_, tcp_, at, call, alive>>
    BY <1>8 DEF connection_callback, on_connection, notify_all
  <2> QED BY <1>0, <2>1 DEF CloseInv, FreedAfterClose
<1>9. CASE on_handle_closed
  <2>1. /\ tcp_ = "closing" /\ tcp_' = "closed"
        /\ \A g \in Fibers : at[g] # "uv_close" => status'[g] = status[g]
        /\ UNCHANGED <<closed_, at, call, alive>>
    BY <1>9 DEF on_handle_closed, Pending
  <2> QED BY <1>0, <2>1 DEF CloseInv, FreedAfterClose
<1>10. CASE Quiet \/ UNCHANGED vars
  BY <1>0, <1>10 DEF Quiet, vars, CloseInv, FreedAfterClose
<1> QED
  BY <1>1, <1>2, <1>4, <1>5, <1>6, <1>7, <1>8, <1>9, <1>10 DEF Next, FiberCall, FiberResume

\* Every step keeps ServerInv.
LEMMA ServerInvStep == ServerInv /\ [Next]_vars => ServerInv'
BY FibersStep, CountStep, WaitStep, CloseStep DEF ServerInv

\* ServerInv always holds.
LEMMA InvInductive == Spec => []ServerInv
BY InvInit, ServerInvStep, PTL DEF Spec

\* The state keeps its types; in particular the int pending_connections_, which
\* accept() decrements, is never negative.
THEOREM TypeCorrect == Spec => []TypeOK
BY InvInductive, InvImplies, PTL

\* pending_connections_ counts exactly the connection that libuv holds and the
\* failures that no accept() has reported.
THEOREM CountExact == Spec => []PendingIsExact
BY InvInductive, InvImplies, PTL

\* No accept() sleeps through a connection.
THEOREM ArrivalsWake == Spec => []NoSleepThroughConnection
BY InvInductive, InvImplies, PTL

\* ~server_socket_impl frees the handle only once libuv has closed it.
THEOREM FreesAfterClose == Spec => []FreedAfterClose
BY InvInductive, InvImplies, PTL
-----------------------------------------------------------------------------
(* The server socket implements AcceptQueue.  ServerInv says that the counter *)
(* agrees with what libuv has to give; CallInv says in which call a suspended *)
(* fiber is.                                                                  *)

CallInv ==
  \A f \in Fibers :
    /\ at[f] = "getaddrinfo" => call[f] = "bind"
    /\ at[f] \in {"cond", "unwind"} => call[f] = "accept"
    /\ at[f] = "uv_close" => call[f] \in {"close", "destroy"}

\* CallInv holds initially.
LEMMA CallInvInit == Init => CallInv
BY DEF Init, CallInv

\* A fiber that calls is from then on in that call; one that resumes stays in its call.
LEMMA CallInvMove ==
  ASSUME FibersOK, CallInv, NEW f \in Fibers,
         \A g \in Fibers \ {f} : at'[g] = at[g] /\ call'[g] = call[g],
         at'[f] = "getaddrinfo" => call'[f] = "bind",
         at'[f] \in {"cond", "unwind"} => call'[f] = "accept",
         at'[f] = "uv_close" => call'[f] \in {"close", "destroy"}
  PROVE  CallInv'
BY DEF CallInv

\* What each step does to the fiber that takes it, and that it leaves the others alone.
Moves(f) ==
  /\ \A g \in Fibers \ {f} : at'[g] = at[g] /\ call'[g] = call[g] /\ result'[g] = result[g]
  /\ at'[f] = "getaddrinfo" => call'[f] = "bind"
  /\ at'[f] \in {"cond", "unwind"} => call'[f] = "accept"
  /\ at'[f] = "uv_close" => call'[f] \in {"close", "destroy"}

\* A step of a fiber moves that fiber alone.
LEMMA FiberMoves ==
  ASSUME FibersOK, CallInv, NEW f \in Fibers, FiberCall(f) \/ FiberResume(f)
  PROVE  Moves(f)
<1> USE DEF FibersOK, Moves
<1>1. CASE bind(f)
  BY <1>1 DEF bind, Calls, Suspends, Returns
<1>2. CASE listen(f)
  BY <1>2 DEF listen, Calls, Returns
<1>3. CASE accept(f)
  <2>1. at'[f] \in {"idle", "cond", "unwind"} /\ \A g \in Fibers \ {f} : at'[g] = at[g] /\ result'[g] = result[g]
    BY <1>3 DEF accept, accept_loop, Returns, Suspends
  <2> QED BY <1>3, <2>1 DEF accept, Calls
<1>4. CASE close(f)
  BY <1>4 DEF close, close_begin, Calls, Returns, Suspends
<1>5. CASE destroy(f)
  <2>1. at[f] = "idle" /\ call' = [call EXCEPT ![f] = "destroy"]
    BY <1>5 DEF destroy
  <2>2. \/ UNCHANGED <<at, result>>
        \/ at' = [at EXCEPT ![f] = "uv_close"] /\ result' = result
    BY <1>5, Zenon DEF destroy, close_begin, Suspends
  <2> QED BY <2>1, <2>2
<1>6. CASE bind_resolved(f)
  BY <1>6 DEF bind_resolved, Resumes, Returns
<1>7. CASE accept_resumed(f)
  <2>1. at'[f] \in {"idle", "cond", "unwind"} /\ \A g \in Fibers \ {f} : at'[g] = at[g] /\ result'[g] = result[g]
    BY <1>7 DEF accept_resumed, accept_loop, Returns, Suspends
  <2> QED BY <1>7, <2>1 DEF accept_resumed, Resumes, CallInv
<1>8. CASE accept_unwound(f)
  BY <1>8 DEF accept_unwound, Resumes, Returns
<1>9. CASE close_done(f)
  BY <1>9 DEF close_done, Resumes
<1> QED BY <1>1, <1>2, <1>3, <1>4, <1>5, <1>6, <1>7, <1>8, <1>9, Zenon DEF FiberCall, FiberResume

\* The steps of libuv move no fiber.
LEMMA UvMovesNone ==
  ASSUME \/ \E f \in Fibers : Callback(f)
         \/ \E ok \in BOOLEAN : connection_callback(ok)
         \/ on_handle_closed
         \/ UNCHANGED vars
  PROVE  UNCHANGED <<at, call, result>>
BY DEF Callback, addrinfo_callback, new_socket_closed, connection_callback, on_handle_closed, vars, fiberVars

\* Every step keeps CallInv.
LEMMA CallInvStep == ServerInv /\ CallInv /\ [Next]_vars => CallInv'
<1> SUFFICES ASSUME ServerInv, CallInv, [Next]_vars PROVE CallInv'
  OBVIOUS
<1>1. ASSUME NEW f \in Fibers, FiberCall(f) \/ FiberResume(f) PROVE CallInv'
  <2>1. Moves(f) /\ FibersOK
    BY <1>1, FiberMoves DEF ServerInv
  <2> QED BY <2>1, CallInvMove DEF Moves
<1>2. CASE UNCHANGED <<at, call>>
  BY <1>2 DEF CallInv
<1> QED BY <1>1, <1>2, UvMovesNone, Zenon DEF Next, Quiet
-----------------------------------------------------------------------------
(* The steps as steps of the queue.                                        *)

\* What the abstract queue sees of a fiber depends on that fiber alone.
LEMMA OutcomeIs ==
  ASSUME NEW f \in Fibers, CallInv, FibersOK
  PROVE  /\ call[f] # "accept" => accept_outcome(f) = "away"
         /\ call[f] = "accept" /\ at[f] = "idle" => accept_outcome(f) = result[f]
         /\ at[f] = "unwind" => accept_outcome(f) = "failing"
         /\ at[f] = "cond" => accept_outcome(f) = "waiting"
         /\ at[f] \notin {"cond", "unwind"} => Queue!Free(f)
<1>1. /\ at[f] \in {"idle", "getaddrinfo", "cond", "unwind", "uv_close"}
      /\ result[f] \notin {"waiting", "failing"}
  BY DEF FibersOK, Results
<1>2. at[f] \notin {"cond", "unwind"} => accept_outcome(f) \notin {"waiting", "failing"}
  BY <1>1 DEF accept_outcome, CallInv
<1> QED BY <1>1, <1>2 DEF accept_outcome, CallInv, Queue!Free

\* When one fiber moves, the queue sees what became of that fiber.
LEMMA OutcomeBecomes ==
  ASSUME NEW f \in Fibers, Moves(f)
  PROVE  Queue!Becomes(f, accept_outcome(f)')
<1>1. \A g \in Fibers \ {f} : accept_outcome(g)' = accept_outcome(g)
  BY DEF Moves, accept_outcome
<1> QED BY <1>1, ZenonT(30) DEF Queue!Becomes

\* A fiber whose outcome stays the same is none of the queue's business.
LEMMA OutcomeStays ==
  ASSUME NEW f \in Fibers, Moves(f), accept_outcome(f)' = accept_outcome(f),
         UNCHANGED <<closed_, accepted_fd, failures>>
  PROVE  UNCHANGED Queue!vars
<1>1. \A g \in Fibers : accept_outcome(g)' = accept_outcome(g)
  BY DEF Moves, accept_outcome
<1> QED BY <1>1 DEF Queue!vars

\* The loop of accept() takes what the queue has, and waits or throws when it may.
LEMMA AcceptSimulates ==
  ASSUME FibersOK, FibersOK', CallInv, CallInv', MembersOK, CountInv, NEW f \in Fibers, Moves(f),
         accept_loop(f), closed_' = closed_, call'[f] = "accept",
         at[f] = "idle" \/ at[f] = "cond"
  PROVE  [Queue!Next]_Queue!vars
<1>1. Queue!Becomes(f, accept_outcome(f)') /\ Queue!Asks(f)
  BY OutcomeBecomes, OutcomeIs DEF Queue!Asks, Queue!Free
<1>2. /\ at'[f] = "idle" => accept_outcome(f)' = result'[f]
      /\ at'[f] = "unwind" => accept_outcome(f)' = "failing"
      /\ at'[f] = "cond" => accept_outcome(f)' = "waiting"
  BY DEF accept_outcome
<1>3. CASE must_wait /\ Suspends(f, "cond") /\ UNCHANGED <<pending_connections_, accepted_fd, failures>>
  <2>1. at'[f] = "cond" /\ accept_outcome(f)' = "waiting"
    BY <1>2, <1>3 DEF Suspends, FibersOK
  <2>2. ~closed_ /\ ~accepted_fd /\ failures = 0
    BY <1>3 DEF must_wait, CountInv, PendingIsExact, MembersOK
  <2>3. CASE at[f] = "idle"
    <3>1. Queue!Free(f)
      BY <2>3, OutcomeIs
    <3>2. Queue!Wait(f)
      BY <1>1, <1>3, <2>1, <2>2, <3>1 DEF Queue!Wait
    <3> QED BY <3>2, Zenon DEF Queue!Next
  <2>4. CASE at[f] = "cond"
    <3>1. accept_outcome(f) = "waiting"
      BY <2>4, OutcomeIs
    <3> QED BY <1>3, <2>1, <3>1, OutcomeStays
  <2> QED BY <2>3, <2>4
<1>4. CASE closed_ /\ Returns(f, "runtime_error") /\ UNCHANGED <<pending_connections_, accepted_fd, failures>>
  <2>1. accept_outcome(f)' = "runtime_error"
    BY <1>2, <1>4, ZenonT(30) DEF Returns, FibersOK
  <2>2. Queue!Refuse(f)
    BY <1>1, <1>4, <2>1 DEF Queue!Refuse
  <2> QED BY <2>2, Zenon DEF Queue!Next
<1>5. CASE /\ ~must_wait /\ ~closed_
           /\ accepted_fd /\ accepted_fd' = FALSE
           /\ (Returns(f, "ok") \/ Suspends(f, "unwind")) /\ UNCHANGED failures
  <2>1. accept_outcome(f)' \in {"ok", "failing"}
    BY <1>2, <1>5, ZenonT(30) DEF Returns, Suspends, FibersOK
  <2>2. Queue!Take(f)
    BY <1>1, <1>5, <2>1 DEF Queue!Take
  <2> QED BY <2>2, Zenon DEF Queue!Next
<1>6. CASE /\ ~must_wait /\ ~closed_
           /\ ~accepted_fd /\ accepted_fd' = FALSE
           /\ Suspends(f, "unwind") /\ failures' = failures - 1
  <2>1. accept_outcome(f)' = "failing"
    BY <1>2, <1>6, ZenonT(30) DEF Suspends, FibersOK
  <2>2. failures > 0
    BY <1>6, ServerAssumption DEF must_wait, CountInv, PendingIsExact
  <2>3. accepted_fd' = accepted_fd
    BY <1>6, Zenon DEF MembersOK
  <2>4. Queue!TakeError(f)
    BY <1>1, <1>6, <2>1, <2>2, <2>3 DEF Queue!TakeError
  <2> QED BY <2>4, Zenon DEF Queue!Next
<1> QED BY <1>3, <1>4, <1>5, <1>6, Zenon DEF accept_loop

\* Every step of the socket is a step of the queue, or none.
LEMMA QueueSimulates ==
  ServerInv /\ CallInv /\ [Next]_vars => [Queue!Next]_Queue!vars
<1> SUFFICES ASSUME ServerInv, CallInv, [Next]_vars PROVE [Queue!Next]_Queue!vars
  OBVIOUS
<1>0. /\ FibersOK /\ MembersOK /\ CountInv /\ CloseInv
      /\ FibersOK' /\ CallInv'
  BY ServerInvStep, CallInvStep, Zenon DEF ServerInv
<1>1. ASSUME NEW f \in Fibers, Moves(f), at[f] = "idle", call'[f] # "accept",
             UNCHANGED <<closed_, accepted_fd, failures>>
      PROVE  Queue!Leave(f)
  <2>1. Queue!Free(f)
    BY <1>0, <1>1, OutcomeIs
  <2>2. accept_outcome(f)' = "away"
    BY <1>1 DEF accept_outcome
  <2>3. Queue!Becomes(f, "away")
    BY <1>1, <2>2, OutcomeBecomes
  <2> QED BY <1>1, <2>1, <2>3 DEF Queue!Leave
<1>2. ASSUME NEW f \in Fibers, Moves(f), at[f] = "idle", call'[f] # "accept",
             ~closed_, closed_' = TRUE, UNCHANGED <<accepted_fd, failures>>
      PROVE  Queue!Close(f)
  <2>1. Queue!Free(f)
    BY <1>0, <1>2, OutcomeIs
  <2>2. accept_outcome(f)' = "away"
    BY <1>2 DEF accept_outcome
  <2>3. Queue!Becomes(f, "away")
    BY <1>2, <2>2, OutcomeBecomes
  <2> QED BY <1>2, <2>1, <2>3 DEF Queue!Close
<1>3. ASSUME NEW f \in Fibers, Moves(f), call[f] # "accept", call' = call,
             UNCHANGED <<closed_, accepted_fd, failures>>
      PROVE  UNCHANGED Queue!vars
  BY <1>3, OutcomeStays DEF accept_outcome
<1>4. ASSUME NEW f \in Fibers, bind(f) \/ listen(f)
      PROVE  Queue!Leave(f)
  <2>1. Moves(f)
    BY <1>0, <1>4, FiberMoves, Zenon DEF FiberCall
  <2>2. at[f] = "idle" /\ call'[f] # "accept" /\ UNCHANGED <<closed_, accepted_fd, failures>>
    BY <1>0, <1>4 DEF bind, listen, Calls, FibersOK, uvVars
  <2> QED BY <1>1, <2>1, <2>2
<1>5. ASSUME NEW f \in Fibers, accept(f)
      PROVE  [Queue!Next]_Queue!vars
  <2>1. Moves(f)
    BY <1>0, <1>5, FiberMoves, Zenon DEF FiberCall
  <2>2. at[f] = "idle" /\ call'[f] = "accept" /\ closed_' = closed_ /\ accept_loop(f)
    BY <1>0, <1>5 DEF accept, Calls, FibersOK
  <2> QED BY <1>0, <2>1, <2>2, AcceptSimulates
<1>6. ASSUME NEW f \in Fibers, close(f)
      PROVE  Queue!Leave(f) \/ Queue!Close(f)
  <2>1. Moves(f)
    BY <1>0, <1>6, FiberMoves, Zenon DEF FiberCall
  <2>2. at[f] = "idle" /\ call'[f] # "accept" /\ UNCHANGED <<accepted_fd, failures>>
    BY <1>0, <1>6 DEF close, Calls, FibersOK
  <2>3. closed_' = closed_ \/ (~closed_ /\ closed_' = TRUE)
    BY <1>6 DEF close, close_begin
  <2> QED BY <1>1, <1>2, <2>1, <2>2, <2>3, Zenon
<1>7. ASSUME NEW f \in Fibers, destroy(f)
      PROVE  Queue!Leave(f) \/ Queue!Close(f)
  <2>1. Moves(f)
    BY <1>0, <1>7, FiberMoves, Zenon DEF FiberCall
  <2>2. at[f] = "idle" /\ call'[f] # "accept" /\ UNCHANGED <<accepted_fd, failures>>
    BY <1>0, <1>7 DEF destroy, FibersOK
  <2>3. closed_' = closed_ \/ (~closed_ /\ closed_' = TRUE)
    BY <1>7, ZenonT(30) DEF destroy, close_begin
  <2> QED BY <1>1, <1>2, <2>1, <2>2, <2>3, Zenon
<1>8. ASSUME NEW f \in Fibers, bind_resolved(f) \/ close_done(f)
      PROVE  UNCHANGED Queue!vars
  <2>1. Moves(f)
    BY <1>0, <1>8, FiberMoves, ZenonT(30) DEF FiberResume
  <2>2. call[f] # "accept" /\ call' = call /\ UNCHANGED <<closed_, accepted_fd, failures>>
    BY <1>8, ZenonT(30) DEF bind_resolved, close_done, Resumes, CallInv, uvVars
  <2> QED BY <1>3, <2>1, <2>2
<1>9. ASSUME NEW f \in Fibers, accept_resumed(f)
      PROVE  [Queue!Next]_Queue!vars
  <2>1. Moves(f)
    BY <1>0, <1>9, FiberMoves, Zenon DEF FiberResume
  <2>2. at[f] = "cond" /\ call'[f] = "accept" /\ closed_' = closed_ /\ accept_loop(f)
    BY <1>9 DEF accept_resumed, Resumes, CallInv
  <2> QED BY <1>0, <2>1, <2>2, AcceptSimulates
<1>10. ASSUME NEW f \in Fibers, accept_unwound(f)
       PROVE  Queue!Fail(f)
  <2>1. Moves(f)
    BY <1>0, <1>10, FiberMoves, Zenon DEF FiberResume
  <2>2. at[f] = "unwind" /\ call'[f] = "accept" /\ at'[f] = "idle" /\ result'[f] = "uv_error"
    BY <1>0, <1>10 DEF accept_unwound, Resumes, Returns, CallInv, FibersOK, check_uv_status
  <2>3. accept_outcome(f) = "failing" /\ accept_outcome(f)' = "uv_error"
    BY <1>0, <2>2, OutcomeIs DEF accept_outcome
  <2> QED BY <1>10, <2>1, <2>3, OutcomeBecomes DEF accept_unwound, uvVars, Queue!Fail
<1>11. ASSUME NEW ok \in BOOLEAN, connection_callback(ok)
       PROVE  Queue!Arrive(ok)
  <2>1. ~closed_ /\ \A g \in Fibers : accept_outcome(g)' = accept_outcome(g)
    BY <1>0, <1>11 DEF connection_callback, CloseInv, accept_outcome
  <2> QED BY <1>11, <2>1 DEF connection_callback, Queue!Arrive
<1>12. CASE on_handle_closed
  <2>1. closed_ /\ \A g \in Fibers : accept_outcome(g)' = accept_outcome(g)
    BY <1>0, <1>12 DEF on_handle_closed, CloseInv, accept_outcome
  <2> QED BY <1>12, <2>1 DEF on_handle_closed, Queue!Next, Queue!Drop
<1>13. ASSUME (\E f \in Fibers : Callback(f)) \/ UNCHANGED vars
       PROVE  UNCHANGED Queue!vars
  <2>1. UNCHANGED <<closed_, accepted_fd, failures>>
    BY <1>13 DEF Callback, addrinfo_callback, new_socket_closed, vars, uvVars
  <2>2. \A g \in Fibers : accept_outcome(g)' = accept_outcome(g)
    BY <1>13, UvMovesNone DEF accept_outcome
  <2> QED BY <2>1, <2>2 DEF Queue!vars
<1>14. ASSUME NEW f \in Fibers, FiberCall(f) \/ FiberResume(f)
       PROVE  [Queue!Next]_Queue!vars
  BY <1>4, <1>5, <1>6, <1>7, <1>8, <1>9, <1>10, <1>14, Zenon DEF FiberCall, FiberResume, Queue!Next
<1> QED BY <1>11, <1>12, <1>13, <1>14, Zenon DEF Next, Quiet, Queue!Next

\* A server socket implements AcceptQueue, for every number of fibers, calls and
\* connections: no accept() waits over a connection, none takes what another took,
\* and none is refused before close().
THEOREM ServerImplementsQueue == Spec => ImplementsQueue
<1>1. Init => Queue!Init
  BY DEF Init, Queue!Init, accept_outcome
<1> QED
  BY <1>1, InvInit, ServerInvStep, CallInvInit, CallInvStep, QueueSimulates, PTL
     DEF Spec, ImplementsQueue, Queue!Spec
=============================================================================
