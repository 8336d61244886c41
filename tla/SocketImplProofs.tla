-------------------------- MODULE SocketImplProofs --------------------------
(* Machine-checked proofs about SocketImpl, for any number of fibers, calls  *)
(* and buffer sizes.  The inductive invariant has two parts that lean on     *)
(* each other, how close() proceeds and what a read in progress looks like;  *)
(* a third, where connect() may be, holds if nothing overlaps with it.       *)
EXTENDS SocketImpl, TLAPS

-----------------------------------------------------------------------------
(* Types *)

\* What check_uv_status lets a call end with.
LEMMA CheckedStatus ==
  ASSUME NEW s
  PROVE  /\ check_uv_status(s) \in {"ok", "socket_closed_error", "address_family_not_supported_error",
                                    "uv_error"}
         /\ connect_result(s) \in {"ok", "socket_closed_error", "address_family_not_supported_error",
                                   "io_error"}
BY DEF check_uv_status, connect_result

Statuses ==
  {"wait", "OK", "EAI_NONAME", "EAI_ADDRFAMILY", "ECONNREFUSED", "EPIPE", "ECANCELED"}
    \cup ShutdownStatus

Results ==
  {"none", "ok", "0", "socket_closed_error", "io_error", "uv_error",
   "address_family_not_supported_error"}

PlaceOK ==
  /\ at \in [Fibers -> Points]
  /\ status \in [Fibers -> Statuses]
  /\ result \in [Fibers -> Results]

CallOK ==
  /\ call \in [Fibers -> {"none", "connect", "read", "write", "close", "destroy"}]
  /\ calls \in [Fibers -> 0..MaxCalls]

HandleOK ==
  /\ closed_ \in BOOLEAN
  /\ tcp_ \in {"idle", "failed", "connecting", "connected", "closing", "closed"}
  /\ uv_reading \in BOOLEAN
  /\ peer \in {"open", "eof", "reset"}

DataOK ==
  /\ reading_ \in BOOLEAN
  /\ buf_ \in Fibers \cup {NoBuf}
  /\ len_ \in Nat \cup {ERROR_EOF, ERROR_READ_FAILED}
  /\ delivered \in Nat
  /\ returned \in Nat
  /\ alive \in BOOLEAN

\* TypeOK in four parts.
LEMMA TypeParts == TypeOK <=> PlaceOK /\ CallOK /\ HandleOK /\ DataOK
BY DEF TypeOK, PlaceOK, CallOK, HandleOK, DataOK, Statuses, Results

\* A fiber begins a call.
LEMMA CallsType ==
  ASSUME CallOK, NEW f \in Fibers, NEW op \in {"connect", "read", "write", "close"}, Calls(f, op)
  PROVE  CallOK'
BY SocketAssumption DEF CallOK, Calls

\* A fiber suspends or returns.
LEMMA PlaceType ==
  ASSUME PlaceOK, NEW f \in Fibers,
         \/ \E p \in Points : Suspends(f, p)
         \/ \E r \in Results : Returns(f, r)
  PROVE  PlaceOK'
BY DEF PlaceOK, Points, Statuses, Suspends, Returns

\* close() begins.
LEMMA CloseBeginType ==
  ASSUME PlaceOK, HandleOK, NEW f \in Fibers, close_begin(f), UNCHANGED peer
  PROVE  PlaceOK' /\ HandleOK'
<1>1. \E p \in Points : Suspends(f, p)
  BY DEF close_begin, close_handle, Points
<1> QED BY <1>1, PlaceType, Zenon DEF HandleOK, close_begin, close_handle

\* read() begins.
LEMMA ReadBeginType ==
  ASSUME PlaceOK, HandleOK, DataOK, NEW f \in Fibers, NEW b \in {f, NoBuf}, NEW n \in Nat,
         read_begin(f, b, n)
  PROVE  PlaceOK' /\ HandleOK' /\ DataOK'
<1> USE SocketAssumption DEF dataVars
<1>1. (\E p \in Points : Suspends(f, p)) \/ (\E r \in Results : Returns(f, r))
  BY CheckedStatus DEF read_begin, Points, Results
<1>2. HandleOK' /\ DataOK'
  BY Zenon DEF read_begin, HandleOK, DataOK
<1> QED BY <1>1, <1>2, PlaceType

\* notify_all leaves statuses statuses.
LEMMA NotifiedType ==
  ASSUME PlaceOK
  PROVE  notify_all(status) \in [Fibers -> Statuses]
BY DEF PlaceOK, Statuses, notify_all

\* Every step preserves TypeOK.
LEMMA TypeStep == TypeOK /\ [Next]_vars => TypeOK'
<1> SUFFICES ASSUME TypeOK, [Next]_vars PROVE TypeOK'
  OBVIOUS
<1> USE SocketAssumption
<1> USE DEF memberVars, uvVars, fiberVars, dataVars
<1>0. PlaceOK /\ CallOK /\ HandleOK /\ DataOK
  BY TypeParts
<1> SUFFICES PlaceOK' /\ CallOK' /\ HandleOK' /\ DataOK'
  BY TypeParts, PTL
<1> HIDE DEF TypeOK
<1>1. ASSUME NEW f \in Fibers, connect(f)
      PROVE  PlaceOK' /\ CallOK' /\ HandleOK' /\ DataOK'
  <2>1. (\E p \in Points : Suspends(f, p)) \/ (\E r \in Results : Returns(f, r))
    BY <1>1, CheckedStatus DEF connect, Points, Results
  <2> QED BY <1>0, <1>1, <2>1, PlaceType, CallsType DEF connect, HandleOK, DataOK
<1>2. ASSUME NEW f \in Fibers, connect_resolved(f)
      PROVE  PlaceOK' /\ CallOK' /\ HandleOK' /\ DataOK'
  <2>1. (\E p \in Points : Suspends(f, p)) \/ (\E r \in Results : Returns(f, r))
    BY <1>2, CheckedStatus DEF connect_resolved, Points, Results
  <2> QED BY <1>0, <1>2, <2>1, PlaceType DEF connect_resolved, Resumes, CallOK, HandleOK, DataOK
<1>3. ASSUME NEW f \in Fibers, connect_done(f) \/ write_done(f)
      PROVE  PlaceOK' /\ CallOK' /\ HandleOK' /\ DataOK'
  <2>1. \E r \in Results : Returns(f, r)
    BY <1>3, CheckedStatus DEF connect_done, write_done, Results
  <2> QED
    BY <1>0, <1>3, <2>1, PlaceType DEF connect_done, write_done, Resumes, CallOK, HandleOK, DataOK
<1>4. ASSUME NEW f \in Fibers, close(f)
      PROVE  PlaceOK' /\ CallOK' /\ HandleOK' /\ DataOK'
  <2>1. CallOK' /\ DataOK'
    BY <1>0, <1>4, CallsType DEF close, DataOK
  <2>2. CASE Returns(f, "ok") /\ UNCHANGED <<closed_, tcp_, uv_reading>>
    BY <1>0, <1>4, <2>1, <2>2, PlaceType DEF close, HandleOK, Results
  <2>3. CASE close_begin(f)
    BY <1>0, <1>4, <2>1, <2>3, CloseBeginType DEF close
  <2> QED BY <1>4, <2>2, <2>3 DEF close
<1>5. ASSUME NEW f \in Fibers, close_shutdown_done(f)
      PROVE  PlaceOK' /\ CallOK' /\ HandleOK' /\ DataOK'
  <2>1. CallOK' /\ DataOK'
    BY <1>0, <1>5, Zenon DEF close_shutdown_done, Resumes, CallOK, DataOK
  <2>2. CASE close_handle(f)
    <3>1. PlaceOK'
      BY <1>0, <2>2, PlaceType DEF close_handle, Points
    <3> QED BY <1>0, <1>5, <2>1, <2>2, <3>1, Zenon DEF close_shutdown_done, close_handle, HandleOK
  <2>3. CASE at' = [at EXCEPT ![f] = "terminate"] /\ UNCHANGED <<tcp_, uv_reading, status, result>>
    BY <1>0, <1>5, <2>1, <2>3 DEF close_shutdown_done, PlaceOK, Points, HandleOK
  <2>4. CASE Returns(f, "uv_error") /\ UNCHANGED <<tcp_, uv_reading>>
    BY <1>0, <1>5, <2>1, <2>4, PlaceType DEF close_shutdown_done, Results, HandleOK
  <2> QED BY <1>5, <2>2, <2>3, <2>4, Zenon DEF close_shutdown_done
<1>6. ASSUME NEW f \in Fibers, close_done(f)
      PROVE  PlaceOK' /\ CallOK' /\ HandleOK' /\ DataOK'
  <2>1. PlaceOK'
    BY <1>0, <1>6, NotifiedType DEF close_done, PlaceOK, Points, Results
  <2> QED BY <1>0, <1>6, <2>1 DEF close_done, Resumes, CallOK, HandleOK, DataOK
<1>7. ASSUME NEW f \in Fibers, destroy(f)
      PROVE  PlaceOK' /\ CallOK' /\ HandleOK' /\ DataOK'
  <2>1. CallOK'
    BY <1>0, <1>7 DEF destroy, CallOK
  <2>2. CASE alive' = FALSE /\ UNCHANGED <<closed_, tcp_, uv_reading, at, status, result>>
    BY <1>0, <1>7, <2>1, <2>2, Zenon DEF destroy, PlaceOK, HandleOK, DataOK
  <2>3. CASE close_begin(f) /\ UNCHANGED alive
    BY <1>0, <1>7, <2>1, <2>3, CloseBeginType DEF destroy, DataOK
  <2> QED BY <1>7, <2>2, <2>3, Zenon DEF destroy
<1>8. ASSUME NEW f \in Fibers, read(f)
      PROVE  PlaceOK' /\ CallOK' /\ HandleOK' /\ DataOK'
  <2>1. PICK n \in ReadSizes, b \in {f, NoBuf} : read_begin(f, b, n)
    BY <1>8 DEF read
  <2>2. CallOK'
    BY <1>0, <1>8, CallsType DEF read
  <2> QED BY <1>0, <2>1, <2>2, ReadBeginType
<1>9. ASSUME NEW f \in Fibers, read_resumed(f)
      PROVE  PlaceOK' /\ CallOK' /\ HandleOK' /\ DataOK'
  <2>1. CallOK'
    BY <1>0, <1>9 DEF read_resumed, Resumes, CallOK
  <2>2. DataOK'
    <3>1. returned' = returned \/ (len_ >= 0 /\ returned' = returned + len_)
      BY <1>9 DEF read_resumed
    <3>2. returned' \in Nat
      BY <1>0, <3>1 DEF DataOK, ERROR_EOF, ERROR_READ_FAILED
    <3>3. len_' = len_ \/ len_' = 0
      BY <1>9 DEF read_resumed
    <3>4. len_' \in Nat \cup {ERROR_EOF, ERROR_READ_FAILED}
      BY <1>0, <3>3 DEF DataOK
    <3>5. reading_' \in BOOLEAN /\ buf_' \in Fibers \cup {NoBuf} /\ UNCHANGED <<delivered, alive>>
      BY <1>0, <1>9, Zenon DEF read_resumed, DataOK
    <3> QED BY <1>0, <3>2, <3>4, <3>5 DEF DataOK
  <2>3. CASE close_begin(f)
    BY <1>0, <1>9, <2>1, <2>2, <2>3, CloseBeginType DEF read_resumed
  <2>4. CASE /\ UNCHANGED <<closed_, tcp_, uv_reading>>
             /\ Suspends(f, "cond") \/ \E r \in {"io_error", "0", "ok"} : Returns(f, r)
    <3>1. PlaceOK'
      BY <1>0, <2>4, PlaceType DEF Points, Results
    <3> QED BY <1>0, <1>9, <2>1, <2>2, <2>4, <3>1 DEF read_resumed, HandleOK
  <2> QED BY <1>9, <2>3, <2>4 DEF read_resumed
<1>10. ASSUME NEW f \in Fibers, write(f)
       PROVE  PlaceOK' /\ CallOK' /\ HandleOK' /\ DataOK'
  <2>1. (\E p \in Points : Suspends(f, p)) \/ (\E r \in Results : Returns(f, r))
    BY <1>10, CheckedStatus DEF write, Points, Results
  <2> QED BY <1>0, <1>10, <2>1, PlaceType, CallsType DEF write, HandleOK, DataOK
<1>11. ASSUME NEW f \in Fibers, Callback(f)
       PROVE  PlaceOK' /\ CallOK' /\ HandleOK' /\ DataOK'
  <2>1. UNCHANGED <<memberVars, uv_reading, peer, at, call, result, calls, dataVars, alive>>
    BY <1>11 DEF Callback, addrinfo_callback, connection_callback, write_callback, shutdown_callback
  <2>2. status' \in [Fibers -> Statuses]
    BY <1>0, <1>11 DEF Callback, addrinfo_callback, connection_callback, write_callback,
                       shutdown_callback, PlaceOK, Statuses
  <2>3. tcp_' = tcp_ \/ tcp_' \in {"connected", "failed"}
    BY <1>11 DEF Callback, addrinfo_callback, connection_callback, write_callback, shutdown_callback
  <2> QED BY <1>0, <2>1, <2>2, <2>3 DEF PlaceOK, CallOK, HandleOK, DataOK
<1>12. CASE read_callback
  <2>1. PICK nread \in nreads : /\ on_read_finished(nread)
                                /\ delivered' = IF nread > 0 THEN delivered + nread ELSE delivered
    BY <1>12 DEF read_callback
  <2>2. nread \in Nat \cup {ERROR_EOF, ERROR_READ_FAILED}
    BY <2>1 DEF nreads, ERROR_EOF, ERROR_READ_FAILED
  <2>3. delivered' \in Nat
    BY <1>0, <2>1, <2>2 DEF ERROR_EOF, ERROR_READ_FAILED, DataOK
  <2>4. PlaceOK'
    BY <1>0, <1>12, <2>1, NotifiedType DEF read_callback, on_read_finished, PlaceOK
  <2> QED BY <1>0, <1>12, <2>1, <2>2, <2>3, <2>4, Zenon
             DEF read_callback, on_read_finished, uv_read_stop, CallOK, HandleOK, DataOK
<1>13. CASE on_handle_closed
  BY <1>0, <1>13 DEF on_handle_closed, PlaceOK, CallOK, HandleOK, DataOK, Statuses
<1>14. CASE peer_stops
  BY <1>0, <1>14 DEF peer_stops, PlaceOK, CallOK, HandleOK, DataOK
<1>15. CASE UNCHANGED vars
  BY <1>0, <1>15 DEF vars, PlaceOK, CallOK, HandleOK, DataOK
<1> QED
  BY <1>1, <1>2, <1>3, <1>4, <1>5, <1>6, <1>7, <1>8, <1>9, <1>10, <1>11, <1>12, <1>13, <1>14, <1>15
     DEF Next, FiberCall, FiberResume, Destroyed

\* TypeOK holds initially.
LEMMA TypeInit == Init => TypeOK
<1> SUFFICES ASSUME Init PROVE TypeOK
  OBVIOUS
<1>1. PlaceOK
  BY DEF Init, PlaceOK, Points, Statuses, Results
<1>2. CallOK
  BY SocketAssumption DEF Init, CallOK
<1>3. HandleOK /\ DataOK
  BY SocketAssumption, Zenon DEF Init, HandleOK, DataOK
<1> QED BY <1>1, <1>2, <1>3, TypeParts

\* Type correctness: a call on a socket always ends with a value or one of the
\* exceptions that the model names, and len_ is a size or one of two error codes.
THEOREM TypeCorrect == Spec => []TypeOK
BY TypeInit, TypeStep, PTL DEF Spec
-----------------------------------------------------------------------------
(* The invariant, for any calls in any order.                               *)

\* One fiber closes the socket; a handle is closing only in a closed socket, and not
\* before the shutdown is over.
CloseInv ==
  /\ \A f, g \in Fibers :
       /\ at[f] \in {"uv_shutdown", "uv_close", "terminate"}
       /\ at[g] \in {"uv_shutdown", "uv_close", "terminate"}
       => f = g
  /\ \A f \in Fibers : at[f] \in {"uv_shutdown", "uv_close", "terminate"} => closed_
  /\ tcp_ \in {"closing", "closed"} => closed_
  /\ \A f \in Fibers : at[f] = "uv_shutdown" => tcp_ \notin {"closing", "closed"}

\* The handle reads for the fiber that waits, or for nobody, and no longer once
\* uv_close has been called; the end of the stream is found on a connection; a read
\* that closes the socket has released reading_.
ReadInv ==
  /\ OneReader
  /\ BufferOutlivesRead
  /\ uv_reading => tcp_ # "idle"
  /\ uv_reading /\ reading_ => buf_ # NoBuf
  /\ reading_ /\ len_ = ERROR_EOF => tcp_ = "connected" \/ closed_
  /\ \A f \in Fibers : at[f] = "uv_shutdown" /\ call[f] = "read" => ~reading_
  /\ \A f \in Fibers : at[f] = "uv_close" => ~uv_reading

SocketInv == TypeOK /\ CloseInv /\ ReadInv

\* The invariant holds initially.
LEMMA SocketInvInit == Init => CloseInv /\ ReadInv
BY SocketAssumption DEF Init, CloseInv, ReadInv, OneReader, BufferOutlivesRead

\* A fiber suspends.
LEMMA SuspendsEffect ==
  ASSUME TypeOK, NEW f \in Fibers, NEW p, Suspends(f, p)
  PROVE  /\ at'[f] = p /\ status'[f] = "wait"
         /\ \A g \in Fibers \ {f} : at'[g] = at[g] /\ status'[g] = status[g]
BY DEF TypeOK, Suspends

\* A fiber returns from its call.
LEMMA ReturnsEffect ==
  ASSUME TypeOK, NEW f \in Fibers, NEW r, Returns(f, r)
  PROVE  /\ at'[f] = "idle" /\ status' = status
         /\ \A g \in Fibers \ {f} : at'[g] = at[g]
BY DEF TypeOK, Returns

\* A fiber that is not in read() moves to a place outside read() and close(), or
\* stays; members and handle are left alone.
LEMMA QuietMove ==
  ASSUME SocketInv, NEW f \in Fibers, at[f] # "cond", at'[f] \in {"idle", "getaddrinfo", "uv_write"},
         \A g \in Fibers \ {f} : at'[g] = at[g] /\ status'[g] = status[g] /\ call'[g] = call[g],
         UNCHANGED <<memberVars, tcp_, uv_reading>>
  PROVE  CloseInv' /\ ReadInv'
<1> USE DEF memberVars
<1>0. TypeOK /\ CloseInv /\ ReadInv
  BY DEF SocketInv
<1>1. CloseInv'
  BY <1>0 DEF CloseInv
<1>2. OneReader'
  BY <1>0 DEF ReadInv, OneReader
<1>3. BufferOutlivesRead'
  BY <1>0, SocketAssumption DEF ReadInv, BufferOutlivesRead, Pending, TypeOK
<1>4. ReadInv'
  BY <1>0, <1>2, <1>3 DEF ReadInv
<1> QED BY <1>1, <1>4

\* close() begins on an open socket: the rest of the fibers and reading_ are as
\* before.
LEMMA CloseBeginKeeps ==
  ASSUME SocketInv, NEW f \in Fibers, close_begin(f), ~closed_,
         at[f] \in {"idle", "cond"},
         \A g \in Fibers \ {f} : call'[g] = call[g],
         at[f] = "idle" => UNCHANGED reading_ /\ call'[f] # "read",
         at[f] = "cond" => reading_' = FALSE /\ status[f] # "wait",
         UNCHANGED <<buf_, len_>>
  PROVE  CloseInv' /\ ReadInv'
<1>0. TypeOK /\ CloseInv /\ ReadInv
  BY DEF SocketInv
<1>1. /\ closed_' = TRUE /\ status'[f] = "wait"
      /\ \A g \in Fibers \ {f} : at'[g] = at[g] /\ status'[g] = status[g]
      /\ \/ at'[f] = "uv_shutdown" /\ uv_takes /\ UNCHANGED <<tcp_, uv_reading>>
         \/ at'[f] = "uv_close" /\ tcp_' = "closing" /\ uv_reading' = FALSE
  BY <1>0, SuspendsEffect DEF close_begin, close_handle
<1>2. CloseInv'
  BY <1>0, <1>1 DEF CloseInv
<1>3. OneReader'
  BY <1>0, <1>1 DEF ReadInv, OneReader
<1>4. BufferOutlivesRead'
  <2>1. uv_reading' => uv_reading /\ tcp_' = tcp_
    BY <1>1, Zenon
  <2>2. uv_reading => buf_ # f
    BY <1>0, SocketAssumption DEF ReadInv, BufferOutlivesRead, Pending
  <2> QED BY <1>0, <1>1, <2>1, <2>2 DEF ReadInv, BufferOutlivesRead, Pending, TypeOK
<1>5. ReadInv'
  <2>1. uv_reading' => uv_reading /\ tcp_' = tcp_
    BY <1>1, Zenon
  <2>2. reading_' => reading_
    BY <1>0, SocketAssumption, Zenon DEF TypeOK
  <2>3. \A g \in Fibers : at'[g] = "uv_shutdown" /\ call'[g] = "read" => ~reading_'
    BY <1>0, <1>1, <2>2 DEF ReadInv
  <2> QED BY <1>0, <1>1, <1>3, <1>4, <2>1, <2>2, <2>3 DEF ReadInv
<1> QED BY <1>2, <1>5

\* read() begins, in a fiber outside every call.
LEMMA ReadBeginKeeps ==
  ASSUME SocketInv, NEW f \in Fibers, NEW b \in {f, NoBuf}, NEW n \in Nat, read_begin(f, b, n),
         at[f] = "idle", \A g \in Fibers \ {f} : call'[g] = call[g]
  PROVE  CloseInv' /\ ReadInv'
<1> USE SocketAssumption
<1> USE DEF memberVars, uvVars, fiberVars, dataVars
<1>0. TypeOK /\ CloseInv /\ ReadInv
  BY DEF SocketInv
<1>a. buf_ \in Fibers \cup {NoBuf} /\ NoBuf \notin Fibers
  BY <1>0, ZenonT(30) DEF TypeOK
<1>2. UNCHANGED <<closed_, tcp_>>
  BY ZenonT(30) DEF read_begin
<1>3. CASE (\E r : Returns(f, r)) /\ UNCHANGED <<reading_, buf_, len_, uv_reading>>
  <2>1. at'[f] = "idle" /\ \A g \in Fibers \ {f} : at'[g] = at[g] /\ status'[g] = status[g]
    BY <1>0, <1>3, ReturnsEffect
  <2>2. UNCHANGED <<memberVars, tcp_, uv_reading>>
    BY <1>2, <1>3
  <2> QED BY <2>1, <2>2, QuietMove, ZenonT(30)
<1>4. CASE /\ ~closed_ /\ ~reading_ /\ ~reading_' /\ (\E r : Returns(f, r))
           /\ buf_' = NoBuf /\ (uv_reading' = uv_reading \/ uv_takes)
  <2>1. /\ at'[f] = "idle" /\ status' = status
        /\ \A g \in Fibers \ {f} : at'[g] = at[g]
    BY <1>0, <1>4, ReturnsEffect
  <2>2. CloseInv'
    BY <1>0, <1>2, <2>1, ZenonT(30) DEF CloseInv
  <2>3. OneReader'
    BY <1>0, <1>2, <1>4, <2>1, ZenonT(30) DEF ReadInv, OneReader
  <2>4. BufferOutlivesRead' /\ (uv_reading' => tcp_' # "idle")
    BY <1>0, <1>2, <1>4 DEF ReadInv, BufferOutlivesRead, uv_takes
  <2>5. \A g \in Fibers : at'[g] # "uv_close"
    BY <1>0, <1>4, <2>1, ZenonT(30) DEF CloseInv
  <2>6. ReadInv'
    BY <1>4, <2>3, <2>4, <2>5 DEF ReadInv
  <2> QED BY <2>2, <2>6
<1>5. CASE /\ ~closed_ /\ ~reading_ /\ uv_takes /\ Suspends(f, "cond")
           /\ reading_' = TRUE /\ buf_' = f /\ len_' = n /\ uv_reading' = TRUE
  <2>1. /\ at'[f] = "cond" /\ status'[f] = "wait"
        /\ \A g \in Fibers \ {f} : at'[g] = at[g] /\ status'[g] = status[g]
    BY <1>0, <1>5, SuspendsEffect
  <2>2. CloseInv'
    BY <1>0, <1>2, <2>1, ZenonT(30) DEF CloseInv
  <2>3. OneReader'
    BY <1>0, <1>5, <2>1 DEF ReadInv, OneReader
  <2>4. BufferOutlivesRead' /\ tcp_' # "idle"
    BY <1>2, <1>5, <2>1 DEF BufferOutlivesRead, Pending, uv_takes
  <2>5. \A g \in Fibers : at'[g] \notin {"uv_shutdown", "uv_close"}
    BY <1>0, <1>5, <2>1, ZenonT(30) DEF CloseInv
  <2>6. ReadInv'
    BY <1>a, <1>2, <1>5, <2>3, <2>4, <2>5 DEF ReadInv, ERROR_EOF
  <2> QED BY <2>2, <2>6
<1>6. CASE closed_ \/ concurrent_read
  <2>1. (\E r : Returns(f, r)) /\ UNCHANGED <<reading_, buf_, len_, uv_reading>>
    BY <1>6, Zenon DEF read_begin
  <2> QED BY <1>3, <2>1
<1>7. CASE ~closed_ /\ ~concurrent_read /\ b = NoBuf
  <2>1. CASE \E s \in uv_read_refusals :
               Returns(f, check_uv_status(s)) /\ buf_' = NoBuf /\ UNCHANGED <<reading_, uv_reading>>
    BY <1>4, <1>7, <2>1 DEF concurrent_read
  <2>2. CASE /\ uv_takes /\ reading_' = FALSE /\ buf_' = NoBuf /\ Returns(f, "ok")
    BY <1>4, <1>7, <2>2 DEF concurrent_read
  <2> QED BY <1>7, <2>1, <2>2, Zenon DEF read_begin
<1>8. CASE ~closed_ /\ ~concurrent_read /\ b = f
  <2>1. f # NoBuf
    BY <1>a
  <2>2. CASE /\ \E s \in uv_read_refusals : Returns(f, check_uv_status(s))
             /\ buf_' = NoBuf /\ UNCHANGED <<reading_, uv_reading>>
    BY <1>4, <1>8, <2>2 DEF concurrent_read
  <2>3. CASE /\ uv_takes /\ Suspends(f, "cond")
             /\ reading_' = TRUE /\ buf_' = f /\ len_' = n /\ uv_reading' = TRUE
    BY <1>5, <1>8, <2>3 DEF concurrent_read
  <2> QED BY <1>8, <2>1, <2>2, <2>3, Zenon DEF read_begin
<1> QED BY <1>6, <1>7, <1>8

\* Every step preserves the invariant.
LEMMA SocketInvStep == SocketInv /\ [Next]_vars => CloseInv' /\ ReadInv'
<1> SUFFICES ASSUME SocketInv, [Next]_vars PROVE CloseInv' /\ ReadInv'
  OBVIOUS
<1> USE SocketAssumption
<1> USE DEF memberVars, uvVars, fiberVars, dataVars
<1>0. TypeOK /\ CloseInv /\ ReadInv
  BY DEF SocketInv
<1>a. /\ at \in [Fibers -> Points] /\ buf_ \in Fibers \cup {NoBuf} /\ NoBuf \notin Fibers
      /\ call \in [Fibers -> {"none", "connect", "read", "write", "close", "destroy"}]
  BY <1>0 DEF TypeOK
<1>1. ASSUME NEW f \in Fibers, connect(f)
      PROVE  CloseInv' /\ ReadInv'
  <2>1. /\ at[f] = "idle" /\ UNCHANGED <<memberVars, tcp_, uv_reading>>
        /\ \A g \in Fibers \ {f} : call'[g] = call[g]
    BY <1>1, <1>a DEF connect, Calls
  <2>2. Suspends(f, "getaddrinfo") \/ \E r : Returns(f, r)
    BY <1>1 DEF connect
  <2> QED BY <1>0, <2>1, <2>2, ReturnsEffect, SuspendsEffect, QuietMove
<1>2. ASSUME NEW f \in Fibers, connect_resolved(f)
      PROVE  CloseInv' /\ ReadInv'
  <2>1. /\ at[f] = "getaddrinfo" /\ UNCHANGED <<memberVars, uv_reading, call>>
    BY <1>2 DEF connect_resolved, Resumes
  <2>2. CASE tcp_ # "connected" /\ tcp_' = "connecting" /\ Suspends(f, "uv_connect")
    <3>1. /\ at'[f] = "uv_connect" /\ status'[f] = "wait"
          /\ \A g \in Fibers \ {f} : at'[g] = at[g] /\ status'[g] = status[g]
      BY <1>0, <2>2, SuspendsEffect, ZenonT(30)
    <3>2. CloseInv'
      BY <1>0, <2>1, <2>2, <3>1 DEF CloseInv
    <3>3. ReadInv'
      BY <1>0, <1>a, <2>1, <2>2, <3>1 DEF ReadInv, OneReader, BufferOutlivesRead, Pending
    <3> QED BY <3>2, <3>3
  <2>3. CASE /\ \E r : Returns(f, r)
             /\ tcp_' = tcp_ \/ (tcp_ = "idle" /\ tcp_' = "failed")
    <3>1. /\ at'[f] = "idle" /\ status' = status
          /\ \A g \in Fibers \ {f} : at'[g] = at[g]
      BY <1>0, <2>3, ReturnsEffect, ZenonT(30)
    <3>2. CloseInv'
      BY <1>0, <2>1, <2>3, <3>1, ZenonT(30) DEF CloseInv
    <3>3. ReadInv'
      BY <1>0, <1>a, <2>1, <2>3, <3>1, ZenonT(30) DEF ReadInv, OneReader, BufferOutlivesRead, Pending
    <3> QED BY <3>2, <3>3
  <2> QED BY <1>2, <2>2, <2>3, ZenonT(30) DEF connect_resolved
<1>3. ASSUME NEW f \in Fibers, connect_done(f) \/ write_done(f)
      PROVE  CloseInv' /\ ReadInv'
  <2>1. /\ at[f] \in {"uv_connect", "uv_write"} /\ status[f] # "wait"
        /\ UNCHANGED <<memberVars, tcp_, uv_reading, call>> /\ \E r : Returns(f, r)
    BY <1>3 DEF connect_done, write_done, Resumes
  <2> QED BY <1>0, <2>1, ReturnsEffect, QuietMove, ZenonT(30)
<1>4. ASSUME NEW f \in Fibers, close(f)
      PROVE  CloseInv' /\ ReadInv'
  <2>1. /\ at[f] = "idle" /\ UNCHANGED <<reading_, buf_, len_>> /\ call'[f] = "close"
        /\ \A g \in Fibers \ {f} : call'[g] = call[g]
    BY <1>4, <1>a, ZenonT(30) DEF close, Calls
  <2>2. CASE Returns(f, "ok") /\ UNCHANGED <<closed_, tcp_, uv_reading>>
    BY <1>0, <2>1, <2>2, ReturnsEffect, QuietMove
  <2>3. CASE ~closed_ /\ close_begin(f)
    BY <2>1, <2>3, CloseBeginKeeps, Zenon
  <2> QED BY <1>4, <2>2, <2>3 DEF close
<1>5. ASSUME NEW f \in Fibers, close_shutdown_done(f)
      PROVE  CloseInv' /\ ReadInv'
  <2>1. /\ at[f] = "uv_shutdown" /\ closed_ /\ UNCHANGED <<closed_, len_, call>>
        /\ call[f] = "read" => ~reading_
    BY <1>0, <1>5, ZenonT(30) DEF close_shutdown_done, Resumes, CloseInv, ReadInv
  <2>2. CASE close_handle(f) /\ UNCHANGED <<reading_, buf_>>
    <3>1. /\ at'[f] = "uv_close" /\ status'[f] = "wait" /\ tcp_' = "closing" /\ uv_reading' = FALSE
          /\ \A g \in Fibers \ {f} : at'[g] = at[g] /\ status'[g] = status[g]
      BY <1>0, <2>2, SuspendsEffect DEF close_handle
    <3>2. CloseInv'
      BY <1>0, <2>1, <3>1 DEF CloseInv
    <3>3. ReadInv'
      <4>1. OneReader'
        BY <1>0, <2>1, <2>2, <3>1 DEF ReadInv, OneReader
      <4>2. BufferOutlivesRead'
        BY <3>1 DEF BufferOutlivesRead
      <4>3. \A g \in Fibers : at'[g] = "uv_shutdown" /\ call'[g] = "read" => ~reading_'
        BY <1>0, <2>1, <2>2, <3>1 DEF ReadInv
      <4> QED BY <2>1, <3>1, <4>1, <4>2, <4>3, ZenonT(30) DEF ReadInv
    <3> QED BY <3>2, <3>3
  <2>3. CASE /\ at' = [at EXCEPT ![f] = "terminate"]
             /\ UNCHANGED <<reading_, buf_, tcp_, uv_reading, status, result>>
    <3>1. at'[f] = "terminate" /\ \A g \in Fibers \ {f} : at'[g] = at[g]
      BY <1>a, <2>3
    <3>2. CloseInv'
      BY <1>0, <2>1, <2>3, <3>1 DEF CloseInv
    <3>3. ReadInv'
      BY <1>0, <1>a, <2>1, <2>3, <3>1, ZenonT(30) DEF ReadInv, OneReader, BufferOutlivesRead, Pending
    <3> QED BY <3>2, <3>3
  <2>4. CASE /\ Returns(f, "uv_error")
             /\ reading_' = (IF call[f] = "read" THEN FALSE ELSE reading_)
             /\ buf_' = (IF call[f] = "read" THEN NoBuf ELSE buf_)
             /\ UNCHANGED <<tcp_, uv_reading>>
    <3>1. /\ at'[f] = "idle" /\ status' = status
          /\ \A g \in Fibers \ {f} : at'[g] = at[g]
      BY <1>0, <2>4, ReturnsEffect
    <3>2. reading_' <=> reading_
      BY <2>1, <2>4, ZenonT(30)
    <3>3. CloseInv'
      BY <1>0, <2>1, <2>4, <3>1, ZenonT(30) DEF CloseInv
    <3>4. OneReader'
      BY <1>0, <2>1, <3>1, <3>2, ZenonT(30) DEF ReadInv, OneReader
    <3>5. BufferOutlivesRead'
      BY <1>0, <1>a, <2>1, <2>4, <3>1, ZenonT(30) DEF ReadInv, BufferOutlivesRead, Pending
    <3>6. ReadInv'
      BY <1>0, <2>1, <2>4, <3>1, <3>2, <3>4, <3>5 DEF ReadInv
    <3> QED BY <3>3, <3>6
  <2> QED BY <1>5, <2>2, <2>3, <2>4, Zenon DEF close_shutdown_done
<1>6. ASSUME NEW f \in Fibers, close_done(f)
      PROVE  CloseInv' /\ ReadInv'
  <2>1. /\ at[f] = "uv_close" /\ status[f] # "wait" /\ at'[f] = "idle"
        /\ \A g \in Fibers \ {f} : at'[g] = at[g]
        /\ \A g \in Fibers : status'[g] = IF at[g] = "cond" THEN "OK" ELSE status[g]
        /\ UNCHANGED <<closed_, reading_, buf_, tcp_, uv_reading, call>>
        /\ len_' = len_ \/ len_' = 0
    BY <1>a, <1>6, ZenonT(30) DEF close_done, Resumes, notify_all
  <2>2. closed_ /\ ~uv_reading
    BY <1>0, <2>1, ZenonT(30) DEF CloseInv, ReadInv
  <2>3. CloseInv'
    BY <1>0, <2>1, <2>2, ZenonT(30) DEF CloseInv
  <2>4. ReadInv'
    BY <1>0, <2>1, <2>2 DEF ReadInv, OneReader, BufferOutlivesRead
  <2> QED BY <2>3, <2>4
<1>7. ASSUME NEW f \in Fibers, destroy(f)
      PROVE  CloseInv' /\ ReadInv'
  <2>1. /\ \A g \in Fibers : at[g] = "idle"
        /\ UNCHANGED <<reading_, buf_, len_>> /\ call'[f] = "destroy"
        /\ \A g \in Fibers \ {f} : call'[g] = call[g]
    BY <1>7, <1>a DEF destroy
  <2>2. CASE UNCHANGED <<closed_, tcp_, uv_reading, at, status, result>>
    BY <1>0, <2>1, <2>2, QuietMove
  <2>3. CASE ~closed_ /\ close_begin(f)
    BY <2>1, <2>3, CloseBeginKeeps, Zenon
  <2> QED BY <1>7, <2>2, <2>3, Zenon DEF destroy
<1>8. ASSUME NEW f \in Fibers, read(f)
      PROVE  CloseInv' /\ ReadInv'
  <2>1. PICK n \in ReadSizes, b \in {f, NoBuf} : read_begin(f, b, n)
    BY <1>8 DEF read
  <2>2. at[f] = "idle" /\ \A g \in Fibers \ {f} : call'[g] = call[g]
    BY <1>8, <1>a DEF read, Calls
  <2> QED BY <2>1, <2>2, ReadBeginKeeps
<1>9. ASSUME NEW f \in Fibers, read_resumed(f)
      PROVE  CloseInv' /\ ReadInv'
  <2>1. /\ at[f] = "cond" /\ status[f] # "wait" /\ UNCHANGED call
        /\ reading_ /\ \A g \in Fibers \ {f} : at[g] # "cond"
    BY <1>0, <1>9 DEF read_resumed, Resumes, ReadInv, OneReader
  <2>2. uv_reading => buf_ = NoBuf
    BY <1>0, <1>a, <2>1, ZenonT(30) DEF ReadInv, BufferOutlivesRead, Pending
  <2>3. CASE must_wait /\ Suspends(f, "cond") /\ UNCHANGED <<memberVars, tcp_, uv_reading>>
    <3>1. /\ at'[f] = "cond" /\ status'[f] = "wait" /\ ~uv_reading
          /\ \A g \in Fibers \ {f} : at'[g] = at[g] /\ status'[g] = status[g]
      BY <1>0, <2>2, <2>3, SuspendsEffect DEF must_wait
    <3>2. CloseInv'
      BY <1>0, <2>1, <2>3, <3>1, ZenonT(30) DEF CloseInv
    <3>3. ReadInv'
      BY <1>0, <2>1, <2>3, <3>1 DEF ReadInv, OneReader, BufferOutlivesRead
    <3> QED BY <3>2, <3>3
  <2>4. CASE /\ len_ = ERROR_EOF /\ ~closed_ /\ reading_' = FALSE /\ close_begin(f)
             /\ UNCHANGED <<buf_, len_>>
    BY <2>1, <2>4, CloseBeginKeeps, ZenonT(30)
  <2>5. CASE /\ reading_' = FALSE /\ (\E r : Returns(f, r))
             /\ buf_' \in {buf_, NoBuf} /\ UNCHANGED <<closed_, tcp_, uv_reading>>
    <3>1. /\ at'[f] = "idle" /\ status' = status
          /\ \A g \in Fibers \ {f} : at'[g] = at[g]
      BY <1>0, <2>5, ReturnsEffect, ZenonT(40)
    <3>2. CloseInv'
      BY <1>0, <2>1, <2>5, <3>1, ZenonT(30) DEF CloseInv
    <3>3. OneReader' /\ BufferOutlivesRead'
      BY <1>0, <2>1, <2>2, <2>5, <3>1, ZenonT(30) DEF ReadInv, OneReader, BufferOutlivesRead
    <3>4. ReadInv'
      BY <1>0, <2>5, <3>1, <3>3, ZenonT(30) DEF ReadInv
    <3> QED BY <3>2, <3>4
  <2> QED BY <1>9, <2>3, <2>4, <2>5, ZenonT(40) DEF read_resumed
<1>10. ASSUME NEW f \in Fibers, write(f)
       PROVE  CloseInv' /\ ReadInv'
  <2>1. /\ at[f] = "idle" /\ UNCHANGED <<memberVars, tcp_, uv_reading>>
        /\ \A g \in Fibers \ {f} : call'[g] = call[g]
        /\ Suspends(f, "uv_write") \/ \E r : Returns(f, r)
    BY <1>10, <1>a DEF write, Calls
  <2> QED BY <1>0, <2>1, ReturnsEffect, SuspendsEffect, QuietMove
<1>11. ASSUME NEW f \in Fibers, Callback(f)
       PROVE  CloseInv' /\ ReadInv'
  <2>1. /\ UNCHANGED <<memberVars, uv_reading, at, call>>
        /\ at[f] \notin {"cond", "uv_close"}
        /\ \A g \in Fibers \ {f} : status'[g] = status[g]
        /\ \/ tcp_' = tcp_ /\ at[f] # "uv_connect"
           \/ tcp_ = "connecting" /\ at[f] = "uv_connect" /\ tcp_' \in {"connected", "failed"}
    <3>1. status \in [Fibers -> Statuses]
      BY <1>0, TypeParts, ZenonT(30) DEF PlaceOK
    <3> QED BY <1>11, <3>1 DEF Callback, addrinfo_callback, connection_callback, write_callback,
                               shutdown_callback, Pending
  <2>2. CloseInv'
    BY <1>0, <2>1, ZenonT(30) DEF CloseInv
  <2>3. ReadInv'
    BY <1>0, <1>a, <2>1 DEF ReadInv, OneReader, BufferOutlivesRead, Pending
  <2> QED BY <2>2, <2>3
<1>12. CASE read_callback
  <2>1. /\ uv_reading /\ tcp_ # "connecting" /\ uv_reading' = FALSE /\ buf_' = NoBuf
        /\ len_' \in nreads
        /\ \A g \in Fibers : status'[g] = IF at[g] = "cond" THEN "OK" ELSE status[g]
        /\ UNCHANGED <<closed_, reading_, tcp_, at, call>>
    BY <1>12, ZenonT(30) DEF read_callback, on_read_finished, uv_read_stop, notify_all
  <2>2. len_' = ERROR_EOF => tcp_ = "connected"
    <3>1. tcp_ \in {"idle", "failed", "connecting", "connected", "closing", "closed"}
      BY <1>0, Zenon DEF TypeOK
    <3>2. tcp_ \notin {"idle", "closing", "closed"}
      BY <1>0, <2>1, Zenon DEF ReadInv, BufferOutlivesRead
    <3>3. tcp_ = "failed" => len_' = ERROR_READ_FAILED
      BY <2>1, Zenon DEF nreads
    <3> QED BY <2>1, <3>1, <3>2, <3>3 DEF ERROR_EOF, ERROR_READ_FAILED
  <2>3. CloseInv'
    BY <1>0, <2>1, ZenonT(30) DEF CloseInv
  <2>4. ReadInv'
    BY <1>0, <2>1, <2>2 DEF ReadInv, OneReader, BufferOutlivesRead
  <2> QED BY <2>3, <2>4, ZenonT(30)
<1>13. CASE on_handle_closed
  <2>1. tcp_' = "closed" /\ UNCHANGED <<memberVars, uv_reading, at, call>>
    BY <1>13, ZenonT(30) DEF on_handle_closed
  <2>2. PICK f \in Fibers : at[f] = "uv_close"
    BY <1>13, ZenonT(30) DEF on_handle_closed, Pending
  <2>3. closed_ /\ ~uv_reading /\ \A g \in Fibers : at[g] # "uv_shutdown"
    BY <1>0, <2>2 DEF CloseInv, ReadInv
  <2>4. CloseInv'
    BY <1>0, <2>1, <2>3, ZenonT(30) DEF CloseInv
  <2>5. ReadInv'
    BY <1>0, <2>1, <2>3, ZenonT(30) DEF ReadInv, OneReader, BufferOutlivesRead
  <2> QED BY <2>4, <2>5
<1>14. CASE peer_stops \/ UNCHANGED vars
  BY <1>0, <1>14 DEF peer_stops, vars, CloseInv, ReadInv, OneReader, BufferOutlivesRead,
                     Pending
<1> QED
  BY <1>1, <1>2, <1>3, <1>4, <1>5, <1>6, <1>7, <1>8, <1>9, <1>10, <1>11, <1>12, <1>13, <1>14
     DEF Next, FiberCall, FiberResume, Destroyed

\* The invariant as one formula.
LEMMA SocketInvInductive == (Init => SocketInv) /\ (SocketInv /\ [Next]_vars => SocketInv')
BY SocketInvInit, TypeInit, SocketInvStep, TypeStep, Zenon DEF SocketInv

\* reading_ excludes a second reader, whatever errors, closes and reads of length
\* zero happen.
THEOREM ReadersExcluded == Spec => []OneReader
<1>1. SocketInv => OneReader
  BY DEF SocketInv, ReadInv
<1> QED BY <1>1, SocketInvInductive, PTL DEF Spec

\* libuv never writes into the buffer of a read that has returned.
THEOREM BuffersOutliveReads == Spec => []BufferOutlivesRead
<1>1. SocketInv => BufferOutlivesRead
  BY ZenonT(30) DEF SocketInv, ReadInv
<1> QED BY <1>1, SocketInvInductive, PTL DEF Spec
-----------------------------------------------------------------------------
(* uv_close.  A fiber comes to it from an open socket, or from the shutdown   *)
(* that it began in one.                                                       *)

\* A step in which a fiber goes on to wait for uv_close finds the handle open.
ClosesOpenHandle ==
  \A f \in Fibers : at[f] # "uv_close" /\ at'[f] = "uv_close" => tcp_ \notin {"closing", "closed"}

\* A fiber's step in a closed socket, if no shutdown ends with it, leads to no uv_close.
LEMMA MovesOutsideClose ==
  ASSUME TypeOK, NEW f \in Fibers, NEW p, p # "uv_close",
         UNCHANGED at \/ at' = [at EXCEPT ![f] = p]
  PROVE  ClosesOpenHandle
BY DEF TypeOK, ClosesOpenHandle

\* Every step of the socket closes an open handle, if any.
LEMMA ClosesOnceStep == SocketInv /\ [Next]_vars => ClosesOpenHandle
<1> SUFFICES ASSUME SocketInv, [Next]_vars PROVE ClosesOpenHandle
  OBVIOUS
<1> USE DEF memberVars, uvVars, fiberVars, dataVars
<1>0. TypeOK /\ CloseInv
  BY DEF SocketInv
<1>1. CASE ~closed_
  BY <1>0, <1>1, Zenon DEF CloseInv, ClosesOpenHandle
<1>2. ASSUME NEW f \in Fibers, close_shutdown_done(f)
      PROVE  ClosesOpenHandle
  BY <1>0, <1>2, Zenon DEF close_shutdown_done, Resumes, CloseInv, ClosesOpenHandle
<1>3. ASSUME closed_, NEW f \in Fibers, FiberCall(f)
      PROVE  ClosesOpenHandle
  <2>1. UNCHANGED at \/ at' = [at EXCEPT ![f] = "idle"]
    BY <1>3, ZenonT(30) DEF FiberCall, connect, read, read_begin, write, close, destroy, Returns
  <2> QED BY <1>0, <2>1, MovesOutsideClose
<1>4. ASSUME closed_, NEW f \in Fibers,
             connect_resolved(f) \/ connect_done(f) \/ read_resumed(f) \/ write_done(f) \/ close_done(f)
      PROVE  ClosesOpenHandle
  <2>1. at' = [at EXCEPT ![f] = "idle"] \/ at' = [at EXCEPT ![f] = "uv_connect"]
    BY <1>4, ZenonT(30) DEF connect_resolved, connect_done, read_resumed, must_wait, write_done,
                            close_done, Returns, Suspends
  <2> QED BY <1>0, <2>1, MovesOutsideClose
<1>5. CASE \/ \E f \in Fibers : Callback(f)
           \/ read_callback \/ on_handle_closed \/ peer_stops \/ UNCHANGED vars
  <2>1. UNCHANGED at
    BY <1>5 DEF Callback, addrinfo_callback, connection_callback, write_callback, shutdown_callback,
                read_callback, on_handle_closed, peer_stops, vars
  <2> QED BY <2>1 DEF ClosesOpenHandle
<1> QED BY <1>1, <1>2, <1>3, <1>4, <1>5, ZenonT(30) DEF Next, FiberResume, Destroyed

\* uv_close is called at most once on a handle, whoever closes the socket and
\* whatever happens while the closing fiber is suspended.
THEOREM ClosesHandleOnce == Spec => HandleClosedOnce
<1>1. SocketInv /\ [Next]_vars => [ClosesOpenHandle]_vars
  BY ClosesOnceStep
<1> QED BY <1>1, SocketInvInductive, PTL DEF Spec, HandleClosedOnce, ClosesOpenHandle
-----------------------------------------------------------------------------
(* Data.  A byte that libuv delivers is in len_ until its reader runs.       *)

\* Every step accounts for the bytes delivered.
LEMMA DataStep == SocketInv /\ DataAccounted /\ [Next]_vars => DataAccounted'
<1> SUFFICES ASSUME SocketInv, DataAccounted, [Next]_vars, ~closed_' PROVE DataAccounted'
  BY DEF DataAccounted
<1> USE DEF memberVars, uvVars, fiberVars, dataVars
<1>0. TypeOK /\ ReadInv
  BY DEF SocketInv
<1>1. len_ \in Nat \cup {-1, -2} /\ delivered \in Nat /\ returned \in Nat
  BY <1>0 DEF TypeOK, ERROR_EOF, ERROR_READ_FAILED
<1>2. CASE UNCHANGED <<memberVars, dataVars>>
  BY <1>2 DEF DataAccounted
<1>3. ASSUME NEW f \in Fibers, connect(f) \/ connect_resolved(f) \/ connect_done(f) \/ write(f)
                               \/ write_done(f) \/ Callback(f)
      PROVE  DataAccounted'
  BY <1>2, <1>3 DEF connect, connect_resolved, connect_done, write, write_done, Callback,
                    addrinfo_callback, connection_callback, write_callback, shutdown_callback
<1>4. ASSUME NEW f \in Fibers, close(f) \/ destroy(f)
      PROVE  DataAccounted'
  BY <1>2, <1>4 DEF close, destroy, close_begin
<1>5. ASSUME NEW f \in Fibers, close_shutdown_done(f) \/ close_done(f)
      PROVE  DataAccounted'
  BY <1>0, <1>5, Zenon DEF close_shutdown_done, close_done, Resumes, SocketInv, CloseInv
<1>6. ASSUME NEW f \in Fibers, read(f)
      PROVE  DataAccounted'
  <2>1. PICK n \in ReadSizes, b \in {f, NoBuf} : read_begin(f, b, n)
    BY <1>6 DEF read
  <2>2. /\ UNCHANGED dataVars
        /\ \/ UNCHANGED <<closed_, reading_, buf_, len_>>
           \/ ~closed_ /\ ~reading_ /\ (~reading_' \/ buf_' # NoBuf)
    <3>1. CASE closed_ \/ concurrent_read
      BY <2>1, <3>1, Zenon DEF read_begin
    <3>2. CASE ~closed_ /\ ~concurrent_read
      <4>1. reading_' = reading_ \/ (reading_' = (b # NoBuf) /\ buf_' = b)
        BY <2>1, <3>2 DEF read_begin
      <4>2. ~reading_' \/ buf_' # NoBuf
        BY <3>2, <4>1, Zenon DEF concurrent_read
      <4>3. UNCHANGED dataVars
        BY <2>1, Zenon DEF read_begin
      <4> QED BY <3>2, <4>2, <4>3 DEF concurrent_read
    <3> QED BY <3>1, <3>2
  <2> QED BY <1>1, <2>2 DEF DataAccounted
<1>7. ASSUME NEW f \in Fibers, read_resumed(f)
      PROVE  DataAccounted'
  <2>1. reading_ /\ UNCHANGED delivered
    BY <1>0, <1>7 DEF read_resumed, Resumes, ReadInv, OneReader
  <2>2. CASE UNCHANGED <<closed_, reading_, buf_, len_, returned>>
    BY <2>1, <2>2 DEF DataAccounted
  <2>3. CASE ~must_wait /\ ~reading_' /\ UNCHANGED <<closed_, returned>> /\ len_ = ERROR_READ_FAILED
    BY <1>1, <2>1, <2>3 DEF DataAccounted, ERROR_READ_FAILED
  <2>4. CASE ~must_wait /\ ~reading_' /\ ~closed_ /\ len_ >= 0 /\ returned' = returned + len_
    <3>1. buf_ = NoBuf
      BY <2>4 DEF must_wait
    <3>2. delivered = returned + len_
      BY <1>1, <2>1, <2>4, <3>1 DEF DataAccounted
    <3> QED BY <1>1, <2>1, <2>4, <3>2 DEF DataAccounted
  <2>5. \/ closed_ /\ closed_' = closed_
        \/ closed_' = TRUE
        \/ UNCHANGED <<closed_, reading_, buf_, len_, returned>>
        \/ ~must_wait /\ reading_' = FALSE /\ UNCHANGED <<closed_, returned>> /\ len_ = ERROR_READ_FAILED
        \/ ~must_wait /\ reading_' = FALSE /\ ~closed_ /\ len_ >= 0 /\ returned' = returned + len_
    BY <1>7, ZenonT(30) DEF read_resumed, close_begin
  <2> QED BY <2>2, <2>3, <2>4, <2>5, ZenonT(30)
<1>8. CASE read_callback
  <2>1. PICK nread \in nreads :
          /\ buf_' = NoBuf /\ len_' = nread
          /\ delivered' = IF nread > 0 THEN delivered + nread ELSE delivered
    BY <1>8 DEF read_callback, on_read_finished
  <2>2. uv_reading /\ UNCHANGED <<closed_, reading_, returned>>
    BY <1>8 DEF read_callback
  <2>3. nread \in Int /\ (nread > 0 => buf_ # NoBuf)
    BY <1>1, <2>1 DEF nreads, ERROR_EOF, ERROR_READ_FAILED
  <2>4. delivered = returned
    BY <1>0, <1>1, <2>2 DEF DataAccounted, ReadInv
  <2>5. nread > 0 => reading_
    BY <1>0, <2>2, <2>3 DEF ReadInv, BufferOutlivesRead, Pending, OneReader, TypeOK
  <2> QED BY <1>1, <2>1, <2>2, <2>3, <2>4, <2>5 DEF DataAccounted
<1>9. CASE on_handle_closed \/ peer_stops \/ UNCHANGED vars
  BY <1>2, <1>9 DEF on_handle_closed, peer_stops, vars
<1> QED
  BY <1>3, <1>4, <1>5, <1>6, <1>7, <1>8, <1>9 DEF Next, FiberCall, FiberResume, Destroyed

\* No byte is lost or returned twice while the socket is open, for reads of any
\* size by any number of fibers.
THEOREM NoByteLost == Spec => []DataAccounted
<1>1. Init => DataAccounted
  <2>1. Init => reading_ = FALSE /\ delivered = 0 /\ returned = 0
    BY Zenon DEF Init
  <2> QED BY <2>1 DEF DataAccounted
<1> QED BY <1>1, DataStep, SocketInvInductive, PTL DEF Spec
-----------------------------------------------------------------------------
(* connect().  If callers overlap no other connect() and no close() with one   *)
(* that is being resolved, a handle that is closing is never connected again.  *)

\* One fiber connects at a time, and resolves only for a handle without connection;
\* a fiber that waits for uv_close resumes when the handle is closed.
ConnectInv ==
  /\ \A f, g \in Fibers :
       at[f] \in {"getaddrinfo", "uv_connect"} /\ at[g] \in {"getaddrinfo", "uv_connect"} => f = g
  /\ \A f \in Fibers : at[f] = "getaddrinfo" => tcp_ \in {"idle", "failed"} /\ ~closed_
  /\ tcp_ = "connecting" => \E f \in Fibers : at[f] = "uv_connect" /\ status[f] = "wait"
  /\ \A f \in Fibers :
       at[f] = "uv_close" => tcp_ = "closed" \/ (tcp_ = "closing" /\ status[f] = "wait")

\* A fiber moves to a place outside connect() and uv_close; the handle is left alone.
LEMMA ConnectRests ==
  ASSUME ConnectInv, NEW f \in Fibers, at'[f] \notin {"getaddrinfo", "uv_connect", "uv_close"},
         at[f] = "uv_connect" => status[f] # "wait",
         \A g \in Fibers \ {f} : at'[g] = at[g] /\ (at[g] # "cond" => status'[g] = status[g]),
         closed_' = closed_ \/ \A g \in Fibers : at[g] # "getaddrinfo",
         UNCHANGED tcp_
  PROVE  ConnectInv'
BY DEF ConnectInv

\* uv_close is called while nobody resolves.
LEMMA ConnectEnds ==
  ASSUME TypeOK, CloseInv, ConnectInv, NEW f \in Fibers, close_handle(f),
         at[f] \in {"idle", "cond", "uv_shutdown"}, at[f] = "uv_shutdown" \/ ~closed_,
         \A g \in Fibers : at[g] # "getaddrinfo"
  PROVE  ConnectInv'
<1>1. /\ at'[f] = "uv_close" /\ status'[f] = "wait" /\ tcp_' = "closing"
      /\ \A g \in Fibers \ {f} : at'[g] = at[g] /\ status'[g] = status[g]
  BY SuspendsEffect DEF close_handle
<1>2. \A g \in Fibers \ {f} : at[g] # "uv_close"
  BY ZenonT(30) DEF CloseInv
<1> QED BY <1>1, <1>2 DEF ConnectInv

\* Every step preserves ConnectInv.
LEMMA ConnectInvStep ==
  ASSUME OverlapClose = FALSE
  PROVE  SocketInv /\ ConnectInv /\ [Next]_vars => ConnectInv'
<1> SUFFICES ASSUME SocketInv, ConnectInv, [Next]_vars PROVE ConnectInv'
  OBVIOUS
<1> USE DEF memberVars, uvVars, fiberVars, dataVars
<1>0. TypeOK /\ CloseInv /\ ReadInv
  BY DEF SocketInv
<1>1. ASSUME NEW f \in Fibers, connect(f)
      PROVE  ConnectInv'
  <2>1. at[f] = "idle" /\ UNCHANGED <<closed_, tcp_>>
    BY <1>1, ZenonT(30) DEF connect, Calls
  <2>2. CASE \E r : Returns(f, r)
    BY <1>0, <2>1, <2>2, ReturnsEffect, ConnectRests
  <2>3. CASE ~closed_ /\ Suspends(f, "getaddrinfo")
    <3>1. /\ at'[f] = "getaddrinfo" /\ status'[f] = "wait" /\ tcp_ # "connected"
          /\ \A g \in Fibers \ {f} : at'[g] = at[g] /\ status'[g] = status[g]
          /\ \A g \in Fibers : at[g] \notin {"getaddrinfo", "uv_connect"}
      BY <1>0, <1>1, <2>3, SuspendsEffect, ZenonT(30) DEF connect
    <3>2. tcp_ \in {"idle", "failed"}
      BY <1>0, <2>3, <3>1 DEF ConnectInv, CloseInv, TypeOK
    <3> QED BY <2>1, <2>3, <3>1, <3>2 DEF ConnectInv
  <2> QED BY <1>1, <2>2, <2>3 DEF connect
<1>2. ASSUME NEW f \in Fibers, connect_resolved(f)
      PROVE  ConnectInv'
  <2>1. at[f] = "getaddrinfo" /\ tcp_ \in {"idle", "failed"} /\ ~closed_ /\ UNCHANGED closed_
    BY <1>2 DEF connect_resolved, Resumes, ConnectInv
  <2>2. \A g \in Fibers : at[g] # "uv_close"
    BY <1>0, <2>1, ZenonT(30) DEF CloseInv
  <2>3. CASE tcp_' = "connecting" /\ Suspends(f, "uv_connect")
    <3>1. /\ at'[f] = "uv_connect" /\ status'[f] = "wait"
          /\ \A g \in Fibers \ {f} : at'[g] = at[g] /\ status'[g] = status[g]
      BY <1>0, <2>3, SuspendsEffect, ZenonT(30)
    <3> QED BY <2>1, <2>2, <2>3, <3>1 DEF ConnectInv
  <2>4. CASE (\E r : Returns(f, r)) /\ (tcp_' = tcp_ \/ tcp_' = "failed")
    <3>1. at'[f] = "idle" /\ status' = status /\ \A g \in Fibers \ {f} : at'[g] = at[g]
      BY <1>0, <2>4, ReturnsEffect, ZenonT(30)
    <3> QED BY <2>1, <2>2, <2>4, <3>1 DEF ConnectInv
  <2> QED BY <1>2, <2>3, <2>4, ZenonT(30) DEF connect_resolved
<1>3. ASSUME NEW f \in Fibers, connect_done(f) \/ write(f) \/ write_done(f)
      PROVE  ConnectInv'
  <2>1. /\ at[f] = "uv_connect" => status[f] # "wait"
        /\ UNCHANGED <<closed_, tcp_>>
        /\ Suspends(f, "uv_write") \/ \E r : Returns(f, r)
    BY <1>3, ZenonT(30) DEF connect_done, write, write_done, Resumes, Calls
  <2>2. CASE Suspends(f, "uv_write")
    BY <1>0, <2>1, <2>2, SuspendsEffect, ConnectRests
  <2>3. CASE \E r : Returns(f, r)
    BY <1>0, <2>1, <2>3, ReturnsEffect, ConnectRests
  <2> QED BY <2>1, <2>2, <2>3
<1>4. ASSUME NEW f \in Fibers, read(f)
      PROVE  ConnectInv'
  <2>1. /\ at[f] = "idle" /\ UNCHANGED <<closed_, tcp_>>
        /\ Suspends(f, "cond") \/ \E r : Returns(f, r)
    BY <1>4, ZenonT(30) DEF read, read_begin, Calls
  <2>2. CASE Suspends(f, "cond")
    BY <1>0, <2>1, <2>2, SuspendsEffect, ConnectRests
  <2>3. CASE \E r : Returns(f, r)
    BY <1>0, <2>1, <2>3, ReturnsEffect, ConnectRests
  <2> QED BY <2>1, <2>2, <2>3
<1>5. ASSUME NEW f \in Fibers, close_begin(f), ~closed_, at[f] \in {"idle", "cond"},
             \A g \in Fibers : at[g] # "getaddrinfo"
      PROVE  ConnectInv'
  <2>1. CASE close_handle(f)
    BY <1>0, <1>5, <2>1, ConnectEnds
  <2>2. CASE Suspends(f, "uv_shutdown") /\ UNCHANGED tcp_
    BY <1>0, <1>5, <2>2, SuspendsEffect, ConnectRests
  <2> QED BY <1>5, <2>1, <2>2 DEF close_begin
<1>6. ASSUME NEW f \in Fibers, close(f)
      PROVE  ConnectInv'
  <2>1. at[f] = "idle" /\ \A g \in Fibers : at[g] # "getaddrinfo"
    BY <1>6, ZenonT(30) DEF close, Calls
  <2>2. CASE Returns(f, "ok") /\ UNCHANGED <<closed_, tcp_>>
    BY <1>0, <2>1, <2>2, ReturnsEffect, ConnectRests
  <2> QED BY <1>5, <1>6, <2>1, <2>2 DEF close
<1>7. ASSUME NEW f \in Fibers, destroy(f)
      PROVE  ConnectInv'
  <2>1. \A g \in Fibers : at[g] = "idle"
    BY <1>7 DEF destroy
  <2>2. CASE UNCHANGED <<closed_, tcp_, at, status>>
    BY <2>2 DEF ConnectInv
  <2> QED BY <1>5, <1>7, <2>1, <2>2, ZenonT(30) DEF destroy
<1>8. ASSUME NEW f \in Fibers, read_resumed(f)
      PROVE  ConnectInv'
  <2>1. at[f] = "cond" /\ reading_
    BY <1>0, <1>8 DEF read_resumed, Resumes, ReadInv, OneReader
  <2>2. CASE len_ = ERROR_EOF /\ ~closed_ /\ close_begin(f)
    <3>1. tcp_ = "connected"
      BY <1>0, <2>1, <2>2 DEF ReadInv
    <3>2. \A g \in Fibers : at[g] # "getaddrinfo"
      BY <3>1 DEF ConnectInv
    <3> QED BY <1>5, <2>1, <2>2, <3>2
  <2>3. CASE (Suspends(f, "cond") \/ \E r : Returns(f, r)) /\ UNCHANGED <<closed_, tcp_>>
    <3>1. CASE Suspends(f, "cond")
      BY <1>0, <2>1, <2>3, <3>1, SuspendsEffect, ConnectRests
    <3>2. CASE \E r : Returns(f, r)
      BY <1>0, <2>1, <2>3, <3>2, ReturnsEffect, ConnectRests
    <3> QED BY <2>3, <3>1, <3>2
  <2> QED BY <1>8, <2>2, <2>3, ZenonT(40) DEF read_resumed
<1>9. ASSUME NEW f \in Fibers, close_shutdown_done(f)
      PROVE  ConnectInv'
  <2>1. at[f] = "uv_shutdown" /\ closed_ /\ UNCHANGED closed_
    BY <1>0, <1>9, ZenonT(30) DEF close_shutdown_done, Resumes, CloseInv
  <2>2. CASE close_handle(f)
    <3>1. \A g \in Fibers : at[g] # "getaddrinfo"
      BY <2>1 DEF ConnectInv
    <3> QED BY <1>0, <2>1, <2>2, <3>1, ConnectEnds
  <2>3. CASE at' = [at EXCEPT ![f] = "terminate"] /\ UNCHANGED <<tcp_, status>>
    <3>1. at'[f] = "terminate" /\ \A g \in Fibers \ {f} : at'[g] = at[g]
      BY <1>0, <2>3 DEF TypeOK
    <3> QED BY <2>1, <2>3, <3>1, ConnectRests
  <2>4. CASE Returns(f, "uv_error") /\ UNCHANGED tcp_
    BY <1>0, <2>1, <2>4, ReturnsEffect, ConnectRests
  <2> QED BY <1>9, <2>2, <2>3, <2>4, Zenon DEF close_shutdown_done
<1>10. ASSUME NEW f \in Fibers, close_done(f)
       PROVE  ConnectInv'
  <2>1. /\ at[f] = "uv_close" /\ at'[f] = "idle" /\ UNCHANGED <<closed_, tcp_>>
        /\ \A g \in Fibers \ {f} : at'[g] = at[g]
        /\ \A g \in Fibers : status'[g] = IF at[g] = "cond" THEN "OK" ELSE status[g]
    BY <1>0, <1>10, ZenonT(30) DEF close_done, Resumes, notify_all, TypeOK
  <2> QED BY <2>1, ConnectRests
<1>11. ASSUME NEW f \in Fibers, Callback(f)
       PROVE  ConnectInv'
  <2>1. /\ UNCHANGED <<closed_, at>> /\ at[f] # "uv_close"
        /\ \A g \in Fibers \ {f} : status'[g] = status[g]
        /\ \/ tcp_' = tcp_ /\ at[f] # "uv_connect"
           \/ tcp_ = "connecting" /\ at[f] = "uv_connect" /\ tcp_' \in {"connected", "failed"}
    <3>1. status \in [Fibers -> Statuses]
      BY <1>0, TypeParts, ZenonT(30) DEF PlaceOK
    <3> QED BY <1>11, <3>1 DEF Callback, addrinfo_callback, connection_callback, write_callback,
                               shutdown_callback, Pending
  <2> QED BY <2>1 DEF ConnectInv
<1>12. CASE read_callback
  <2>1. /\ UNCHANGED <<closed_, at, tcp_>>
        /\ \A g \in Fibers : status'[g] = IF at[g] = "cond" THEN "OK" ELSE status[g]
    BY <1>12, ZenonT(30) DEF read_callback, on_read_finished, notify_all
  <2> QED BY <2>1 DEF ConnectInv
<1>13. CASE on_handle_closed
  <2>1. tcp_' = "closed" /\ UNCHANGED <<closed_, at>>
    BY <1>13, ZenonT(30) DEF on_handle_closed
  <2>2. PICK f \in Fibers : at[f] = "uv_close"
    BY <1>13, ZenonT(30) DEF on_handle_closed, Pending
  <2>3. closed_
    BY <1>0, <2>2, ZenonT(30) DEF CloseInv
  <2> QED BY <2>1, <2>3 DEF ConnectInv
<1>14. CASE peer_stops \/ UNCHANGED vars
  BY <1>14 DEF peer_stops, vars, ConnectInv
<1> QED
  BY <1>1, <1>2, <1>3, <1>4, <1>6, <1>7, <1>8, <1>9, <1>10, <1>11, <1>12, <1>13, <1>14
     DEF Next, FiberCall, FiberResume, Destroyed
-----------------------------------------------------------------------------
(* Closing and destruction, when shutdown requests fail only for want of a   *)
(* connection.                                                                *)

ShutdownsSucceed == ShutdownStatus \subseteq {"OK", "ENOTCONN"}

Closers == {"uv_shutdown", "uv_close", "terminate"}

\* The destructor runs alone, is closing as long as the socket lives, and ends with
\* the handle closed; a fiber that waits for its shutdown knows how it may end.
DestroyInv ==
  /\ CloseCompletes
  /\ FreedAfterClose
  /\ \A f \in Fibers : call[f] = "destroy" /\ alive => at[f] \in Closers
  /\ \A f, g \in Fibers : call[f] = "destroy" /\ g # f => at[g] = "idle"
  /\ \A f \in Fibers : at[f] = "uv_shutdown" => status[f] \in {"wait"} \cup ShutdownStatus

\* A fiber that does not close moves to a place outside close(): what the others
\* close stays as it is.
LEMMA PlainMove ==
  ASSUME DestroyInv, NEW f \in Fibers, at[f] \notin Closers, alive,
         at'[f] \notin Closers, call'[f] # "destroy",
         call[f] # "destroy",
         at[f] = "idle" => \A g \in Fibers : call[g] # "destroy",
         \A g \in Fibers \ {f} : at'[g] = at[g] /\ call'[g] = call[g] /\ status'[g] = status[g],
         tcp_ = "closed" => tcp_' = "closed",
         UNCHANGED <<closed_, alive>>
  PROVE  DestroyInv'
<1>1. \A g \in Fibers : call[g] # "destroy" /\ call'[g] # "destroy"
  BY ZenonT(30) DEF DestroyInv
<1>2. CloseCompletes'
  BY DEF DestroyInv, CloseCompletes, Closers
<1>3. FreedAfterClose'
  BY ZenonT(30) DEF FreedAfterClose
<1>4. \A g \in Fibers : at'[g] = "uv_shutdown" => status'[g] \in {"wait"} \cup ShutdownStatus
  BY DEF DestroyInv, Closers
<1> QED BY <1>1, <1>2, <1>3, <1>4, ZenonT(30) DEF DestroyInv

\* Statuses change, of requests that are not shutdown requests or that end well.
LEMMA CallbackMove ==
  ASSUME DestroyInv,
         \A g \in Fibers : at[g] = "uv_shutdown" =>
            status'[g] = status[g] \/ status'[g] \in ShutdownStatus,
         tcp_ = "closed" => tcp_' = "closed",
         UNCHANGED <<closed_, at, call, alive>>
  PROVE  DestroyInv'
BY DEF DestroyInv, CloseCompletes, FreedAfterClose

\* Every step preserves DestroyInv.
LEMMA DestroyInvStep ==
  ASSUME ShutdownsSucceed
  PROVE  SocketInv /\ ConnectInv /\ DestroyInv /\ [Next]_vars => DestroyInv'
<1> SUFFICES ASSUME SocketInv, ConnectInv, DestroyInv, [Next]_vars PROVE DestroyInv'
  OBVIOUS
<1> USE DEF memberVars, uvVars, fiberVars, dataVars
<1>0. /\ TypeOK
      /\ call \in [Fibers -> {"none", "connect", "read", "write", "close", "destroy"}]
  BY DEF SocketInv, TypeOK
<1>a. \A f \in Fibers : at[f] # "idle" => alive /\ \A g \in Fibers \ {f} : call[g] # "destroy"
  BY <1>0, ZenonT(30) DEF DestroyInv, FreedAfterClose, TypeOK
<1>b. \A f \in Fibers : at[f] \notin Closers /\ at[f] # "idle" => call[f] # "destroy"
  BY <1>a, ZenonT(30) DEF DestroyInv
<1>1. ASSUME NEW f \in Fibers, connect(f) \/ write(f)
      PROVE  DestroyInv'
  <2>1. /\ at[f] = "idle" /\ alive /\ \A g \in Fibers : call[g] # "destroy"
        /\ call'[f] # "destroy" /\ \A g \in Fibers \ {f} : call'[g] = call[g]
        /\ UNCHANGED <<closed_, alive, tcp_>>
        /\ (\E r : Returns(f, r)) \/ \E p \in {"getaddrinfo", "uv_write"} : Suspends(f, p)
    BY <1>0, <1>1, ZenonT(30) DEF connect, write, Calls
  <2>2. /\ at'[f] \notin Closers
        /\ \A g \in Fibers \ {f} : at'[g] = at[g] /\ status'[g] = status[g]
    BY <1>0, <2>1, ReturnsEffect, SuspendsEffect DEF Closers
  <2>3. at[f] \notin Closers /\ call[f] # "destroy"
    BY <2>1, ZenonT(30) DEF Closers
  <2> QED BY <2>1, <2>2, <2>3, PlainMove, ZenonT(30)
<1>2. ASSUME NEW f \in Fibers, read(f)
      PROVE  DestroyInv'
  <2>1. PICK n \in ReadSizes, b \in {f, NoBuf} : read_begin(f, b, n)
    BY <1>2 DEF read
  <2>2. /\ at[f] = "idle" /\ alive /\ \A g \in Fibers : call[g] # "destroy"
        /\ call'[f] # "destroy" /\ \A g \in Fibers \ {f} : call'[g] = call[g]
    BY <1>0, <1>2 DEF read, Calls
  <2>3. /\ UNCHANGED <<closed_, alive, tcp_>>
        /\ (\E r : Returns(f, r)) \/ Suspends(f, "cond")
    BY <2>1, ZenonT(30) DEF read_begin
  <2>4. /\ at'[f] \notin Closers
        /\ \A g \in Fibers \ {f} : at'[g] = at[g] /\ status'[g] = status[g]
    BY <1>0, <2>3, ReturnsEffect, SuspendsEffect DEF Closers
  <2>5. at[f] \notin Closers /\ call[f] # "destroy"
    BY <2>2, ZenonT(30) DEF Closers
  <2> QED BY <2>2, <2>3, <2>4, <2>5, PlainMove
<1>3. ASSUME NEW f \in Fibers, connect_resolved(f) \/ connect_done(f) \/ write_done(f)
      PROVE  DestroyInv'
  <2>1. /\ at[f] \in {"getaddrinfo", "uv_connect", "uv_write"} /\ UNCHANGED <<closed_, alive, call>>
        /\ (\E r : Returns(f, r)) \/ Suspends(f, "uv_connect")
    BY <1>3, ZenonT(30) DEF connect_resolved, connect_done, write_done, Resumes
  <2>2. tcp_ = "closed" => tcp_' = "closed"
    BY <1>3, ZenonT(30) DEF connect_resolved, connect_done, write_done, Resumes, ConnectInv
  <2>3. /\ at'[f] \notin Closers
        /\ \A g \in Fibers \ {f} : at'[g] = at[g] /\ status'[g] = status[g]
    BY <1>0, <2>1, ReturnsEffect, SuspendsEffect DEF Closers
  <2>4. alive /\ call[f] # "destroy" /\ at[f] \notin Closers
    BY <1>a, <1>b, <2>1, ZenonT(30) DEF Closers
  <2> QED BY <2>1, <2>2, <2>3, <2>4, PlainMove, ZenonT(30)
<1>4. ASSUME NEW f \in Fibers, ~closed_, close_begin(f), at[f] \in {"idle", "cond"}, alive,
             \A g \in Fibers : call[g] # "destroy",
             call'[f] = "destroy" => \A g \in Fibers : at[g] = "idle",
             \A g \in Fibers \ {f} : call'[g] = call[g], UNCHANGED alive
      PROVE  DestroyInv'
  <2>1. /\ at'[f] \in {"uv_shutdown", "uv_close"} /\ status'[f] = "wait"
        /\ \A g \in Fibers \ {f} : at'[g] = at[g] /\ status'[g] = status[g]
    <3>1. Suspends(f, "uv_shutdown") \/ Suspends(f, "uv_close")
      BY <1>4, Zenon DEF close_begin, close_handle
    <3> QED BY <1>0, <3>1, SuspendsEffect
  <2>2. CloseCompletes' /\ FreedAfterClose'
    BY <1>4, <2>1 DEF CloseCompletes, FreedAfterClose
  <2> QED BY <1>4, <2>1, <2>2, ZenonT(30) DEF DestroyInv, Closers
<1>5. ASSUME NEW f \in Fibers, close(f)
      PROVE  DestroyInv'
  <2>1. /\ at[f] = "idle" /\ alive /\ \A g \in Fibers : call[g] # "destroy"
        /\ call'[f] = "close" /\ (\A g \in Fibers \ {f} : call'[g] = call[g]) /\ UNCHANGED alive
    BY <1>0, <1>5, ZenonT(30) DEF close, Calls
  <2>2. CASE Returns(f, "ok") /\ UNCHANGED <<closed_, tcp_>>
    BY <1>0, <2>1, <2>2, ReturnsEffect, PlainMove, ZenonT(30) DEF Closers
  <2>3. CASE ~closed_ /\ close_begin(f)
    BY <1>4, <1>5, <2>1, <2>3 DEF close
  <2> QED BY <1>5, <2>2, <2>3, ZenonT(30) DEF close
<1>6. ASSUME NEW f \in Fibers, destroy(f)
      PROVE  DestroyInv'
  <2>1. /\ alive /\ \A g \in Fibers : at[g] = "idle"
        /\ call'[f] = "destroy" /\ \A g \in Fibers \ {f} : call'[g] = call[g]
    BY <1>0, <1>6 DEF destroy
  <2>2. \A g \in Fibers : call[g] # "destroy"
    BY <2>1, ZenonT(30) DEF DestroyInv, Closers
  <2>3. CASE closed_ /\ alive' = FALSE /\ UNCHANGED <<closed_, tcp_, at, status>>
    <3>1. tcp_ = "closed"
      BY <2>1, <2>3, ZenonT(30) DEF DestroyInv, CloseCompletes
    <3> QED BY <2>1, <2>2, <2>3, <3>1, ZenonT(30) DEF DestroyInv, CloseCompletes, FreedAfterClose
  <2>4. CASE ~closed_ /\ close_begin(f) /\ UNCHANGED alive
    BY <1>4, <2>1, <2>2, <2>4, ZenonT(30)
  <2> QED BY <1>6, <2>3, <2>4, Zenon DEF destroy
<1>7. ASSUME NEW f \in Fibers, close_shutdown_done(f)
      PROVE  DestroyInv'
  <2>1. /\ at[f] = "uv_shutdown" /\ status[f] \in {"OK", "ENOTCONN"} /\ UNCHANGED <<closed_, call, alive>>
    BY <1>7, Zenon DEF close_shutdown_done, Resumes, DestroyInv, ShutdownsSucceed
  <2>2. close_handle(f)
    BY <1>7, <2>1, ZenonT(30) DEF close_shutdown_done, check_uv_status
  <2>3. /\ at'[f] = "uv_close" /\ status'[f] = "wait"
        /\ \A g \in Fibers \ {f} : at'[g] = at[g] /\ status'[g] = status[g]
    BY <1>0, <2>2, SuspendsEffect DEF close_handle
  <2>4. alive
    BY <1>a, <2>1
  <2>5. CloseCompletes' /\ FreedAfterClose'
    BY <2>1, <2>3, <2>4 DEF CloseCompletes, FreedAfterClose
  <2> QED BY <2>1, <2>3, <2>4, <2>5 DEF DestroyInv, Closers
<1>8. ASSUME NEW f \in Fibers, close_done(f)
      PROVE  DestroyInv'
  <2>1. /\ at[f] = "uv_close" /\ status[f] # "wait" /\ at'[f] = "idle"
        /\ \A g \in Fibers \ {f} : at'[g] = at[g]
        /\ \A g \in Fibers : status'[g] = IF at[g] = "cond" THEN "OK" ELSE status[g]
        /\ alive' = (call[f] # "destroy") /\ UNCHANGED <<closed_, tcp_, call>>
    BY <1>0, <1>8, ZenonT(30) DEF close_done, Resumes, notify_all, TypeOK
  <2>2. tcp_ = "closed" /\ \A g \in Fibers \ {f} : call[g] # "destroy"
    BY <1>a, <2>1, ZenonT(30) DEF ConnectInv
  <2>3. CloseCompletes'
    BY <2>1, <2>2 DEF CloseCompletes
  <2>4. call[f] = "destroy" => \A g \in Fibers : at'[g] = "idle"
    BY <2>1, Zenon DEF DestroyInv
  <2>5. FreedAfterClose'
    BY <2>1, <2>2, <2>4, Zenon DEF FreedAfterClose
  <2> QED BY <2>1, <2>2, <2>3, <2>4, <2>5, ZenonT(30) DEF DestroyInv
<1>9. ASSUME NEW f \in Fibers, read_resumed(f)
      PROVE  DestroyInv'
  <2>1. at[f] = "cond" /\ UNCHANGED <<call, alive>>
    BY <1>9, Zenon DEF read_resumed, Resumes
  <2>2. alive /\ \A g \in Fibers : call[g] # "destroy"
    BY <1>a, <1>b, <2>1 DEF Closers
  <2>3. CASE ~closed_ /\ close_begin(f)
    BY <1>4, <2>1, <2>2, <2>3, ZenonT(30)
  <2>4. CASE ((\E r : Returns(f, r)) \/ Suspends(f, "cond")) /\ UNCHANGED <<closed_, tcp_>>
    <3>1. /\ at'[f] \notin Closers
          /\ \A g \in Fibers \ {f} : at'[g] = at[g] /\ status'[g] = status[g]
      BY <1>0, <2>4, ReturnsEffect, SuspendsEffect DEF Closers
    <3>2. at[f] \notin Closers
      BY <2>1, ZenonT(30) DEF Closers
    <3>3. \A g \in Fibers : call'[g] = call[g] /\ call[g] # "destroy"
      BY <2>1, <2>2
    <3> QED BY <2>1, <2>2, <2>4, <3>1, <3>2, <3>3, PlainMove, ZenonT(30)
  <2> QED BY <1>9, <2>3, <2>4 DEF read_resumed
<1>10. ASSUME NEW f \in Fibers, Callback(f)
       PROVE  DestroyInv'
  <2>1. /\ UNCHANGED <<closed_, at, call, alive>>
        /\ tcp_ = "closed" => tcp_' = "closed"
    BY <1>10 DEF Callback, addrinfo_callback, connection_callback, write_callback, shutdown_callback
  <2>2. \A g \in Fibers : at[g] = "uv_shutdown" =>
          status'[g] = status[g] \/ status'[g] \in ShutdownStatus
    BY <1>0, <1>10 DEF Callback, addrinfo_callback, connection_callback, write_callback,
                       shutdown_callback, Pending, TypeOK
  <2> QED BY <2>1, <2>2, CallbackMove
<1>11. CASE read_callback \/ on_handle_closed
  <2>1. /\ UNCHANGED <<closed_, at, call, alive>>
        /\ tcp_ = "closed" => tcp_' = "closed"
        /\ \A g \in Fibers : at[g] = "uv_shutdown" => status'[g] = status[g]
    BY <1>11, ZenonT(30) DEF read_callback, on_read_finished, notify_all, on_handle_closed, Pending
  <2> QED BY <2>1, CallbackMove
<1>12. CASE peer_stops \/ UNCHANGED vars
  BY <1>12, CallbackMove DEF peer_stops, vars
<1> QED
  BY <1>1, <1>2, <1>3, <1>5, <1>6, <1>7, <1>8, <1>9, <1>10, <1>11, <1>12
     DEF Next, FiberCall, FiberResume, Destroyed

\* The invariant with connect() and destruction.
LEMMA DestroyInvariant ==
  ASSUME OverlapClose = FALSE, ShutdownsSucceed
  PROVE  Spec => []DestroyInv
<1>1. Init => ConnectInv /\ DestroyInv
  BY SocketAssumption DEF Init, ConnectInv, DestroyInv, CloseCompletes, FreedAfterClose
<1> QED BY <1>1, SocketInvInductive, ConnectInvStep, DestroyInvStep, PTL DEF Spec

\* close() leaves no handle open, as long as shutdown requests fail only for want of
\* a connection (the run socket_shutdown_error shows that the condition is needed)
\* and no close() overlaps with a connect() that is being resolved.
THEOREM ClosesCompletely ==
  ASSUME OverlapClose = FALSE, ShutdownsSucceed
  PROVE  Spec => []CloseCompletes
<1>1. DestroyInv => CloseCompletes
  BY DEF DestroyInv
<1> QED BY <1>1, DestroyInvariant, PTL

\* ~socket_impl frees the handle and the requests only once libuv has let go of
\* them, under the same conditions.
THEOREM FreesAfterClose ==
  ASSUME OverlapClose = FALSE, ShutdownsSucceed
  PROVE  Spec => []FreedAfterClose
<1>1. DestroyInv => FreedAfterClose
  BY DEF DestroyInv
<1> QED BY <1>1, DestroyInvariant, PTL
=============================================================================
