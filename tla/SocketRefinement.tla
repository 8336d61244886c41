-------------------------- MODULE SocketRefinement --------------------------
(***************************************************************************)
(* A socket implements ByteStream, both under plain calls and under the    *)
(* loops of SocketStream, for any number of fibers, calls and sizes.  Each *)
(* way in which a step can touch the members of socket_impl is shown once  *)
(* to be a step of the byte stream, or none.                               *)
(***************************************************************************)
EXTENDS SocketStreamProofs, SocketReads

Readers == {f \in Fibers : at[f] = "cond"}

Held == IF reading_ /\ buf_ = NoBuf /\ len_ > 0 THEN len_ ELSE 0

\* A read that has closed the socket does not hold reading_ any more, and nobody else
\* has taken it since.
EndInv ==
  \A f \in Fibers : at[f] \in {"uv_shutdown", "uv_close"} /\ call[f] = "read" => ~reading_

\* A fiber that waits in read() is the only reader, and reading_ tells.
LEMMA ReaderIs ==
  ASSUME SocketInv
  PROVE  /\ reading_ \in BOOLEAN /\ closed_ \in BOOLEAN /\ buf_ \in Fibers \cup {NoBuf}
         /\ len_ \in Nat \cup {-1, -2} /\ delivered \in Nat /\ returned \in Nat
         /\ ~reading_ => Readers = {} /\ Held = 0
         /\ \A f \in Fibers : at[f] = "cond" => reading_ /\ Readers = {f}
BY DEF SocketInv, TypeOK, ReadInv, OneReader, Readers, Held, ERROR_EOF, ERROR_READ_FAILED

\* A step that changes neither the readers nor what is held is none of the stream's.
LEMMA StreamSame ==
  ASSUME Readers' = Readers, Held' = Held, UNCHANGED <<closed_, delivered, returned>>
  PROVE  [Stream!Next]_Stream!vars
BY Zenon DEF Stream!vars, Readers, Held

\* When no fiber enters or leaves its wait in read(), the readers are the same.
LEMMA ReadersSame ==
  ASSUME \A f \in Fibers : at'[f] = "cond" <=> at[f] = "cond"
  PROVE  Readers' = Readers
BY DEF Readers

\* When the members are left alone, so is what is held.
LEMMA HeldSame ==
  ASSUME UNCHANGED <<reading_, buf_, len_>>
  PROVE  Held' = Held
BY DEF Held

\* close() begins outside read().
LEMMA CloseSimulates ==
  ASSUME SocketInv, NEW f \in Fibers, at[f] # "cond", ~closed_, close_begin(f),
         UNCHANGED <<reading_, buf_, len_, dataVars>>
  PROVE  [Stream!Next]_Stream!vars
<1>1. at' \in [Fibers -> Points] /\ (at'[f] = "uv_shutdown" \/ at'[f] = "uv_close")
      /\ \A g \in Fibers \ {f} : at'[g] = at[g]
  BY DEF close_begin, close_handle, Suspends, SocketInv, TypeOK, Points
<1>2. Readers' = Readers
  BY <1>1, ReadersSame
<1>3. Held' = Held
  BY HeldSame
<1>4. closed_' = TRUE /\ UNCHANGED <<delivered, returned>>
  BY DEF close_begin, dataVars
<1>5. Stream!Close
  BY <1>2, <1>3, <1>4, Zenon DEF Stream!Close, Readers, Held
<1> QED BY <1>5, Zenon DEF Stream!Next

\* read() begins: it is refused, over at once, or waits.
LEMMA ReadSimulates ==
  ASSUME SocketInv, NEW f \in Fibers, at[f] = "idle", NEW b \in {f, NoBuf}, NEW n, read_begin(f, b, n)
  PROVE  [Stream!Next]_Stream!vars
<1> USE SocketAssumption
<1>0. at \in [Fibers -> Points] /\ reading_ \in BOOLEAN
  BY DEF SocketInv, TypeOK
<1>1. UNCHANGED <<closed_, delivered, returned>>
  BY Zenon DEF read_begin, dataVars
<1>2. ASSUME NEW r, Returns(f, r)
      PROVE  Readers' = Readers
  BY <1>0, <1>2, ReadersSame DEF Returns
<1>3. CASE (\E r : Returns(f, r)) /\ UNCHANGED <<reading_, buf_, len_>>
  BY <1>1, <1>2, <1>3, HeldSame, StreamSame, Zenon
<1>4. CASE (\E r : Returns(f, r)) /\ ~reading_ /\ ~reading_'
  <2>1. Held' = Held
    BY <1>4 DEF Held
  <2> QED BY <1>1, <1>2, <1>4, <2>1, StreamSame, Zenon
<1>5. CASE Suspends(f, "cond") /\ ~closed_ /\ ~reading_ /\ b # NoBuf /\ buf_' = b
  <2>1. Readers = {} /\ Held = 0
    BY <1>5, ReaderIs
  <2>2. Held' = 0
    BY <1>5 DEF Held
  <2>3. Readers' = {f}
    BY <1>0, <1>5, <2>1 DEF Suspends, Readers
  <2>4. Stream!Begin(f)
    BY <1>1, <1>5, <2>1, <2>2, <2>3, Zenon DEF Stream!Begin, Readers, Held
  <2> QED BY <2>4, Zenon DEF Stream!Next
<1>6. CASE closed_ \/ concurrent_read
  BY <1>3, <1>6, Zenon DEF read_begin
<1>7. CASE ~closed_ /\ ~concurrent_read
  <2>1. \/ (\E r : Returns(f, r)) /\ reading_' = reading_
        \/ b = NoBuf /\ reading_' = (b # NoBuf) /\ Returns(f, "ok")
        \/ b # NoBuf /\ buf_' = b /\ Suspends(f, "cond")
    BY <1>7, Zenon DEF read_begin
  <2> QED BY <1>0, <1>4, <1>5, <1>7, <2>1 DEF concurrent_read
<1> QED BY <1>6, <1>7

\* A fiber resumes inside read().
LEMMA ReadResumedSimulates ==
  ASSUME SocketInv, NEW f \in Fibers, read_resumed(f)
  PROVE  [Stream!Next]_Stream!vars
<1> USE SocketAssumption
<1>0. /\ at \in [Fibers -> Points] /\ at[f] = "cond" /\ reading_ /\ Readers = {f} /\ delivered' = delivered
      /\ closed_ \in BOOLEAN
      /\ len_ \in Nat \cup {-1, -2}
  BY ReaderIs DEF read_resumed, Resumes, SocketInv, TypeOK
<1>1. ASSUME at'[f] # "cond", \A g \in Fibers \ {f} : at'[g] = at[g]
      PROVE  Readers' = {}
  BY <1>0, <1>1 DEF Readers
<1>2. ASSUME NEW r, Returns(f, r)
      PROVE  Readers' = {}
  BY <1>0, <1>1, <1>2 DEF Returns
<1>3. ASSUME close_begin(f)
      PROVE  Readers' = {}
  BY <1>0, <1>1, <1>3 DEF close_begin, close_handle, Suspends
<1>4. ~reading_' => Held' = 0
  BY DEF Held
<1>5. CASE must_wait /\ Suspends(f, "cond") /\ UNCHANGED <<memberVars, returned>>
  <2>1. Readers' = Readers
    BY <1>0, <1>5, ReadersSame DEF Suspends
  <2> QED BY <1>0, <1>5, <2>1, HeldSame, StreamSame, Zenon DEF memberVars
<1>6. CASE len_ = ERROR_EOF /\ ~closed_ /\ reading_' = FALSE /\ close_begin(f) /\ returned' = returned
  <2>2. Held = 0 /\ Held' = 0 /\ Readers' = {} /\ closed_' = TRUE
    BY <1>3, <1>4, <1>6 DEF Held, ERROR_EOF, close_begin
  <2>3. Stream!End(f)
    BY <1>0, <1>6, <2>2, Zenon DEF Stream!End, Readers, Held
  <2> QED BY <2>3, Zenon DEF Stream!Next
<1>7. CASE len_ = ERROR_READ_FAILED /\ reading_' = FALSE /\ Returns(f, "io_error") /\ UNCHANGED <<closed_, returned>>
  <2>1. Held = 0 /\ Held' = 0 /\ Readers' = {}
    BY <1>2, <1>4, <1>7 DEF Held, ERROR_READ_FAILED
  <2>2. Stream!End(f)
    BY <1>0, <1>7, <2>1, Zenon DEF Stream!End, Readers, Held
  <2> QED BY <2>2, Zenon DEF Stream!Next
<1>8. CASE closed_ /\ reading_' = FALSE /\ Returns(f, "0") /\ UNCHANGED <<closed_, returned>>
  <2>1. Held' = 0 /\ Readers' = {}
    BY <1>2, <1>4, <1>8
  <2>2. Stream!End(f)
    BY <1>0, <1>8, <2>1, Zenon DEF Stream!End, Readers, Held
  <2> QED BY <2>2, Zenon DEF Stream!Next
<1>9. CASE /\ ~must_wait /\ len_ >= 0 /\ ~closed_ /\ reading_' = FALSE
           /\ returned' = returned + len_ /\ Returns(f, "ok") /\ closed_' = closed_
  <2>1. Held' = 0 /\ Readers' = {}
    BY <1>2, <1>4, <1>9
  <2>2. buf_ = NoBuf
    BY <1>9, Zenon DEF must_wait
  <2>3. Held = len_
    BY <1>0, <1>9, <2>2 DEF Held
  <2>4. Stream!Return(f)
    BY <1>0, <1>9, <2>1, <2>3, Zenon DEF Stream!Return, Readers, Held
  <2> QED BY <2>4, Zenon DEF Stream!Next
<1> QED BY <1>5, <1>6, <1>7, <1>8, <1>9, Zenon DEF read_resumed

\* libuv hands over what it read, or the end of the stream, or an error.
LEMMA ReadCallbackSimulates ==
  ASSUME SocketInv, read_callback
  PROVE  [Stream!Next]_Stream!vars
<1>1. PICK nread \in nreads :
        /\ buf_' = NoBuf /\ len_' = nread
        /\ delivered' = IF nread > 0 THEN delivered + nread ELSE delivered
  BY DEF read_callback, on_read_finished
<1>2. uv_reading /\ UNCHANGED <<closed_, reading_, returned, at>>
  BY DEF read_callback
<1>3. /\ len_ \in Nat \cup {-1, -2} /\ reading_ \in BOOLEAN /\ delivered \in Nat
      /\ ~reading_ => Readers = {} /\ Held = 0
  BY ReaderIs
<1>4. nread \in Int /\ (nread > 0 => buf_ # NoBuf)
  BY <1>1, <1>3 DEF nreads, ERROR_EOF, ERROR_READ_FAILED
<1>5. Readers' = Readers
  BY <1>2 DEF Readers
<1>6. Held = 0
  BY <1>2, <1>3 DEF SocketInv, ReadInv, Held
<1>7. CASE nread > 0
  <2>1. reading_ /\ Readers # {}
    BY <1>2, <1>4, <1>7 DEF SocketInv, TypeOK, ReadInv, BufferOutlivesRead, Pending, OneReader, Readers
  <2>2. Held' = nread
    BY <1>1, <1>2, <1>7, <2>1 DEF Held
  <2>3. Held' \in Nat \ {0} /\ delivered' = delivered + Held'
    BY <1>1, <1>4, <1>7, <2>2
  <2>4. Stream!Arrive
    BY <1>2, <1>5, <1>6, <2>1, <2>3, Zenon DEF Stream!Arrive, Readers, Held
  <2> QED BY <2>4, Zenon DEF Stream!Next
<1>8. CASE ~(nread > 0)
  <2>1. Held' = 0 /\ delivered' = delivered
    BY <1>1, <1>8 DEF Held
  <2> QED BY <1>2, <1>5, <1>6, <2>1, StreamSame, Zenon
<1> QED BY <1>7, <1>8

\* The other callbacks and the peer touch nothing that the stream shows.
LEMMA EventSimulates ==
  ASSUME SocketInv,
         (\E f \in Fibers : Callback(f)) \/ read_callback \/ on_handle_closed \/ peer_stops
  PROVE  [Stream!Next]_Stream!vars
<1>1. CASE (\E f \in Fibers : Callback(f)) \/ on_handle_closed \/ peer_stops
  <2>1. UNCHANGED <<at, memberVars, dataVars>>
    BY <1>1, Zenon DEF Callback, addrinfo_callback, connection_callback, write_callback,
              shutdown_callback, on_handle_closed, peer_stops, fiberVars
  <2>2. Readers' = Readers /\ Held' = Held
    BY <2>1, Zenon DEF memberVars, Readers, Held
  <2> QED BY <2>1, <2>2, StreamSame, Zenon DEF memberVars, dataVars
<1> QED BY <1>1, ReadCallbackSimulates

\* A fiber that is not in read() suspends elsewhere or returns, and leaves the members
\* and the data alone.
LEMMA ElsewhereSimulates ==
  ASSUME SocketInv, NEW f \in Fibers, at[f] # "cond", UNCHANGED <<memberVars, dataVars>>,
         (\E r : Returns(f, r)) \/ (\E p : p # "cond" /\ Suspends(f, p)) \/ UNCHANGED at
  PROVE  [Stream!Next]_Stream!vars
<1>1. at \in [Fibers -> Points]
  BY DEF SocketInv, TypeOK
<1>2. \A g \in Fibers : at'[g] = "cond" <=> at[g] = "cond"
  BY <1>1 DEF Returns, Suspends
<1>3. Readers' = Readers /\ Held' = Held
  BY <1>2, ReadersSame, HeldSame DEF memberVars
<1> QED BY <1>3, StreamSame, Zenon DEF memberVars, dataVars

\* Every call on the socket begins with a step of the stream, or none.
LEMMA CallSimulates ==
  ASSUME SocketInv, NEW f \in Fibers, FiberCall(f)
  PROVE  [Stream!Next]_Stream!vars
<1>1. CASE connect(f) \/ write(f)
  <2>1. at[f] = "idle" /\ UNCHANGED <<memberVars, dataVars>>
    BY <1>1, Zenon DEF connect, write, Calls
  <2>2. (\E r : Returns(f, r)) \/ (\E p : p # "cond" /\ Suspends(f, p))
    BY <1>1 DEF connect, write
  <2> QED BY <2>1, <2>2, ElsewhereSimulates
<1>2. CASE close(f) \/ destroy(f)
  <2>1. at[f] = "idle" /\ UNCHANGED <<reading_, buf_, len_, dataVars>>
    BY <1>2, Zenon DEF close, destroy, Calls
  <2>2. \/ ~closed_ /\ close_begin(f)
        \/ closed_' = closed_ /\ ((\E r : Returns(f, r)) \/ UNCHANGED at)
    BY <1>2, Zenon DEF close, destroy
  <2>3. CASE ~closed_ /\ close_begin(f)
    BY <2>1, <2>3, CloseSimulates
  <2>4. CASE closed_' = closed_ /\ ((\E r : Returns(f, r)) \/ UNCHANGED at)
    BY <2>1, <2>4, ElsewhereSimulates DEF memberVars
  <2> QED BY <2>2, <2>3, <2>4
<1>3. CASE read(f)
  <2>1. at[f] = "idle"
    BY <1>3, Zenon DEF read, Calls
  <2>2. PICK n \in ReadSizes, b \in {f, NoBuf} : read_begin(f, b, n)
    BY <1>3 DEF read
  <2> QED BY <2>1, <2>2, ReadSimulates
<1> QED BY <1>1, <1>2, <1>3 DEF FiberCall

\* And so does every continuation of a call.
LEMMA ResumeSimulates ==
  ASSUME SocketInv, EndInv, NEW f \in Fibers, FiberResume(f)
  PROVE  [Stream!Next]_Stream!vars
<1>0. at \in [Fibers -> Points]
  BY DEF SocketInv, TypeOK
<1>1. CASE connect_resolved(f) \/ connect_done(f) \/ write_done(f)
  <2>1. at[f] # "cond" /\ UNCHANGED <<memberVars, dataVars>>
    BY <1>1 DEF connect_resolved, connect_done, write_done, Resumes
  <2>2. (\E r : Returns(f, r)) \/ (\E p : p # "cond" /\ Suspends(f, p))
    BY <1>1 DEF connect_resolved, connect_done, write_done
  <2> QED BY <2>1, <2>2, ElsewhereSimulates
<1>2. CASE close_shutdown_done(f) \/ close_done(f)
  <2>1. /\ at[f] \in {"uv_shutdown", "uv_close"} /\ at'[f] # "cond"
        /\ \A g \in Fibers \ {f} : at'[g] = at[g]
    BY <1>0, <1>2, ZenonT(30) DEF close_shutdown_done, close_done, Resumes, close_handle, Suspends, Returns
  <2>2. Readers' = Readers
    BY <2>1, ReadersSame
  <2>3. UNCHANGED <<closed_, delivered, returned>>
    BY <1>2, Zenon DEF close_shutdown_done, close_done, dataVars
  <2>4. CASE call[f] = "read"
    <3>0. ~reading_
      BY <2>1, <2>4 DEF EndInv
    <3>1. reading_' = reading_ \/ reading_' = FALSE
      BY <1>2, <2>4, Zenon DEF close_shutdown_done, close_done
    <3>2. Held' = Held
      BY <3>0, <3>1 DEF Held
    <3> QED BY <2>2, <2>3, <3>2, StreamSame, Zenon
  <2>5. CASE call[f] # "read"
    <3>1. UNCHANGED <<reading_, buf_, len_>>
      BY <1>2, <2>5, Zenon DEF close_shutdown_done, close_done
    <3> QED BY <2>2, <2>3, <3>1, HeldSame, StreamSame, Zenon
  <2> QED BY <2>4, <2>5
<1>3. CASE read_resumed(f)
  BY <1>3, ReadResumedSimulates
<1> QED BY <1>1, <1>2, <1>3 DEF FiberResume
-----------------------------------------------------------------------------
(* EndInv is kept.                                                         *)

\* It is enough that nobody takes reading_ in a closed socket, and that a read gets to
\* close the socket only by giving reading_ back.
LEMMA EndKept ==
  ASSUME SocketInv, EndInv, reading_' => reading_ \/ ~closed_,
         \A g \in Fibers : at'[g] \in {"uv_shutdown", "uv_close"} /\ call'[g] = "read" =>
           ~reading_' \/ (at[g] \in {"uv_shutdown", "uv_close"} /\ call[g] = "read")
  PROVE  EndInv'
BY Zenon DEF EndInv, SocketInv, CloseInv

\* A step of one fiber, which either is not on its way to close the socket afterwards, or
\* is so for another call than read(), or was so before.
LEMMA EndKeptBy ==
  ASSUME SocketInv, EndInv, NEW f \in Fibers, reading_' => reading_ \/ ~closed_,
         \A g \in Fibers \ {f} : at'[g] = at[g] /\ call'[g] = call[g],
         \/ at'[f] \notin {"uv_shutdown", "uv_close"}
         \/ call'[f] # "read"
         \/ ~reading_'
         \/ at[f] \in {"uv_shutdown", "uv_close"} /\ call'[f] = call[f]
  PROVE  EndInv'
BY EndKept

\* read() takes reading_ only in an open socket.
LEMMA ReadBeginEnds ==
  ASSUME SocketInv, NEW f \in Fibers, NEW b, NEW n, read_begin(f, b, n)
  PROVE  /\ reading_' => reading_ \/ ~closed_
         /\ at'[f] \notin {"uv_shutdown", "uv_close"}
         /\ \A g \in Fibers \ {f} : at'[g] = at[g]
<1>1. TypeOK
  BY DEF SocketInv
<1>2. closed_ => reading_' = reading_
  BY Zenon DEF read_begin
<1>3. (\E r : Returns(f, r)) \/ Suspends(f, "cond")
  BY Zenon DEF read_begin
<1> QED BY <1>1, <1>2, <1>3, ReturnsEffect, SuspendsEffect

\* The calls on a socket keep EndInv.
LEMMA CallEnds ==
  ASSUME SocketInv, EndInv, NEW f \in Fibers, FiberCall(f)
  PROVE  EndInv'
<1>0. /\ call \in [Fibers -> {"none", "connect", "read", "write", "close", "destroy"}]
      /\ TypeOK
  BY DEF SocketInv, TypeOK
<1>1. \A g \in Fibers \ {f} : at'[g] = at[g] /\ call'[g] = call[g]
  BY FiberEffect
<1>2. CASE connect(f) \/ write(f) \/ close(f) \/ destroy(f)
  <2>1. reading_' = reading_
    BY <1>2, Zenon DEF connect, write, close, destroy, memberVars
  <2>2. call'[f] # "read"
    BY <1>0, <1>2 DEF connect, write, close, destroy, Calls
  <2> QED BY <1>1, <2>1, <2>2, EndKeptBy
<1>3. CASE read(f)
  <2>1. PICK n \in ReadSizes, b \in {f, NoBuf} : read_begin(f, b, n)
    BY <1>3 DEF read
  <2> QED BY <1>1, <2>1, ReadBeginEnds, EndKeptBy
<1> QED BY <1>2, <1>3 DEF FiberCall

\* So do their continuations.
LEMMA ResumeEnds ==
  ASSUME SocketInv, EndInv, NEW f \in Fibers, FiberResume(f)
  PROVE  EndInv'
<1>0. at \in [Fibers -> Points] /\ reading_ \in BOOLEAN
  BY DEF SocketInv, TypeOK
<1>1. \A g \in Fibers \ {f} : at'[g] = at[g] /\ call'[g] = call[g]
  BY FiberEffect
<1>2. CASE connect_resolved(f) \/ connect_done(f) \/ write_done(f) \/ close_done(f)
  <2>1. reading_' = reading_
    BY <1>2, Zenon DEF connect_resolved, connect_done, write_done, close_done, memberVars
  <2>2. at'[f] \notin {"uv_shutdown", "uv_close"}
    BY <1>0, <1>2 DEF connect_resolved, connect_done, write_done, close_done, Returns, Suspends
  <2> QED BY <1>1, <2>1, <2>2, EndKeptBy
<1>3. CASE close_shutdown_done(f)
  <2>1. at[f] = "uv_shutdown" /\ call'[f] = call[f]
    BY <1>3 DEF close_shutdown_done, Resumes
  <2>2. reading_' => reading_
    BY <1>3, ZenonT(30) DEF close_shutdown_done
  <2> QED BY <1>1, <2>1, <2>2, EndKeptBy
<1>4. CASE read_resumed(f)
  <2>1. ~reading_' \/ (reading_' = reading_ /\ at'[f] = "cond")
    BY <1>0, <1>4 DEF read_resumed, memberVars, Suspends
  <2> QED BY <1>1, <2>1, EndKeptBy
<1> QED BY <1>2, <1>3, <1>4 DEF FiberResume

\* Callbacks and the peer touch neither reading_ nor the places of fibers.
LEMMA EventEnds ==
  ASSUME SocketInv, EndInv,
         (\E f \in Fibers : Callback(f)) \/ read_callback \/ on_handle_closed \/ peer_stops
  PROVE  EndInv'
<1>1. UNCHANGED <<at, call>>
  BY EventEffect
<1>2. reading_' = reading_
  BY Zenon DEF Callback, addrinfo_callback, connection_callback, write_callback,
     shutdown_callback, read_callback, on_handle_closed, peer_stops, memberVars
<1> QED BY <1>1, <1>2, Zenon DEF EndInv
-----------------------------------------------------------------------------
(* The refinement, for plain calls.                                        *)

\* The stream starts open, without readers or bytes.
LEMMA StreamStarts == Init => EndInv /\ Stream!Init
<1> SUFFICES ASSUME Init PROVE EndInv /\ Stream!Init
  OBVIOUS
<1>1. EndInv
  BY DEF Init, EndInv
<1>2. Readers = {} /\ Held = 0
  BY DEF Init, Readers, Held
<1>3. (~closed_) = TRUE /\ delivered = 0 /\ returned = 0
  BY Zenon DEF Init
<1> QED BY <1>1, <1>2, <1>3, Zenon DEF Stream!Init, Readers, Held

\* A step that changes nothing of the socket.
LEMMA IdleSimulates ==
  ASSUME EndInv, UNCHANGED <<closed_, reading_, buf_, len_, at, call, delivered, returned>>
  PROVE  EndInv' /\ [Stream!Next]_Stream!vars
BY Zenon DEF EndInv, Stream!vars

\* Every step of a socket is one of the stream's, or none.
LEMMA SocketSimulates == SocketInv /\ EndInv /\ [Next]_vars => EndInv' /\ [Stream!Next]_Stream!vars
<1> SUFFICES ASSUME SocketInv, EndInv, [Next]_vars PROVE EndInv' /\ [Stream!Next]_Stream!vars
  OBVIOUS
<1>1. ASSUME NEW f \in Fibers, FiberCall(f)
      PROVE  EndInv' /\ [Stream!Next]_Stream!vars
  BY <1>1, CallEnds, CallSimulates
<1>2. ASSUME NEW f \in Fibers, FiberResume(f)
      PROVE  EndInv' /\ [Stream!Next]_Stream!vars
  BY <1>2, ResumeEnds, ResumeSimulates
<1>3. CASE (\E f \in Fibers : Callback(f)) \/ read_callback \/ on_handle_closed \/ peer_stops
  BY <1>3, EventEnds, EventSimulates
<1>4. CASE UNCHANGED vars
  BY <1>4, IdleSimulates, Zenon DEF vars, memberVars, fiberVars, dataVars
<1> QED BY <1>1, <1>2, <1>3, <1>4 DEF Next, Destroyed

\* A socket implements ByteStream under calls of any fibers, of any sizes and in any
\* number.
THEOREM SocketImplementsStream == Spec => ImplementsStream
BY SocketInvInductive, StreamStarts, SocketSimulates, PTL DEF Spec, ImplementsStream, Stream!Spec
-----------------------------------------------------------------------------
(* The refinement, with loops and a socket_device.                         *)

\* Every step of the composed system is one of the stream's, or none: a loop reaches the
\* socket only through read(), and a socket_device closes it as close() does.
LEMMA StreamSimulates ==
  SocketInv /\ LoopInv /\ EndInv /\ [StreamNext]_streamVars => EndInv' /\ [Stream!Next]_Stream!vars
<1> SUFFICES ASSUME SocketInv, LoopInv, EndInv, [StreamNext]_streamVars
             PROVE  EndInv' /\ [Stream!Next]_Stream!vars
  OBVIOUS
<1>0. /\ call \in [Fibers -> {"none", "connect", "read", "write", "close", "destroy"}]
      /\ at \in [Fibers -> Points] /\ TypeOK
  BY DEF SocketInv, TypeOK
<1>1. ASSUME NEW f \in Fibers, NEW op, NEW n, loop_begin(f, op, n)
      PROVE  EndInv' /\ [Stream!Next]_Stream!vars
  <2>1. at[f] = "idle" /\ UNCHANGED <<memberVars, at, dataVars>>
    BY <1>1, Zenon DEF loop_begin, Calls
  <2>2. \A g \in Fibers \ {f} : call'[g] = call[g]
    BY <1>0, <1>1 DEF loop_begin, Calls
  <2>3. EndInv'
    BY <2>1, <2>2, EndKeptBy DEF memberVars
  <2>4. [Stream!Next]_Stream!vars
    BY <2>1, ElsewhereSimulates
  <2> QED BY <2>3, <2>4
<1>2. ASSUME NEW f \in Fibers, loop_end(f)
      PROVE  EndInv' /\ [Stream!Next]_Stream!vars
  BY <1>2, IdleSimulates, Zenon DEF loop_end, memberVars, dataVars
<1>3. ASSUME NEW f \in Fibers, loop_read(f)
      PROVE  EndInv' /\ [Stream!Next]_Stream!vars
  <2>1. at[f] = "idle" /\ read_begin(f, f, bytes_left[f]) /\ UNCHANGED call
    BY <1>3, Zenon DEF loop_read
  <2>2. EndInv'
    BY <2>1, ReadBeginEnds, EndKeptBy
  <2>3. [Stream!Next]_Stream!vars
    BY <2>1, ReadSimulates
  <2> QED BY <2>2, <2>3
<1>4. ASSUME NEW f \in Fibers, NEW mode, device_close(f, mode)
      PROVE  EndInv' /\ [Stream!Next]_Stream!vars
  <2>1. at[f] = "idle" /\ UNCHANGED <<reading_, buf_, len_, dataVars>>
    BY <1>4, Zenon DEF device_close, Calls
  <2>2. call'[f] # "read" /\ \A g \in Fibers \ {f} : call'[g] = call[g]
    BY <1>0, <1>4 DEF device_close, Calls
  <2>3. (~closed_ /\ close_begin(f)) \/ (closed_' = closed_ /\ Returns(f, "ok"))
    BY <1>4, Zenon DEF device_close, device_closes
  <2>4. \A g \in Fibers \ {f} : at'[g] = at[g]
    BY <1>0, <2>3, ReturnsEffect, SuspendsEffect DEF close_begin, close_handle
  <2>5. EndInv'
    BY <2>1, <2>2, <2>4, EndKeptBy
  <2>6. CASE ~closed_ /\ close_begin(f)
    BY <2>1, <2>5, <2>6, CloseSimulates
  <2>7. CASE closed_' = closed_ /\ Returns(f, "ok")
    BY <2>1, <2>5, <2>7, ElsewhereSimulates DEF memberVars
  <2> QED BY <2>3, <2>6, <2>7
<1>5. ASSUME NEW f \in Fibers, loop_resumed(f) \/ PlainResume(f)
      PROVE  EndInv' /\ [Stream!Next]_Stream!vars
  BY <1>5, ResumeEnds, ResumeSimulates, Zenon DEF loop_resumed, PlainResume
<1>6. ASSUME NEW f \in Fibers, PlainCall(f)
      PROVE  EndInv' /\ [Stream!Next]_Stream!vars
  BY <1>6, CallEnds, CallSimulates, Zenon DEF PlainCall
<1>7. CASE (\E f \in Fibers : Event(f)) \/ Read \/ Closed \/ PeerStops
  <2>1. (\E f \in Fibers : Callback(f)) \/ read_callback \/ on_handle_closed \/ peer_stops
    BY <1>7, Zenon DEF Event, Read, Closed, PeerStops
  <2> QED BY <2>1, EventEnds, EventSimulates
<1>8. CASE UNCHANGED streamVars
  BY <1>8, IdleSimulates, Zenon DEF streamVars, vars, memberVars, fiberVars, dataVars
<1> QED
  BY <1>1, <1>2, <1>3, <1>4, <1>5, <1>6, <1>7, <1>8, Zenon
  DEF StreamNext, LoopStep, read_exactly, device_read

\* A socket implements ByteStream also when fibers loop over it and close it through a
\* socket_device, for any sizes of the loops' buffers.
THEOREM LoopsImplementStream == StreamSpec => ImplementsStream
<1>1. StreamInit => EndInv /\ Stream!Init
  BY StreamStarts, Zenon DEF StreamInit
<1> QED
  BY <1>1, StreamInvariant, StreamSimulates, PTL DEF StreamSpec, ImplementsStream, Stream!Spec
=============================================================================
