-------------------------- MODULE SocketStreamLoss --------------------------
(***************************************************************************)
(* What a loop of read_exactly or socket_device::read has consumed is lost *)
(* only with the connection.  While the socket is open, a loop that has    *)
(* consumed bytes is connected; between two of its reads nothing else      *)
(* reads; and its read fails only when the peer has reset the connection.  *)
(***************************************************************************)
EXTENDS SocketStreamProofs

LossOpen ==
  /\ \A f \in Fibers : Looping(f) /\ bytes_left[f] < size[f] =>
       /\ tcp_ = "connected"
       /\ running = f => ~reading_ /\ ~uv_reading
       /\ at[f] = "cond" /\ len_ = ERROR_READ_FAILED => peer = "reset"
  /\ \A f \in Fibers : Looping(f) /\ at[f] = "cond" /\ buf_ # NoBuf => len_ > 0
  /\ reading_ /\ buf_ = NoBuf /\ len_ > 0 => tcp_ = "connected"

LossInv == ~closed_ => LossOpen

\* LossInv holds initially.
LEMMA LossInvInit == StreamInit => LossInv
BY DEF StreamInit, Init, LossInv, LossOpen, Looping

\* A connection stays what it is until the socket is closed.
LEMMA OpenStays ==
  ASSUME SocketInv, [Next]_vars, ~closed_'
  PROVE  /\ ~closed_
         /\ tcp_ = "connected" => tcp_' = "connected"
         /\ peer = "reset" => peer' = "reset"
<1> USE DEF memberVars, uvVars, fiberVars, dataVars
<1>1. ASSUME NEW f \in Fibers, connect(f) \/ connect_done(f) \/ write(f) \/ write_done(f) \/ Callback(f)
      PROVE  ~closed_ /\ (tcp_ = "connected" => tcp_' = "connected") /\ peer' = peer
  BY <1>1 DEF connect, connect_done, write, write_done, Callback, addrinfo_callback,
              connection_callback, write_callback, shutdown_callback
<1>2. ASSUME NEW f \in Fibers, connect_resolved(f)
      PROVE  ~closed_ /\ (tcp_ = "connected" => tcp_' = "connected") /\ peer' = peer
  BY <1>2, ZenonT(30) DEF connect_resolved
<1>3. ASSUME NEW f \in Fibers, close(f) \/ destroy(f) \/ read(f) \/ read_resumed(f)
      PROVE  ~closed_ /\ tcp_' = tcp_ /\ peer' = peer
  BY <1>3 DEF close, destroy, read, read_begin, read_resumed, close_begin
<1>4. ASSUME NEW f \in Fibers, close_shutdown_done(f) \/ close_done(f)
      PROVE  FALSE
  BY <1>4, ZenonT(30) DEF close_shutdown_done, close_done, Resumes, SocketInv, CloseInv
<1>5. CASE on_handle_closed
  BY <1>5, ZenonT(30) DEF on_handle_closed, Pending, SocketInv, CloseInv
<1>6. CASE read_callback \/ peer_stops \/ Destroyed \/ UNCHANGED vars
  BY <1>6 DEF read_callback, peer_stops, Destroyed, vars
<1> QED BY <1>1, <1>2, <1>3, <1>4, <1>5, <1>6, Zenon DEF Next, FiberCall, FiberResume

\* Steps that leave the loops and the result of a waiting loop alone.
LEMMA LossKept ==
  ASSUME LoopInv, LossOpen, UNCHANGED <<loopVars, running>>,
         tcp_ = "connected" => tcp_' = "connected",
         peer = "reset" => peer' = "reset",
         running # NoBuf => UNCHANGED <<reading_, uv_reading>>,
         \A g \in Fibers : Looping(g) /\ at'[g] = "cond" => at[g] = "cond" /\ UNCHANGED <<len_, buf_>>,
         reading_' /\ buf_' = NoBuf /\ len_' > 0 =>
           (reading_ /\ buf_ = NoBuf /\ len_ > 0) \/ tcp_' = "connected"
  PROVE  LossOpen'
<1> USE SocketAssumption
<1>1. \A g \in Fibers : /\ loop'[g] = loop[g] /\ size'[g] = size[g] /\ bytes_left'[g] = bytes_left[g]
                       /\ (Looping(g)' <=> Looping(g))
  BY DEF loopVars, Looping
<1>2. ASSUME NEW g \in Fibers, Looping(g), bytes_left[g] < size[g]
      PROVE  /\ tcp_' = "connected"
             /\ running' = g => ~reading_' /\ ~uv_reading'
             /\ at'[g] = "cond" /\ len_' = ERROR_READ_FAILED => peer' = "reset"
  <2>1. /\ tcp_ = "connected"
        /\ running = g => ~reading_ /\ ~uv_reading
        /\ at[g] = "cond" /\ len_ = ERROR_READ_FAILED => peer = "reset"
    BY <1>2, Zenon DEF LossOpen
  <2> QED BY <1>2, <2>1
<1>3. ASSUME NEW g \in Fibers, Looping(g), at'[g] = "cond", buf_' # NoBuf
      PROVE  len_' > 0
  BY <1>3 DEF LossOpen
<1>4. reading_' /\ buf_' = NoBuf /\ len_' > 0 => tcp_' = "connected"
  BY DEF LossOpen
<1> QED BY <1>1, <1>2, <1>3, <1>4, Zenon DEF LossOpen

\* Every step of the fibers, of libuv and of the peer keeps LossInv.
LEMMA LossInvStep ==
  SocketInv /\ LoopInv /\ LossInv /\ [StreamNext]_streamVars => LossInv'
<1> SUFFICES ASSUME SocketInv, LoopInv, LossInv, [StreamNext]_streamVars, ~closed_'
             PROVE  LossOpen'
  BY DEF LossInv
<1> USE SocketAssumption
<1> USE DEF memberVars, uvVars, fiberVars, dataVars
<1>0. /\ TypeOK /\ ReadInv /\ LoopTypes /\ LoopPlaces
      /\ \A f \in Fibers : at[f] = "cond" => reading_
      /\ \A f, g \in Fibers : at[f] = "cond" /\ at[g] = "cond" => f = g
  BY DEF SocketInv, LoopInv, ReadInv, OneReader
<1>a. /\ at \in [Fibers -> Points] /\ len_ \in Int
      /\ loop \in [Fibers -> {"none", "read_exactly", "device_read"}]
      /\ size \in [Fibers -> Nat] /\ bytes_left \in [Fibers -> Nat] /\ start \in [Fibers -> Nat]
  BY <1>0 DEF TypeOK, LoopTypes, ERROR_EOF, ERROR_READ_FAILED
\* Calls of other fibers, and device_close.
<1>1. ASSUME NEW f \in Fibers, PlainCall(f) PROVE LossOpen'
  <2>1. running = NoBuf /\ FiberCall(f) /\ UNCHANGED <<loopVars, running>> /\ [Next]_vars
    BY <1>1 DEF PlainCall, Next
  <2>2. /\ ~closed_ /\ (tcp_ = "connected" => tcp_' = "connected") /\ (peer = "reset" => peer' = "reset")
    BY <2>1, OpenStays, Zenon
  <2>3. LossOpen
    BY <2>2 DEF LossInv
  <2>4. CASE connect(f) \/ write(f) \/ close(f) \/ destroy(f)
    <3>1. UNCHANGED <<reading_, buf_, len_>>
      BY <2>4 DEF connect, write, close, destroy
    <3>2. \A g \in Fibers : at'[g] = "cond" => at[g] = "cond"
      <4>1. (\E r : Returns(f, r)) \/ (\E q \in Points \ {"cond"} : Suspends(f, q)) \/ UNCHANGED at
        BY <2>4 DEF connect, write, close, destroy, close_begin, close_handle, Points
      <4> QED BY <1>a, <4>1 DEF Returns, Suspends
    <3> QED BY <2>1, <2>2, <2>3, <3>1, <3>2, LossKept
  <2>5. CASE read(f)
    <3>1. PICK n \in ReadSizes, b \in {f, NoBuf} : read_begin(f, b, n)
      BY <2>5 DEF read
    <3>2. at[f] = "idle" /\ ~Looping(f)
      BY <1>0, <2>1, <2>5, ZenonT(30) DEF read, Calls, LoopPlaces
    <3>3. \A g \in Fibers : Looping(g) /\ at'[g] = "cond" => at[g] = "cond"
      BY <1>a, <3>1, <3>2 DEF read_begin, Returns, Suspends
    <3>4. reading_ => UNCHANGED <<reading_, len_, buf_>>
      BY <2>2, <3>1, Zenon DEF read_begin, concurrent_read
    <3>5. ~reading_ => ~(reading_' /\ buf_' = NoBuf)
      BY <2>2, <3>1, ZenonT(30) DEF read_begin, concurrent_read
    <3>6. \A g \in Fibers : Looping(g) /\ at'[g] = "cond" => at[g] = "cond" /\ UNCHANGED <<len_, buf_>>
      BY <1>0, <3>3, <3>4, Zenon
    <3>7. reading_' /\ buf_' = NoBuf /\ len_' > 0 => reading_ /\ buf_ = NoBuf /\ len_ > 0
      BY <3>4, <3>5, Zenon
    <3> QED BY <2>1, <2>2, <2>3, <3>6, <3>7, LossKept, Zenon
  <2> QED BY <2>1, <2>4, <2>5 DEF FiberCall
<1>2. ASSUME NEW f \in Fibers, NEW mode, device_close(f, mode) PROVE LossOpen'
  <2>1. Returns(f, "ok") /\ UNCHANGED <<closed_, tcp_, uv_reading, reading_, buf_, len_, peer, loopVars, running>>
    BY <1>2 DEF device_close, close_begin
  <2>2. \A g \in Fibers : at'[g] = "cond" => at[g] = "cond"
    BY <1>a, <2>1 DEF Returns
  <2>3. LossOpen
    BY <2>1 DEF LossInv
  <2> QED BY <2>1, <2>2, <2>3, LossKept
\* Calls that go on, of fibers that do not loop, and libuv's other callbacks.
<1>3. ASSUME NEW f \in Fibers, PlainResume(f) PROVE LossOpen'
  <2>1. running = NoBuf /\ ~Looping(f) /\ FiberResume(f) /\ UNCHANGED <<loopVars, running>> /\ [Next]_vars
    BY <1>3 DEF PlainResume, Next
  <2>2. /\ ~closed_ /\ (tcp_ = "connected" => tcp_' = "connected") /\ (peer = "reset" => peer' = "reset")
    BY <2>1, OpenStays, Zenon
  <2>3. LossOpen
    BY <2>2 DEF LossInv
  <2>4. CASE connect_resolved(f) \/ connect_done(f) \/ write_done(f)
    <3>1. UNCHANGED <<reading_, buf_, len_>>
      BY <2>4 DEF connect_resolved, connect_done, write_done
    <3>2. (\E r : Returns(f, r)) \/ Suspends(f, "uv_connect")
      BY <2>4, Zenon DEF connect_resolved, connect_done, write_done
    <3>3. \A g \in Fibers : at'[g] = "cond" => at[g] = "cond"
      BY <1>a, <3>2 DEF Returns, Suspends
    <3> QED BY <2>1, <2>2, <2>3, <3>1, <3>3, LossKept
  <2>5. CASE close_shutdown_done(f) \/ close_done(f)
    BY <2>2, <2>5, ZenonT(30) DEF close_shutdown_done, close_done, Resumes, SocketInv, CloseInv
  <2>6. CASE read_resumed(f)
    <3>1. at[f] = "cond" /\ (\A g \in Fibers : Looping(g) => at[g] # "cond" /\ g # f)
      BY <1>0, <2>1, <2>6, ZenonT(30) DEF read_resumed, Resumes
    <3>2. (\E r : Returns(f, r)) \/ (\E q : Suspends(f, q))
      BY <2>6 DEF read_resumed, close_begin, close_handle
    <3>a. \A g \in Fibers \ {f} : at'[g] = at[g]
      BY <1>0, <3>2, ReturnsEffect, SuspendsEffect, ZenonT(30)
    <3>3. \A g \in Fibers : Looping(g) => at'[g] # "cond"
      BY <3>1, <3>a
    <3>4. ~reading_' \/ UNCHANGED <<reading_, buf_, len_>>
      BY <2>6 DEF read_resumed
    <3> QED BY <2>1, <2>2, <2>3, <3>3, <3>4, LossKept
  <2> QED BY <2>1, <2>4, <2>5, <2>6 DEF FiberResume
<1>4. CASE (\E f \in Fibers : Event(f)) \/ Closed \/ PeerStops \/ (Destroyed /\ UNCHANGED streamVars)
           \/ UNCHANGED streamVars
  <2>1. UNCHANGED <<loopVars, running, at, reading_, uv_reading, buf_, len_>>
    BY <1>4 DEF Event, Callback, addrinfo_callback, connection_callback, write_callback,
                shutdown_callback, Closed, on_handle_closed, PeerStops, peer_stops, streamVars, vars
  <2>2. [Next]_vars
    BY <1>4 DEF Event, Closed, PeerStops, Next, streamVars
  <2>3. /\ ~closed_ /\ (tcp_ = "connected" => tcp_' = "connected") /\ (peer = "reset" => peer' = "reset")
    BY <2>2, OpenStays, Zenon
  <2>4. LossOpen
    BY <2>3 DEF LossInv
  <2> QED BY <2>1, <2>3, <2>4, LossKept, ZenonT(30)
\* libuv reports what it has read.
<1>5. CASE Read
  <2>1. /\ running = NoBuf /\ uv_reading /\ tcp_ # "connecting" /\ buf_' = NoBuf /\ len_' \in nreads
        /\ UNCHANGED <<closed_, reading_, tcp_, peer, at, loopVars, running>>
    BY <1>5 DEF Read, read_callback, on_read_finished
  <2>2. LossOpen
    BY <2>1 DEF LossInv
  <2>3. tcp_ \in {"failed", "connected"} /\ (reading_ => buf_ # NoBuf)
    BY <1>0, <2>1 DEF TypeOK, ReadInv, BufferOutlivesRead
  <2>4. len_' = ERROR_READ_FAILED => tcp_ = "failed" \/ peer = "reset" \/ buf_ = NoBuf \/ len_ = 0
    BY <1>a, <2>1 DEF nreads, ERROR_EOF, ERROR_READ_FAILED
  <2>5. len_' > 0 => tcp_ # "failed"
    BY <1>a, <2>1 DEF nreads, ERROR_EOF, ERROR_READ_FAILED
  <2>6. \A g \in Fibers : Looping(g) /\ at[g] = "cond" => buf_ # NoBuf /\ len_ # 0
    BY <1>0, <1>a, <2>2, <2>3 DEF LossOpen
  <2>7. \A g \in Fibers : /\ size'[g] = size[g] /\ bytes_left'[g] = bytes_left[g] /\ at'[g] = at[g]
                         /\ (Looping(g)' <=> Looping(g))
    BY <2>1 DEF loopVars, Looping
  <2>8. ASSUME NEW g \in Fibers, Looping(g), bytes_left[g] < size[g]
        PROVE  /\ tcp_' = "connected"
               /\ running' # g
               /\ at[g] = "cond" /\ len_' = ERROR_READ_FAILED => peer' = "reset"
    BY <2>1, <2>2, <2>4, <2>6, <2>8 DEF LossOpen
  <2> QED BY <2>1, <2>3, <2>5, <2>7, <2>8, Zenon DEF LossOpen
\* The loops themselves.
<1>6. ASSUME NEW f \in Fibers, NEW op, NEW n \in LoopSizes, loop_begin(f, op, n) PROVE LossOpen'
  <2>1. /\ UNCHANGED <<closed_, reading_, buf_, len_, tcp_, uv_reading, peer, at>> /\ at[f] = "idle"
        /\ running' = f /\ loop' = [loop EXCEPT ![f] = op]
        /\ size' = [size EXCEPT ![f] = n] /\ bytes_left' = [bytes_left EXCEPT ![f] = n]
    BY <1>6 DEF loop_begin, Calls
  <2>2. LossOpen
    BY <2>1 DEF LossInv
  <2>3. \A g \in Fibers \ {f} : /\ size'[g] = size[g] /\ bytes_left'[g] = bytes_left[g] /\ running' # g
                               /\ (Looping(g)' <=> Looping(g))
    BY <1>a, <2>1 DEF Looping
  <2>4. size'[f] = bytes_left'[f] /\ ~(bytes_left'[f] < size'[f])
    <3>1. size'[f] = n /\ bytes_left'[f] = n
      BY <1>a, <2>1
    <3>2. n \in Nat
      BY StreamAssumption
    <3> QED BY <3>1, <3>2
  <2> QED BY <2>1, <2>2, <2>3, <2>4, Zenon DEF LossOpen
<1>7. ASSUME NEW f \in Fibers, loop_over(f), ~Looping(f)', running' = NoBuf,
             LossOpen,
             tcp_' = tcp_, peer' = peer,
             \A g \in Fibers \ {f} : Looping(g) => at'[g] = at[g],
             \A g \in Fibers \ {f} : Looping(g) /\ at[g] = "cond" => UNCHANGED <<len_, buf_>>,
             reading_' /\ buf_' = NoBuf /\ len_' > 0 => reading_ /\ buf_ = NoBuf /\ len_ > 0
      PROVE  LossOpen'
  <2>1. \A g \in Fibers \ {f} : /\ size'[g] = size[g] /\ bytes_left'[g] = bytes_left[g]
                               /\ (Looping(g)' <=> Looping(g))
    BY <1>a, <1>7 DEF loop_over, Looping
  <2>2. ASSUME NEW g \in Fibers, Looping(g)' PROVE g \in Fibers \ {f} /\ Looping(g)
    BY <1>7, <2>1, <2>2
  <2>3. ASSUME NEW g \in Fibers, Looping(g)', bytes_left'[g] < size'[g]
        PROVE  /\ tcp_' = "connected"
               /\ running' # g
               /\ at'[g] = "cond" /\ len_' = ERROR_READ_FAILED => peer' = "reset"
    BY <1>7, <2>1, <2>2, <2>3 DEF LossOpen
  <2>4. ASSUME NEW g \in Fibers, Looping(g)', at'[g] = "cond", buf_' # NoBuf
        PROVE  len_' > 0
    BY <1>7, <2>1, <2>2, <2>4, ZenonT(30) DEF LossOpen
  <2>5. reading_' /\ buf_' = NoBuf /\ len_' > 0 => tcp_' = "connected"
    BY <1>7 DEF LossOpen
  <2> QED BY <2>3, <2>4, <2>5, Zenon DEF LossOpen
<1>8. ASSUME NEW f \in Fibers, loop_over(f) PROVE ~Looping(f)'
  BY <1>a, <1>8 DEF loop_over, Looping
<1>9. ASSUME NEW f \in Fibers, loop_end(f) PROVE LossOpen'
  <2>1. /\ loop_over(f) /\ running' = NoBuf
        /\ UNCHANGED <<closed_, reading_, buf_, len_, tcp_, peer, at>>
    BY <1>9 DEF loop_end
  <2>2. LossOpen
    BY <2>1 DEF LossInv
  <2> QED BY <1>7, <1>8, <2>1, <2>2
<1>10. ASSUME NEW f \in Fibers, loop_read(f) PROVE LossOpen'
  <2>1. /\ Looping(f) /\ at[f] = "idle" /\ running' = NoBuf /\ bytes_left[f] > 0
        /\ read_begin(f, f, bytes_left[f])
        /\ IF at'[f] = "idle" THEN loop_over(f) ELSE UNCHANGED loopVars
    BY <1>10 DEF loop_read, goes_on
  <2>2. UNCHANGED <<closed_, tcp_, peer>>
    BY <2>1 DEF read_begin
  <2>3. LossOpen
    BY <2>2 DEF LossInv
  <2>4. CASE \E r : Returns(f, r)
    <3>1. at'[f] = "idle" /\ \A g \in Fibers \ {f} : at'[g] = at[g]
      BY <1>0, <2>4, ReturnsEffect
    <3>a. ~closed_
      BY <2>2
    <3>b. reading_ => UNCHANGED <<reading_, len_, buf_>>
      BY <2>1, <3>a, ZenonT(30) DEF read_begin, concurrent_read
    <3>c. ~reading_ => ~(reading_' /\ buf_' = NoBuf)
      BY <2>1, <3>a, ZenonT(30) DEF read_begin, concurrent_read
    <3>2. (reading_ => UNCHANGED <<reading_, len_, buf_>>) /\ (~reading_ => ~(reading_' /\ buf_' = NoBuf))
      BY <3>b, <3>c, Zenon
    <3>3. \A g \in Fibers \ {f} : Looping(g) /\ at[g] = "cond" => UNCHANGED <<len_, buf_>>
      BY <1>0, <3>2
    <3>4. reading_' /\ buf_' = NoBuf /\ len_' > 0 => reading_ /\ buf_ = NoBuf /\ len_ > 0
      BY <3>2, Zenon
    <3>5. loop_over(f)
      BY <2>1, <3>1
    <3> QED BY <1>7, <1>8, <2>1, <2>2, <2>3, <3>1, <3>3, <3>4, <3>5, ZenonT(30)
  <2>5. CASE ~reading_ /\ Suspends(f, "cond") /\ buf_' = f /\ len_' = bytes_left[f]
    <3>1. at'[f] = "cond" /\ \A g \in Fibers \ {f} : at'[g] = at[g]
      BY <1>0, <2>5, SuspendsEffect
    <3>2. \A g \in Fibers : at'[g] = "cond" => g = f
      BY <1>0, <2>5, <3>1
    <3>3. \A g \in Fibers : /\ size'[g] = size[g] /\ bytes_left'[g] = bytes_left[g]
                           /\ (Looping(g)' <=> Looping(g))
      BY <2>1, <3>1 DEF loopVars, Looping
    <3>4. len_' > 0 /\ len_' # ERROR_READ_FAILED /\ buf_' # NoBuf
      BY <2>1, <2>5, <1>a DEF ERROR_READ_FAILED
    <3> QED BY <2>1, <2>2, <2>3, <3>2, <3>3, <3>4, Zenon DEF LossOpen
  <2> QED BY <2>1, <2>2, <2>4, <2>5 DEF read_begin, concurrent_read
<1>11. ASSUME NEW f \in Fibers, loop_resumed(f) PROVE LossOpen'
  <2>1. /\ running = NoBuf /\ Looping(f) /\ FiberResume(f) /\ [Next]_vars
        /\ at[f] \in {"cond", "uv_shutdown", "uv_close"}
    BY <1>0, <1>11, ZenonT(40) DEF loop_resumed, LoopPlaces, Next
  <2>2. /\ ~closed_ /\ (tcp_ = "connected" => tcp_' = "connected")
    BY <2>1, OpenStays, Zenon
  <2>3. LossOpen
    BY <2>2 DEF LossInv
  <2>4. at[f] = "cond" /\ read_resumed(f)
    BY <2>1, <2>2, ResumesAt, ZenonT(30) DEF SocketInv, CloseInv
  <2>5. \A g \in Fibers \ {f} : at[g] # "cond"
    BY <1>0, <2>4, ZenonT(30)
  <2>6. \/ /\ Suspends(f, "cond")
           /\ UNCHANGED <<reading_, buf_, len_, tcp_, uv_reading, peer, returned>>
        \/ /\ \/ Returns(f, "ok") /\ len_ >= 0 /\ returned' = returned + len_ /\ UNCHANGED uv_reading
              \/ Returns(f, "io_error")
           /\ buf_ = NoBuf /\ reading_' = FALSE /\ UNCHANGED <<tcp_, peer>>
    BY <2>2, <2>4 DEF read_resumed, close_begin, must_wait
  <2>7. /\ at'[f] \in {"cond", "idle"} /\ (at'[f] = "cond" <=> Suspends(f, "cond"))
        /\ \A g \in Fibers \ {f} : at'[g] = at[g]
    BY <1>0, <2>6, ReturnsEffect, SuspendsEffect, ZenonT(30)
  <2>8. CASE Suspends(f, "cond")
    <3>1. UNCHANGED <<loopVars, running, reading_, buf_, len_, tcp_, uv_reading, peer>>
      <4>1. at'[f] = "cond"
        BY <2>7, <2>8
      <4>2. \A r : ~Returns(f, r)
        BY <1>0, <4>1, ReturnsEffect
      <4>3. UNCHANGED <<loopVars, running>>
        BY <1>11, <4>1, ZenonT(30) DEF loop_resumed
      <4> QED BY <2>6, <4>2, <4>3
    <3> QED BY <2>3, <2>4, <2>7, <3>1, LossKept
  <2>9. CASE Returns(f, "io_error") /\ ~Suspends(f, "cond") /\ reading_' = FALSE /\ UNCHANGED <<tcp_, peer>>
    <3>1. result'[f] = "io_error" /\ at'[f] = "idle"
      BY <1>0, <2>7, <2>9, ZenonT(30) DEF Returns, TypeOK
    <3>2. loop_over(f) /\ running' = NoBuf
      BY <1>11, <2>1, <3>1 DEF loop_resumed
    <3> QED BY <1>7, <1>8, <2>3, <2>5, <2>7, <2>9, <3>2, ZenonT(30)
  <2>10. CASE /\ Returns(f, "ok") /\ ~Suspends(f, "cond")
              /\ len_ >= 0 /\ returned' = returned + len_
              /\ buf_ = NoBuf /\ reading_' = FALSE /\ UNCHANGED <<tcp_, peer, uv_reading>>
    <3>1. result'[f] = "ok" /\ at'[f] = "idle"
      BY <1>0, <2>7, <2>10 DEF Returns, TypeOK
    <3>2. /\ bytes_left' = [bytes_left EXCEPT ![f] = @ - (returned' - returned)]
          /\ running' = f /\ UNCHANGED <<loop, size>>
      BY <1>11, <3>1, ZenonT(30) DEF loop_resumed, thread_after_read
    <3>3. ~uv_reading'
      BY <1>0, <2>4, <2>10 DEF ReadInv
    <3>4. \A g \in Fibers \ {f} : bytes_left'[g] = bytes_left[g] /\ running' # g /\ at'[g] # "cond"
      BY <1>a, <2>5, <2>7, <3>2, ZenonT(30)
    <3>5. bytes_left'[f] = bytes_left[f] - len_
      BY <1>0, <1>a, <2>10, <3>2 DEF TypeOK
    <3>6. bytes_left'[f] < size[f] => tcp_' = "connected"
      <4>1. CASE len_ > 0
        BY <1>0, <2>3, <2>4, <2>10, <4>1 DEF LossOpen
      <4>2. CASE len_ = 0
        BY <1>a, <2>1, <2>3, <2>10, <3>5, <4>2 DEF LossOpen
      <4>3. len_ \in Int /\ len_ >= 0
        BY <1>a, <2>10, ZenonT(30)
      <4>4. len_ > 0 \/ len_ = 0
        BY ONLY <4>3
      <4> QED BY <4>1, <4>2, <4>4, ZenonT(30)
    <3>7. \A g \in Fibers : Looping(g)' <=> Looping(g)
      BY <3>2, ZenonT(30) DEF Looping
    <3>8. ASSUME NEW g \in Fibers, Looping(g)', bytes_left'[g] < size'[g]
          PROVE  /\ tcp_' = "connected"
                 /\ running' = g => ~reading_' /\ ~uv_reading'
                 /\ at'[g] # "cond"
      BY <2>3, <2>10, <3>1, <3>2, <3>3, <3>4, <3>6, <3>7, <3>8 DEF LossOpen
    <3>9. \A g \in Fibers : at'[g] # "cond"
      BY <3>1, <3>4
    <3> QED BY <2>10, <3>8, <3>9, Zenon DEF LossOpen
  <2> QED BY <2>6, <2>8, <2>9, <2>10, Zenon
<1> QED
  BY <1>1, <1>2, <1>3, <1>4, <1>5, <1>6, <1>9, <1>10, <1>11, Zenon
     DEF StreamNext, LoopStep, read_exactly, device_read

\* A loop that has consumed bytes throws only when the socket has been closed or the
\* peer has reset the connection: other fibers never make it lose what it has read.
THEOREM LosesOnlyAtEnd == StreamSpec => LossOnlyAtEnd
<1> DEFINE Loses ==
      \A f \in Fibers :
        Looping(f) /\ loop'[f] = "none" /\ result'[f] # "ok" /\ bytes_left[f] < size[f] =>
          closed_' \/ peer = "reset"
<1>1. ASSUME SocketInv, LoopInv, LossInv, [StreamNext]_streamVars
      PROVE  [Loses]_streamVars
  <2> SUFFICES ASSUME StreamNext, NEW f \in Fibers, Looping(f), loop'[f] = "none",
                      result'[f] # "ok", bytes_left[f] < size[f], ~closed_'
               PROVE  peer = "reset"
    BY <1>1, ZenonT(30)
  <2>0. /\ loop \in [Fibers -> {"none", "read_exactly", "device_read"}] /\ loop[f] # "none"
        /\ result \in [Fibers -> Results] /\ TypeOK /\ ReadInv
        /\ \A g \in Fibers : Looping(g) /\ running # g => at[g] \in {"cond", "uv_shutdown", "uv_close"}
    BY <1>1 DEF SocketInv, TypeOK, Results, LoopInv, LoopTypes, LoopPlaces, Looping
  <2>a. TypeOK
    BY <2>0
  <2>1. ASSUME NEW g \in Fibers, loop_end(g) PROVE FALSE
    BY <2>0, <2>1 DEF loop_end, loop_over
  <2>2. ASSUME NEW g \in Fibers, loop_read(g) PROVE FALSE
    <3>1. g = f /\ at[f] = "idle" /\ at'[f] = "idle"
      BY <2>0, <2>2 DEF loop_read, loop_over, loopVars
    <3>2. read_begin(f, f, bytes_left[f])
      BY <2>2, <3>1, ZenonT(30) DEF loop_read
    <3>3. ~closed_ /\ running = f
      BY <2>0, <3>1, <3>2, ZenonT(30) DEF read_begin
    <3>4. tcp_ = "connected" /\ ~reading_ /\ ~uv_reading
      BY <1>1, <3>3 DEF LossInv, LossOpen
    <3>5. uv_read_refusals = {}
      BY <3>4, ZenonT(30) DEF uv_read_refusals, uv_refuses
    <3>6. Suspends(f, "cond")
      BY <3>2, <3>3, <3>4, <3>5, SocketAssumption DEF read_begin, concurrent_read
    <3>7. at'[f] = "cond"
      BY <2>a, <3>6, SuspendsEffect, Zenon
    <3> QED BY <3>1, <3>7, ZenonT(30)
  <2>3. ASSUME NEW g \in Fibers, loop_resumed(g) PROVE peer = "reset"
    <3>1. g = f /\ running = NoBuf /\ FiberResume(f) /\ at'[f] = "idle" /\ result'[f] \notin {"ok", "0"}
      BY <2>0, <2>3 DEF loop_resumed, loop_over, loopVars
    <3>2. at[f] \in {"cond", "uv_shutdown", "uv_close"}
      BY <2>0, <3>1, SocketAssumption, ZenonT(30)
    <3>3. ~closed_
      BY <1>1, <3>1, OpenStays DEF Next
    <3>4. at[f] = "cond" /\ read_resumed(f)
      BY <1>1, <3>1, <3>2, <3>3, ResumesAt, ZenonT(30) DEF SocketInv, CloseInv
    <3>5. len_ = ERROR_READ_FAILED
      <4>1. CASE Suspends(f, "cond")
        <5>1. at'[f] = "cond"
          BY <2>a, <4>1, SuspendsEffect, ZenonT(30)
        <5> QED BY <3>1, <5>1
      <4>2. CASE Returns(f, "ok")
        BY <2>0, <3>1, <4>2 DEF Returns
      <4> QED BY <3>3, <3>4, <4>1, <4>2, ZenonT(30) DEF read_resumed, close_begin
    <3> QED BY <1>1, <3>3, <3>4, <3>5, ZenonT(30) DEF LossInv, LossOpen
  <2>4. ASSUME NEW g \in Fibers, NEW op \in {"read_exactly", "device_read"}, NEW n, loop_begin(g, op, n)
        PROVE  FALSE
    BY <2>0, <2>4, ZenonT(30) DEF loop_begin
  <2>5. ASSUME UNCHANGED loop PROVE FALSE
    BY <2>0, <2>5, ZenonT(30)
  <2> QED
    BY <2>1, <2>2, <2>3, <2>4, <2>5, Zenon
       DEF StreamNext, LoopStep, read_exactly, device_read, device_close, PlainCall, PlainResume, Event,
           Read, Closed, PeerStops, streamVars, loopVars
<1>2. SocketInv /\ LoopInv /\ LossInv /\ [StreamNext]_streamVars => [Loses]_streamVars
  BY <1>1
<1> QED BY <1>2, StreamInvariant, LossInvInit, LossInvStep, PTL DEF StreamSpec, LossOnlyAtEnd
=============================================================================
