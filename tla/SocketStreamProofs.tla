------------------------- MODULE SocketStreamProofs -------------------------
(***************************************************************************)
(* The loops of read_exactly and socket_device::read, for any number of    *)
(* fibers and any sizes.  The socket's own invariant carries over, since a *)
(* loop only calls read(); the loops add where a looping fiber can be and  *)
(* that a read never delivers more than the loop still wants.              *)
(***************************************************************************)
EXTENDS SocketStream, SocketImplProofs

LoopTypes ==
  /\ loop \in [Fibers -> {"none", "read_exactly", "device_read"}]
  /\ size \in [Fibers -> Nat]
  /\ bytes_left \in [Fibers -> Nat]
  /\ start \in [Fibers -> Nat]
  /\ running \in Fibers \cup {NoBuf}

LoopPlaces ==
  \A f \in Fibers :
    /\ running = f => Looping(f) /\ at[f] = "idle"
    /\ Looping(f) => call[f] = "read"
    /\ Looping(f) /\ running # f => at[f] \in {"cond", "uv_shutdown", "uv_close"}
    /\ Looping(f) /\ at[f] = "cond" => len_ <= bytes_left[f]

LoopInv == LoopTypes /\ LoopPlaces /\ LoopIsContiguous

\* LoopInv holds initially.
LEMMA LoopInvInit == StreamInit => LoopInv
BY SocketAssumption DEF StreamInit, LoopInv, LoopTypes, LoopPlaces, LoopIsContiguous, Looping

\* Where a fiber waits tells which part of a call it resumes.
LEMMA ResumesAt ==
  ASSUME NEW f \in Fibers, FiberResume(f)
  PROVE  /\ at[f] \in {"getaddrinfo", "uv_connect", "cond", "uv_write", "uv_shutdown", "uv_close"}
         /\ at[f] = "cond" => read_resumed(f)
         /\ at[f] = "uv_shutdown" => close_shutdown_done(f)
         /\ at[f] = "uv_close" => close_done(f)
<1>1. connect_resolved(f) => at[f] = "getaddrinfo"
  BY Zenon DEF connect_resolved, Resumes
<1>2. connect_done(f) => at[f] = "uv_connect"
  BY Zenon DEF connect_done, Resumes
<1>3. read_resumed(f) => at[f] = "cond"
  BY Zenon DEF read_resumed, Resumes
<1>4. write_done(f) => at[f] = "uv_write"
  BY Zenon DEF write_done, Resumes
<1>5. close_shutdown_done(f) => at[f] = "uv_shutdown"
  BY Zenon DEF close_shutdown_done, Resumes
<1>6. close_done(f) => at[f] = "uv_close"
  BY Zenon DEF close_done, Resumes
<1> QED BY <1>1, <1>2, <1>3, <1>4, <1>5, <1>6 DEF FiberResume

\* What a step of a fiber in the socket does to the other fibers: bytes are returned
\* only by the reader of an open socket, and nobody enlarges a read in progress.
LEMMA FiberEffect ==
  ASSUME SocketInv, NEW f \in Fibers, FiberCall(f) \/ FiberResume(f)
  PROVE  /\ \A g \in Fibers \ {f} : at'[g] = at[g] /\ call'[g] = call[g]
         /\ returned' = returned \/ (at[f] = "cond" /\ ~closed_)
         /\ \A g \in Fibers \ {f} : at[g] = "cond" => len_' \in {len_, 0}
<1> USE SocketAssumption
<1> USE DEF memberVars, uvVars, fiberVars, dataVars
<1>0. TypeOK /\ ReadInv
  BY DEF SocketInv
<1>a. /\ at \in [Fibers -> Points]
      /\ call \in [Fibers -> {"none", "connect", "read", "write", "close", "destroy"}]
  BY <1>0 DEF TypeOK
<1> DEFINE Others == \A g \in Fibers \ {f} : at'[g] = at[g] /\ call'[g] = call[g]
<1>1. CASE connect(f) \/ write(f) \/ close(f) \/ destroy(f)
  <2>1. UNCHANGED <<returned, len_>>
    BY <1>1 DEF connect, write, close, destroy
  <2>2. \A g \in Fibers \ {f} : call'[g] = call[g]
    BY <1>1, <1>a DEF connect, write, close, destroy, Calls
  <2>3. (\E r : Returns(f, r)) \/ (\E p : Suspends(f, p)) \/ UNCHANGED at
    BY <1>1 DEF connect, write, close, destroy, close_begin, close_handle
  <2>4. Others
    BY <1>0, <2>2, <2>3, ReturnsEffect, SuspendsEffect
  <2> QED BY <2>1, <2>4
<1>2. CASE read(f)
  <2>1. PICK n \in ReadSizes, b \in {f, NoBuf} : read_begin(f, b, n)
    BY <1>2 DEF read
  <2>2. \A g \in Fibers \ {f} : call'[g] = call[g]
    BY <1>2, <1>a DEF read, Calls
  <2>3. UNCHANGED returned /\ ((\E r : Returns(f, r)) \/ (\E p : Suspends(f, p)))
    BY <2>1 DEF read_begin
  <2>4. reading_ => UNCHANGED len_
    BY <2>1, Zenon DEF read_begin, concurrent_read
  <2>5. Others
    BY <1>0, <2>2, <2>3, ReturnsEffect, SuspendsEffect
  <2> QED BY <1>0, <2>3, <2>4, <2>5 DEF ReadInv, OneReader
<1>3. CASE connect_resolved(f) \/ connect_done(f) \/ write_done(f) \/ close_shutdown_done(f)
  <2>1. UNCHANGED <<returned, len_, call>>
    BY <1>3, Zenon DEF connect_resolved, connect_done, write_done, close_shutdown_done, Resumes
  <2>2. \/ \E r : Returns(f, r)
        \/ \E p : Suspends(f, p)
        \/ at' = [at EXCEPT ![f] = "terminate"]
    BY <1>3, Zenon DEF connect_resolved, connect_done, write_done, close_shutdown_done, close_handle
  <2>3. Others
    BY <1>0, <1>a, <2>1, <2>2, ReturnsEffect, SuspendsEffect
  <2> QED BY <2>1, <2>3
<1>4. CASE close_done(f)
  BY <1>4, <1>a DEF close_done, Resumes
<1>5. CASE read_resumed(f)
  <2>1. at[f] = "cond" /\ UNCHANGED call /\ \A g \in Fibers \ {f} : at[g] # "cond"
    BY <1>0, <1>5 DEF read_resumed, Resumes, ReadInv, OneReader
  <2>2. returned' = returned \/ ~closed_
    BY <1>5 DEF read_resumed
  <2>3. (\E r : Returns(f, r)) \/ (\E p : Suspends(f, p))
    BY <1>5 DEF read_resumed, close_begin, close_handle
  <2>4. Others
    BY <1>0, <2>1, <2>3, ReturnsEffect, SuspendsEffect
  <2> QED BY <2>1, <2>2, <2>4
<1> QED BY <1>1, <1>2, <1>3, <1>4, <1>5 DEF FiberCall, FiberResume

\* What libuv's callbacks do.
LEMMA EventEffect ==
  ASSUME SocketInv,
         (\E f \in Fibers : Callback(f)) \/ read_callback \/ on_handle_closed \/ peer_stops
  PROVE  /\ UNCHANGED <<at, call, returned>>
         /\ len_' = len_ \/ len_' <= 0 \/ (len_' \in Nat /\ len_' <= len_)
<1> USE DEF memberVars, uvVars, fiberVars, dataVars
<1>1. CASE read_callback
  <2>1. UNCHANGED <<at, call, returned>> /\ len_' \in nreads
    BY <1>1 DEF read_callback, on_read_finished
  <2>2. len_ \in Int
    BY DEF SocketInv, TypeOK, ERROR_EOF, ERROR_READ_FAILED
  <2> QED BY <2>1, <2>2 DEF nreads, ERROR_EOF, ERROR_READ_FAILED
<1>2. CASE (\E f \in Fibers : Callback(f)) \/ on_handle_closed \/ peer_stops
  BY <1>2 DEF Callback, addrinfo_callback, connection_callback, write_callback, shutdown_callback,
              on_handle_closed, peer_stops
<1> QED BY <1>1, <1>2

\* The socket's invariant holds with loops as well.
LEMMA SocketInvStream == SocketInv /\ LoopInv /\ [StreamNext]_streamVars => SocketInv'
<1> SUFFICES ASSUME SocketInv, LoopInv, [StreamNext]_streamVars PROVE SocketInv'
  OBVIOUS
<1> USE SocketAssumption, StreamAssumption
<1> USE DEF memberVars, uvVars, fiberVars, dataVars
<1>0. /\ TypeOK /\ PlaceOK /\ CallOK /\ HandleOK /\ DataOK
      /\ LoopTypes /\ LoopPlaces
  BY TypeParts DEF SocketInv, LoopInv
<1>a. /\ at \in [Fibers -> Points] /\ result \in [Fibers -> Results] /\ "ok" \in Results
      /\ call \in [Fibers -> {"none", "connect", "read", "write", "close", "destroy"}]
  BY <1>0 DEF PlaceOK, CallOK, Results
<1>1. ASSUME NEW f \in Fibers, NEW op, NEW n, loop_begin(f, op, n)
      PROVE  SocketInv'
  <2>1. /\ at[f] = "idle" /\ UNCHANGED <<memberVars, uvVars, at, status, result, dataVars, alive>>
        /\ \A g \in Fibers \ {f} : call'[g] = call[g]
    BY <1>1, <1>a DEF loop_begin, Calls
  <2>2. CallOK'
    BY <1>0, <1>1, CallsType DEF loop_begin
  <2>3. PlaceOK' /\ HandleOK' /\ DataOK'
    BY <1>0, <2>1 DEF PlaceOK, HandleOK, DataOK
  <2>4. TypeOK'
    BY <2>2, <2>3, TypeParts, PTL
  <2>5. CloseInv' /\ ReadInv'
    BY <2>1, QuietMove
  <2> QED BY <2>4, <2>5 DEF SocketInv
<1>2. ASSUME NEW f \in Fibers, loop_end(f)
      PROVE  SocketInv'
  <2>1. /\ at[f] = "idle" /\ UNCHANGED <<memberVars, uvVars, at, call, status, calls, dataVars, alive>>
        /\ result' = [result EXCEPT ![f] = "ok"]
    BY <1>2 DEF loop_end
  <2>2. PlaceOK' /\ CallOK' /\ HandleOK' /\ DataOK'
    BY <1>0, <1>a, <2>1 DEF PlaceOK, CallOK, HandleOK, DataOK
  <2>3. TypeOK'
    BY <2>2, TypeParts, PTL
  <2>4. CloseInv' /\ ReadInv'
    BY <2>1, QuietMove
  <2> QED BY <2>3, <2>4 DEF SocketInv
<1>3. ASSUME NEW f \in Fibers, loop_read(f)
      PROVE  SocketInv'
  <2>1. /\ at[f] = "idle" /\ UNCHANGED <<call, calls>> /\ bytes_left[f] \in Nat
        /\ read_begin(f, f, bytes_left[f])
    BY <1>0, <1>3 DEF loop_read, LoopTypes
  <2>2. PlaceOK' /\ HandleOK' /\ DataOK' /\ CallOK'
    BY <1>0, <2>1, ReadBeginType DEF CallOK
  <2>3. TypeOK'
    BY <2>2, TypeParts, PTL
  <2>4. CloseInv' /\ ReadInv'
    BY <2>1, ReadBeginKeeps
  <2> QED BY <2>3, <2>4 DEF SocketInv
<1>4. ASSUME NEW f \in Fibers, NEW mode, device_close(f, mode)
      PROVE  SocketInv'
  <2>1. /\ at[f] = "idle" /\ call'[f] = "close" /\ (\A g \in Fibers \ {f} : call'[g] = call[g])
        /\ UNCHANGED <<reading_, buf_, len_, peer, dataVars, alive>>
    BY <1>4, <1>a, ZenonT(30) DEF device_close, Calls
  <2>2. CallOK' /\ DataOK'
    BY <1>0, <1>4, <2>1, CallsType DEF device_close, DataOK
  <2>3. CASE Returns(f, "ok") /\ UNCHANGED <<closed_, tcp_, uv_reading>>
    <3>1. PlaceOK' /\ HandleOK'
      BY <1>0, <1>a, <2>1, <2>3, PlaceType DEF HandleOK
    <3>2. TypeOK'
      BY <2>2, <3>1, TypeParts, PTL
    <3>3. CloseInv' /\ ReadInv'
      BY <1>0, <2>1, <2>3, ReturnsEffect, QuietMove
    <3> QED BY <3>2, <3>3 DEF SocketInv
  <2>4. CASE ~closed_ /\ close_begin(f)
    <3>1. PlaceOK' /\ HandleOK'
      BY <1>0, <2>1, <2>4, CloseBeginType
    <3>2. TypeOK'
      BY <2>2, <3>1, TypeParts, PTL
    <3>3. CloseInv' /\ ReadInv'
      BY <2>1, <2>4, CloseBeginKeeps, Zenon
    <3> QED BY <3>2, <3>3 DEF SocketInv
  <2> QED BY <1>4, <2>3, <2>4 DEF device_close, device_closes
<1>5. CASE [Next]_vars
  BY <1>5, SocketInvInductive, Zenon
<1>6. ASSUME NEW f \in Fibers,
             loop_resumed(f) \/ PlainCall(f) \/ PlainResume(f) \/ Event(f)
      PROVE  Next
  BY <1>6 DEF loop_resumed, PlainCall, PlainResume, Event, Next
<1>7. ASSUME Read \/ Closed \/ PeerStops \/ (Destroyed /\ UNCHANGED streamVars)
      PROVE  Next
  BY <1>7 DEF Read, Closed, PeerStops, Next
<1>8. CASE UNCHANGED streamVars
  BY <1>5, <1>8 DEF streamVars
<1> QED
  BY <1>1, <1>2, <1>3, <1>4, <1>5, <1>6, <1>7, <1>8
     DEF StreamNext, LoopStep, read_exactly, device_read

\* A fiber that is in no loop takes a step: the loops of the others are as before.
LEMMA OthersKeepLoops ==
  ASSUME SocketInv, LoopInv, NEW f \in Fibers, running = NoBuf,
         \A g \in Fibers \ {f} : at'[g] = at[g] /\ call'[g] = call[g],
         returned' = returned \/ (at[f] = "cond" /\ ~closed_),
         \A g \in Fibers \ {f} : at[g] = "cond" => len_' \in {len_, 0}
  PROVE  \A g \in Fibers \ {f} : Looping(g) =>
           /\ at'[g] \in {"cond", "uv_shutdown", "uv_close"} /\ call'[g] = "read"
           /\ at'[g] = "cond" => len_' <= bytes_left[g]
           /\ returned' = returned
<1> USE SocketAssumption
<1> SUFFICES ASSUME NEW g \in Fibers \ {f}, Looping(g)
             PROVE  /\ at'[g] \in {"cond", "uv_shutdown", "uv_close"} /\ call'[g] = "read"
                    /\ at'[g] = "cond" => len_' <= bytes_left[g]
                    /\ returned' = returned
  OBVIOUS
<1>1. /\ at[g] \in {"cond", "uv_shutdown", "uv_close"} /\ call[g] = "read"
      /\ at[g] = "cond" => len_ <= bytes_left[g]
      /\ bytes_left[g] \in Nat
  BY DEF LoopInv, LoopPlaces, LoopTypes
<1>2. at[f] = "cond" => at[g] # "cond"
  BY DEF SocketInv, ReadInv, OneReader
<1>3. at[g] # "cond" => closed_
  BY <1>1 DEF SocketInv, CloseInv
<1> QED BY <1>1, <1>2, <1>3

\* f changes its own loop; what OthersKeepLoops says of the other loops is enough.
LEMMA OneLoopChanges ==
  ASSUME SocketInv, LoopInv, NEW f \in Fibers, LoopTypes',
         \A g \in Fibers \ {f} :
           /\ loop'[g] = loop[g] /\ size'[g] = size[g] /\ bytes_left'[g] = bytes_left[g]
           /\ start'[g] = start[g]
           /\ running' # g
           /\ Looping(g) =>
                /\ at'[g] \in {"cond", "uv_shutdown", "uv_close"} /\ call'[g] = "read"
                /\ at'[g] = "cond" => len_' <= bytes_left[g]
                /\ returned' = returned,
         running' = f => Looping(f)' /\ at'[f] = "idle",
         Looping(f)' => /\ call'[f] = "read"
                        /\ running' # f => at'[f] \in {"cond", "uv_shutdown", "uv_close"}
                        /\ at'[f] = "cond" => len_' <= bytes_left'[f]
                        /\ returned' = start'[f] + (size'[f] - bytes_left'[f])
  PROVE  LoopInv'
<1>1. LoopPlaces'
  BY ZenonT(30) DEF LoopPlaces, Looping
<1>2. LoopIsContiguous'
  BY DEF LoopInv, LoopIsContiguous, Looping
<1> QED BY <1>1, <1>2, ZenonT(30) DEF LoopInv

\* The socket moves and the loops do not, while no loop has the thread.
LEMMA LoopsRest ==
  ASSUME SocketInv, LoopInv, NEW f \in Fibers, running = NoBuf, ~Looping(f),
         \A g \in Fibers \ {f} : at'[g] = at[g] /\ call'[g] = call[g],
         returned' = returned \/ (at[f] = "cond" /\ ~closed_),
         \A g \in Fibers \ {f} : at[g] = "cond" => len_' \in {len_, 0},
         UNCHANGED <<loopVars, running>>
  PROVE  LoopInv'
<1> USE SocketAssumption
<1>1. \A g \in Fibers \ {f} : Looping(g) =>
        /\ at'[g] \in {"cond", "uv_shutdown", "uv_close"} /\ call'[g] = "read"
        /\ at'[g] = "cond" => len_' <= bytes_left[g]
        /\ returned' = returned
  BY OthersKeepLoops
<1>2. LoopTypes'
  BY ZenonT(30) DEF LoopInv, LoopTypes, loopVars
<1>3. ~Looping(f)'
  BY DEF Looping, loopVars
<1> QED BY <1>1, <1>2, <1>3, OneLoopChanges, ZenonT(30) DEF loopVars

\* Every step preserves the invariant of the loops.
LEMMA LoopInvStep == SocketInv /\ LoopInv /\ [StreamNext]_streamVars => LoopInv'
<1> SUFFICES ASSUME SocketInv, LoopInv, [StreamNext]_streamVars PROVE LoopInv'
  OBVIOUS
<1> USE SocketAssumption, StreamAssumption
<1> USE DEF memberVars, uvVars, fiberVars, dataVars
<1>0. TypeOK /\ LoopTypes /\ LoopPlaces /\ LoopIsContiguous
  BY DEF SocketInv, LoopInv
<1>a. /\ at \in [Fibers -> Points] /\ returned \in Nat /\ len_ \in Int /\ result \in [Fibers -> Results]
      /\ call \in [Fibers -> {"none", "connect", "read", "write", "close", "destroy"}]
      /\ loop \in [Fibers -> {"none", "read_exactly", "device_read"}]
      /\ size \in [Fibers -> Nat] /\ bytes_left \in [Fibers -> Nat] /\ start \in [Fibers -> Nat]
  BY <1>0 DEF TypeOK, LoopTypes, Results, ERROR_EOF, ERROR_READ_FAILED
<1>b. ASSUME NEW f \in Fibers, running = NoBuf, at[f] = "idle"
      PROVE  ~Looping(f)
  BY <1>0, <1>b DEF LoopPlaces
<1>c. ASSUME NEW f \in Fibers, Looping(f), at[f] = "idle"
      PROVE  running = f
  BY <1>0, <1>c, ZenonT(30) DEF LoopPlaces
<1>1. ASSUME NEW f \in Fibers, NEW op \in {"read_exactly", "device_read"}, NEW n \in LoopSizes,
             loop_begin(f, op, n)
      PROVE  LoopInv'
  <2>1. /\ running = NoBuf /\ at[f] = "idle" /\ UNCHANGED <<at, returned, len_>>
        /\ running' = f /\ call'[f] = "read" /\ (\A g \in Fibers \ {f} : call'[g] = call[g])
        /\ loop' = [loop EXCEPT ![f] = op] /\ size' = [size EXCEPT ![f] = n]
        /\ bytes_left' = [bytes_left EXCEPT ![f] = n] /\ start' = [start EXCEPT ![f] = returned]
    BY <1>1, <1>a DEF loop_begin, Calls
  <2>2. LoopTypes'
    BY <1>a, <2>1, ZenonT(30) DEF LoopTypes
  <2>3. \A g \in Fibers \ {f} : Looping(g) =>
          /\ at'[g] \in {"cond", "uv_shutdown", "uv_close"} /\ call'[g] = "read"
          /\ at'[g] = "cond" => len_' <= bytes_left[g]
          /\ returned' = returned
    BY <2>1, OthersKeepLoops
  <2>4. Looping(f)' /\ returned' = start'[f] + (size'[f] - bytes_left'[f])
    <3>1. /\ loop'[f] = op /\ size'[f] = n /\ bytes_left'[f] = n /\ start'[f] = returned
          /\ returned' = returned
      BY <1>a, <2>1, ZenonT(30)
    <3>2. n \in Nat /\ returned \in Nat
      BY <1>a, ZenonT(30)
    <3> QED BY <3>1, <3>2 DEF Looping
  <2> QED BY <1>a, <2>1, <2>2, <2>3, <2>4, OneLoopChanges
<1>2. ASSUME NEW f \in Fibers, loop_over(f), running' = NoBuf,
             \A g \in Fibers \ {f} : Looping(g) =>
                /\ at'[g] \in {"cond", "uv_shutdown", "uv_close"} /\ call'[g] = "read"
                /\ at'[g] = "cond" => len_' <= bytes_left[g]
                /\ returned' = returned
      PROVE  LoopInv'
  <2>1. LoopTypes' /\ ~Looping(f)'
    BY <1>a, <1>2 DEF loop_over, LoopTypes, Looping
  <2>2. \A g \in Fibers \ {f} : /\ loop'[g] = loop[g] /\ size'[g] = size[g]
                                /\ bytes_left'[g] = bytes_left[g] /\ start'[g] = start[g]
    BY <1>a, <1>2 DEF loop_over
  <2> QED BY <1>2, <2>1, <2>2, OneLoopChanges, ZenonT(30)
<1>3. ASSUME NEW f \in Fibers, Looping(f), at[f] = "idle",
             \A g \in Fibers \ {f} : at'[g] = at[g] /\ call'[g] = call[g],
             UNCHANGED returned, reading_ => UNCHANGED len_
      PROVE  \A g \in Fibers \ {f} : Looping(g) =>
                /\ at'[g] \in {"cond", "uv_shutdown", "uv_close"} /\ call'[g] = "read"
                /\ at'[g] = "cond" => len_' <= bytes_left[g]
                /\ returned' = returned
  <2>1. \A g \in Fibers : at[g] = "cond" => reading_
    BY DEF SocketInv, ReadInv, OneReader
  <2> QED BY <1>0, <1>3, <1>c, <2>1 DEF LoopPlaces
<1>4. ASSUME NEW f \in Fibers, loop_end(f)
      PROVE  LoopInv'
  <2>1. /\ Looping(f) /\ at[f] = "idle" /\ UNCHANGED <<at, call, returned, len_>>
        /\ loop_over(f) /\ running' = NoBuf
    BY <1>4 DEF loop_end
  <2> QED BY <1>2, <1>3, <2>1
<1>5. ASSUME NEW f \in Fibers, loop_read(f)
      PROVE  LoopInv'
  <2>1. /\ Looping(f) /\ at[f] = "idle" /\ UNCHANGED call /\ running' = NoBuf
        /\ read_begin(f, f, bytes_left[f])
        /\ IF at'[f] = "idle" THEN loop_over(f) ELSE UNCHANGED loopVars
    BY <1>5, ZenonT(30) DEF loop_read
  <2>2. /\ UNCHANGED returned /\ (reading_ => UNCHANGED len_)
        /\ \/ \E r : Returns(f, r)
           \/ Suspends(f, "cond") /\ len_' = bytes_left[f]
    BY <2>1 DEF read_begin, concurrent_read
  <2>3. \A g \in Fibers \ {f} : at'[g] = at[g]
    BY <1>0, <2>2, ReturnsEffect, SuspendsEffect, ZenonT(30)
  <2>4. \A g \in Fibers \ {f} : Looping(g) =>
           /\ at'[g] \in {"cond", "uv_shutdown", "uv_close"} /\ call'[g] = "read"
           /\ at'[g] = "cond" => len_' <= bytes_left[g]
           /\ returned' = returned
    BY <1>3, <2>1, <2>2, <2>3, ZenonT(30)
  <2>5. CASE \E r : Returns(f, r)
    BY <1>0, <1>2, <2>1, <2>4, <2>5, ReturnsEffect, ZenonT(30)
  <2>6. CASE Suspends(f, "cond") /\ len_' = bytes_left[f]
    <3>1. at'[f] = "cond" /\ UNCHANGED loopVars
      BY <1>0, <2>1, <2>6, SuspendsEffect
    <3>2. LoopTypes' /\ (Looping(f)' <=> Looping(f)) /\ call'[f] = "read"
      BY <1>0, <2>1, <3>1 DEF LoopTypes, LoopPlaces, Looping, loopVars
    <3>3. returned' = start'[f] + (size'[f] - bytes_left'[f])
      BY <1>0, <2>1, <2>2, <3>1, ZenonT(30) DEF LoopIsContiguous, loopVars
    <3>4. at'[f] = "cond" => len_' <= bytes_left'[f]
      BY <1>a, <2>6, <3>1 DEF loopVars
    <3> QED BY <2>1, <2>4, <3>1, <3>2, <3>3, <3>4, OneLoopChanges, ZenonT(30) DEF loopVars
  <2> QED BY <2>2, <2>5, <2>6, ZenonT(30)
<1>6. ASSUME NEW f \in Fibers, loop_resumed(f)
      PROVE  LoopInv'
  <2>1. /\ running = NoBuf /\ Looping(f) /\ FiberResume(f)
        /\ at[f] \in {"cond", "uv_shutdown", "uv_close"} /\ call[f] = "read"
        /\ at[f] = "cond" => len_ <= bytes_left[f]
    BY <1>0, <1>6, ZenonT(40) DEF loop_resumed, LoopPlaces
  <2>2. /\ \A g \in Fibers \ {f} : at'[g] = at[g] /\ call'[g] = call[g]
        /\ returned' = returned \/ (at[f] = "cond" /\ ~closed_)
        /\ \A g \in Fibers \ {f} : at[g] = "cond" => len_' \in {len_, 0}
    BY <2>1, FiberEffect, ZenonT(30)
  <2>3. \A g \in Fibers \ {f} : Looping(g) =>
           /\ at'[g] \in {"cond", "uv_shutdown", "uv_close"} /\ call'[g] = "read"
           /\ at'[g] = "cond" => len_' <= bytes_left[g]
           /\ returned' = returned
    BY <2>1, <2>2, OthersKeepLoops, ZenonT(30)
  <2>4. /\ call'[f] = "read"
        /\ \/ /\ at'[f] \in {"uv_shutdown", "uv_close"} /\ returned' = returned
           \/ /\ at'[f] = "cond" /\ at[f] = "cond" /\ len_' = len_ /\ returned' = returned
           \/ /\ at'[f] = "idle" /\ at[f] = "cond" /\ len_ >= 0 /\ returned' = returned + len_
           \/ /\ at'[f] = "idle" /\ returned' = returned
    <3>1. CASE at[f] = "cond"
      <4>1. read_resumed(f)
        BY <2>1, <3>1, ResumesAt, Zenon
      <4>2. UNCHANGED call
        BY <4>1, ZenonT(30) DEF read_resumed, Resumes
      <4>3. CASE Suspends(f, "cond") /\ UNCHANGED <<len_, returned>>
        BY <1>0, <2>1, <3>1, <4>2, <4>3, SuspendsEffect, ZenonT(30)
      <4>4. CASE close_begin(f) /\ UNCHANGED returned
        BY <1>0, <2>1, <4>2, <4>4, SuspendsEffect, ZenonT(30) DEF close_begin, close_handle
      <4>5. CASE (\E r : Returns(f, r)) /\ UNCHANGED returned
        BY <1>0, <2>1, <4>2, <4>5, ReturnsEffect, ZenonT(30)
      <4>6. CASE Returns(f, "ok") /\ len_ >= 0 /\ returned' = returned + len_
        BY <1>0, <2>1, <3>1, <4>2, <4>6, ReturnsEffect, ZenonT(30)
      <4> QED BY <4>1, <4>3, <4>4, <4>5, <4>6, ZenonT(30) DEF read_resumed
    <3>2. CASE at[f] = "uv_shutdown"
      <4>1. close_shutdown_done(f)
        BY <2>1, <3>2, ResumesAt, Zenon
      <4>2. UNCHANGED <<call, returned>>
        BY <4>1 DEF close_shutdown_done, Resumes
      <4>3. (\E r : Returns(f, r)) \/ Suspends(f, "uv_close")
        BY <2>1, <4>1, Zenon DEF close_shutdown_done, close_handle
      <4> QED BY <1>0, <2>1, <4>2, <4>3, ReturnsEffect, SuspendsEffect, ZenonT(30)
    <3>3. CASE at[f] = "uv_close"
      <4>1. close_done(f)
        BY <2>1, <3>3, ResumesAt, Zenon
      <4> QED BY <1>a, <2>1, <4>1 DEF close_done, Resumes
    <3> QED BY <2>1, <3>1, <3>2, <3>3, ZenonT(30)
  <2>5. returned = start[f] + (size[f] - bytes_left[f])
    BY <1>0, <2>1 DEF LoopIsContiguous
  <2>6. CASE at'[f] # "idle" /\ UNCHANGED <<loopVars, running>>
    <3>1. LoopTypes' /\ Looping(f)'
      BY <1>0, <2>1, <2>6 DEF LoopTypes, Looping, loopVars
    <3>2. at'[f] \in {"cond", "uv_shutdown", "uv_close"} /\ returned' = returned
      BY <2>4, <2>6, ZenonT(30)
    <3>3. at'[f] = "cond" => len_' <= bytes_left'[f]
      BY <2>1, <2>4, <2>6, ZenonT(30) DEF loopVars
    <3> QED BY <2>1, <2>3, <2>4, <2>5, <2>6, <3>1, <3>2, <3>3, OneLoopChanges, Zenon DEF loopVars
  <2>7. CASE /\ at'[f] = "idle" /\ running' = f /\ UNCHANGED <<loop, size, start>>
             /\ bytes_left' = [bytes_left EXCEPT ![f] = @ - (returned' - returned)]
    <3>1. /\ bytes_left'[f] \in Nat /\ bytes_left'[f] = bytes_left[f] - (returned' - returned)
          /\ \A g \in Fibers \ {f} : bytes_left'[g] = bytes_left[g]
      BY <1>a, <2>1, <2>4, <2>7
    <3>2. bytes_left' \in [Fibers -> Nat]
      BY <1>a, <2>7, <3>1, ZenonT(30)
    <3>3. LoopTypes' /\ Looping(f)'
      BY <1>0, <2>1, <2>7, <3>2, ZenonT(30) DEF LoopTypes, Looping
    <3>4. returned' = start'[f] + (size'[f] - bytes_left'[f])
      BY <1>a, <2>4, <2>5, <2>7, <3>1
    <3> QED BY <2>3, <2>4, <2>7, <3>1, <3>3, <3>4, OneLoopChanges, ZenonT(30)
  <2>8. CASE loop_over(f) /\ UNCHANGED running
    BY <1>2, <2>1, <2>3, <2>8, ZenonT(30)
  <2> QED BY <1>6, <2>6, <2>7, <2>8, Zenon DEF loop_resumed, thread_after_read
<1>7. ASSUME NEW f \in Fibers, NEW mode, device_close(f, mode)
      PROVE  LoopInv'
  <2>1. /\ running = NoBuf /\ at[f] = "idle" /\ UNCHANGED <<len_, returned, loopVars, running>>
        /\ \A g \in Fibers \ {f} : call'[g] = call[g]
        /\ (\E r : Returns(f, r)) \/ (\E p : Suspends(f, p))
    BY <1>7, <1>a, ZenonT(30) DEF device_close, Calls, close_begin, close_handle
  <2>2. \A g \in Fibers \ {f} : at'[g] = at[g]
    BY <1>0, <2>1, ReturnsEffect, SuspendsEffect, ZenonT(30)
  <2> QED BY <1>b, <2>1, <2>2, LoopsRest, ZenonT(30)
<1>8. ASSUME NEW f \in Fibers, PlainCall(f) \/ PlainResume(f)
      PROVE  LoopInv'
  <2>1. running = NoBuf /\ UNCHANGED <<loopVars, running>> /\ (FiberCall(f) \/ FiberResume(f))
    BY <1>8 DEF PlainCall, PlainResume
  <2>2. ~Looping(f)
    BY <1>8, <1>b, Zenon DEF PlainCall, PlainResume, FiberCall, connect, read, write, close, destroy, Calls
  <2> QED BY <2>1, <2>2, FiberEffect, LoopsRest
<1>9. ASSUME UNCHANGED <<loopVars, running>>, UNCHANGED <<at, call, returned>>,
             len_' = len_ \/ len_' <= 0 \/ (len_' \in Nat /\ len_' <= len_), len_' \in Int
      PROVE  LoopInv'
  <2>1. LoopTypes' /\ LoopIsContiguous'
    BY <1>0, <1>9, ZenonT(30) DEF LoopTypes, LoopIsContiguous, Looping, loopVars
  <2>2. LoopPlaces'
    <3>1. \A f \in Fibers : len_ <= bytes_left[f] => len_' <= bytes_left[f]
      BY <1>a, <1>9
    <3> QED BY <1>0, <1>9, <3>1 DEF LoopPlaces, Looping, loopVars
  <2> QED BY <2>1, <2>2 DEF LoopInv
<1>10. ASSUME (\E f \in Fibers : Event(f)) \/ Read \/ Closed \/ PeerStops
       PROVE  LoopInv'
  <2>1. /\ UNCHANGED <<loopVars, running>>
        /\ (\E f \in Fibers : Callback(f)) \/ read_callback \/ on_handle_closed \/ peer_stops
    BY <1>10 DEF Event, Read, Closed, PeerStops
  <2>2. len_' \in Int
    <3>1. TypeOK'
      BY <1>0, <2>1, TypeStep, ZenonT(30) DEF Next
    <3> QED BY <3>1 DEF TypeOK, ERROR_EOF, ERROR_READ_FAILED
  <2> QED BY <1>9, <2>1, <2>2, EventEffect
<1>11. CASE UNCHANGED streamVars
  BY <1>9, <1>11, <1>a DEF streamVars, vars
<1> QED
  BY <1>1, <1>4, <1>5, <1>6, <1>7, <1>8, <1>10, <1>11
     DEF StreamNext, LoopStep, read_exactly, device_read

\* SocketInv and LoopInv always hold of the composed system.
LEMMA StreamInvariant == StreamSpec => [](SocketInv /\ LoopInv)
<1>1. StreamInit => SocketInv /\ LoopInv
  BY LoopInvInit, SocketInvInductive, Zenon DEF StreamInit
<1> QED BY <1>1, SocketInvStream, LoopInvStep, PTL DEF StreamSpec

\* Among the loops and the device, too, uv_close is called at most once: the last
\* direction of a device to close, a read at the end of the stream, close() and the
\* destructor find the socket closed or close it alone.
THEOREM StreamClosesHandleOnce == StreamSpec => HandleClosedOnce
<1>1. ASSUME SocketInv, LoopInv, [StreamNext]_streamVars
      PROVE  ClosesOpenHandle
  <2>0. TypeOK /\ CloseInv
    BY <1>1 DEF SocketInv
  <2>1. CASE ~closed_
    BY <2>0, <2>1, Zenon DEF CloseInv, ClosesOpenHandle
  <2>2. ASSUME closed_, NEW f \in Fibers,
               \/ read_exactly(f) \/ device_read(f) \/ loop_end(f) \/ loop_read(f)
               \/ \E mode \in {"in", "out", "in|out"} : device_close(f, mode)
        PROVE  ClosesOpenHandle
    <3>1. UNCHANGED at \/ at' = [at EXCEPT ![f] = "idle"]
      BY <2>2, ZenonT(30) DEF read_exactly, device_read, loop_begin, loop_end, loop_read, read_begin,
                              device_close, device_closes, Returns
    <3> QED BY <2>0, <3>1, MovesOutsideClose
  <2>3. CASE [Next]_vars
    BY <1>1, <2>3, ClosesOnceStep
  <2>4. ASSUME NEW f \in Fibers,
               loop_resumed(f) \/ PlainCall(f) \/ PlainResume(f) \/ Event(f)
        PROVE  Next
    BY <2>4 DEF loop_resumed, PlainCall, PlainResume, Event, Next
  <2>5. ASSUME Read \/ Closed \/ PeerStops \/ (Destroyed /\ UNCHANGED streamVars)
        PROVE  Next
    BY <2>5 DEF Read, Closed, PeerStops, Next
  <2>6. CASE UNCHANGED streamVars
    BY <2>3, <2>6 DEF streamVars
  <2> QED BY <1>1, <2>1, <2>2, <2>3, <2>4, <2>5, <2>6 DEF StreamNext, LoopStep
<1>2. SocketInv /\ LoopInv /\ [StreamNext]_streamVars => [ClosesOpenHandle]_vars
  BY <1>1
<1> QED BY <1>2, StreamInvariant, PTL DEF StreamSpec, HandleClosedOnce, ClosesOpenHandle

\* The buffer of a loop holds consecutive bytes of the stream, whatever calls other
\* fibers make meanwhile.
THEOREM LoopsContiguous == StreamSpec => []LoopIsContiguous
<1>1. LoopInv => LoopIsContiguous
  BY DEF LoopInv
<1> QED BY <1>1, StreamInvariant, PTL

\* read_exactly returns normally only with a full buffer.
THEOREM FillsExactly == StreamSpec => ExactlyFills
<1> DEFINE Fills ==
      \A f \in Fibers :
        loop[f] = "read_exactly" /\ loop'[f] = "none" /\ result'[f] = "ok" =>
          returned' = start[f] + size[f]
<1>1. ASSUME SocketInv, LoopInv, [StreamNext]_streamVars
      PROVE  [Fills]_streamVars
  <2> SUFFICES ASSUME StreamNext, NEW f \in Fibers,
                      loop[f] = "read_exactly", loop'[f] = "none", result'[f] = "ok"
               PROVE  returned' = start[f] + size[f]
    BY <1>1
  <2>a. /\ bytes_left[f] \in Nat /\ size[f] \in Nat /\ start[f] \in Nat
        /\ returned = start[f] + (size[f] - bytes_left[f])
    BY <1>1 DEF LoopInv, LoopTypes, LoopIsContiguous, Looping
  <2>0. /\ loop \in [Fibers -> {"none", "read_exactly", "device_read"}] /\ Looping(f)
        /\ result \in [Fibers -> Results]
    BY <1>1 DEF SocketInv, TypeOK, Results, LoopInv, LoopTypes, Looping
  <2>1. ASSUME NEW g \in Fibers, loop_end(g)
        PROVE  returned' = start[f] + size[f]
    <3>1. g = f
      BY <2>0, <2>1 DEF loop_end, loop_over
    <3>2. ~goes_on(f) /\ returned' = returned
      BY <2>1, <3>1 DEF loop_end, dataVars
    <3>3. ~(bytes_left[f] > 0)
      BY <1>1, <3>2 DEF goes_on
    <3>4. bytes_left[f] = 0
      BY <2>a, <3>3
    <3>5. returned = start[f] + size[f]
      BY <2>a, <3>4
    <3> QED BY <3>2, <3>5
  <2>2. ASSUME NEW g \in Fibers, loop_read(g)
        PROVE  FALSE
    <3>1. g = f /\ at'[f] = "idle"
      BY <2>0, <2>2, ZenonT(30) DEF loop_read, loop_over, loopVars
    <3>2. read_begin(f, f, bytes_left[f])
      BY <2>2, <3>1 DEF loop_read
    <3>3. CASE Suspends(f, "cond")
      BY <1>1, <3>1, <3>3, SuspendsEffect DEF SocketInv
    <3>4. CASE \E r \in {"socket_closed_error", "io_error", "uv_error"} : Returns(f, r)
      BY <2>0, <3>4 DEF Returns
    <3>5. \A s \in uv_read_refusals : check_uv_status(s) \in {"socket_closed_error", "uv_error"}
      BY ZenonT(30) DEF uv_read_refusals, check_uv_status
    <3> QED BY <3>2, <3>3, <3>4, <3>5, SocketAssumption, ZenonT(30) DEF read_begin
  <2>3. ASSUME NEW g \in Fibers, loop_resumed(g)
        PROVE  FALSE
    BY <2>0, <2>3 DEF loop_resumed, loop_over, loopVars
  <2>4. ASSUME NEW g \in Fibers, NEW op \in {"read_exactly", "device_read"}, NEW n, loop_begin(g, op, n)
        PROVE  FALSE
    BY <2>0, <2>4 DEF loop_begin
  <2>5. ASSUME UNCHANGED loop
        PROVE  FALSE
    BY <2>5
  <2> QED
    BY <2>1, <2>2, <2>3, <2>4, <2>5, Zenon
       DEF StreamNext, LoopStep, read_exactly, device_read, device_close, PlainCall, PlainResume, Event,
           Read, Closed, PeerStops, streamVars, loopVars
<1>2. SocketInv /\ LoopInv /\ [StreamNext]_streamVars => [Fills]_streamVars
  BY <1>1
<1> QED BY <1>2, StreamInvariant, PTL DEF StreamSpec, ExactlyFills
=============================================================================
