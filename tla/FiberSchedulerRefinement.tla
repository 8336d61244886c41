---------------------- MODULE FiberSchedulerRefinement ----------------------
(* FiberScheduler implements CooperativeScheduler, for any fibers, threads   *)
(* and bounds.  The invariant that makes the mapping work is that each       *)
(* context is in exactly one place, so that what pick_next returns can run.  *)
EXTENDS FiberSchedulerProofs

-----------------------------------------------------------------------------
(* Ready queues.                                                            *)

\* awakened adds one context to a queue that does not hold it yet.
LEMMA AwakenedQueue ==
  ASSUME NEW S, NEW q \in Seq(S), NEW c \in S, NoRepeats(q), ~Queued(q, c)
  PROVE  /\ NoRepeats(awakened(q, c))
         /\ \A d : Queued(awakened(q, c), d) <=> Queued(q, d) \/ d = c
<1> DEFINE r == Append(q, c)
<1>1. Len(r) = Len(q) + 1 /\ DOMAIN r = 1..(Len(q) + 1) /\ DOMAIN q = 1..Len(q) /\ Len(q) \in Nat
  OBVIOUS
<1>2. r[Len(q) + 1] = c /\ \A i \in 1..Len(q) : r[i] = q[i]
  OBVIOUS
<1> HIDE DEF r
<1>3. NoRepeats(r)
  BY <1>1, <1>2 DEF NoRepeats, Queued
<1>4. ASSUME NEW d PROVE Queued(r, d) <=> Queued(q, d) \/ d = c
  BY <1>1, <1>2 DEF Queued
<1> QED BY <1>3, <1>4 DEF r, awakened

\* pick_next takes the head out of a queue without repetitions.
LEMMA PoppedQueue ==
  ASSUME NEW S, NEW q \in Seq(S), q # <<>>, NoRepeats(q)
  PROVE  /\ NoRepeats(pop(q))
         /\ Queued(q, pick_next(q))
         /\ \A d : Queued(pop(q), d) <=> Queued(q, d) /\ d # pick_next(q)
<1> DEFINE r == Tail(q)
<1>1. /\ Len(q) \in Nat \ {0} /\ DOMAIN q = 1..Len(q) /\ DOMAIN r = 1..(Len(q) - 1)
      /\ Head(q) = q[1] /\ \A i \in 1..(Len(q) - 1) : r[i] = q[i + 1]
  OBVIOUS
<1> HIDE DEF r
<1>2. NoRepeats(r)
  <2>1. ASSUME NEW i \in 1..(Len(q) - 1), NEW j \in 1..(Len(q) - 1), r[i] = r[j] PROVE i = j
    <3>1. i + 1 \in 1..Len(q) /\ j + 1 \in 1..Len(q)
      BY <1>1
    <3>2. q[i + 1] = q[j + 1]
      BY <1>1, <2>1, Zenon
    <3>3. i + 1 = j + 1
      BY <1>1, <3>1, <3>2, Zenon DEF NoRepeats
    <3> QED BY <3>3
  <2> QED BY <1>1, <2>1, Zenon DEF NoRepeats
<1>3. Queued(q, Head(q))
  BY <1>1 DEF Queued
<1>4. ASSUME NEW d, Queued(r, d) PROVE Queued(q, d) /\ d # Head(q)
  <2>1. PICK i \in 1..(Len(q) - 1) : r[i] = d
    BY <1>1, <1>4, Zenon DEF Queued
  <2>2. i + 1 \in 1..Len(q) /\ i + 1 # 1 /\ 1 \in 1..Len(q)
    BY <1>1
  <2>3. q[i + 1] = d
    BY <1>1, <2>1, Zenon
  <2> QED BY <1>1, <2>2, <2>3, Zenon DEF Queued, NoRepeats
<1>5. ASSUME NEW d, Queued(q, d), d # Head(q) PROVE Queued(r, d)
  <2>1. PICK i \in 1..Len(q) : q[i] = d
    BY <1>1, <1>5 DEF Queued
  <2>2. i # 1
    BY <1>1, <1>5, <2>1
  <2>3. i - 1 \in 1..(Len(q) - 1) /\ r[i - 1] = q[(i - 1) + 1] /\ (i - 1) + 1 = i
    BY <1>1, <2>1, <2>2
  <2> QED BY <1>1, <2>1, <2>3 DEF Queued
<1> QED BY <1>2, <1>3, <1>4, <1>5 DEF r, pick_next, pop

\* Remotely readied fibers are appended.
LEMMA JoinedQueue ==
  ASSUME NEW S, NEW q \in Seq(S), NEW r \in Seq(S), NoRepeats(q), NoRepeats(r),
         \A d : ~(Queued(q, d) /\ Queued(r, d))
  PROVE  /\ NoRepeats(q \o r)
         /\ \A d : Queued(q \o r, d) <=> Queued(q, d) \/ Queued(r, d)
<1> DEFINE s == q \o r
<1>1. /\ Len(q) \in Nat /\ Len(r) \in Nat
      /\ DOMAIN q = 1..Len(q) /\ DOMAIN r = 1..Len(r) /\ DOMAIN s = 1..(Len(q) + Len(r))
      /\ \A i \in 1..Len(q) : s[i] = q[i]
  OBVIOUS
<1>2. ASSUME NEW i \in DOMAIN s, i > Len(q)
      PROVE  i - Len(q) \in DOMAIN r /\ s[i] = r[i - Len(q)]
  BY <1>1, <1>2
<1> HIDE DEF s
<1>3. ASSUME NEW i \in DOMAIN s, NEW j \in DOMAIN s, s[i] = s[j] PROVE i = j
  <2>1. CASE i <= Len(q) /\ j <= Len(q)
    BY <1>1, <1>3, <2>1 DEF NoRepeats
  <2>2. CASE i > Len(q) /\ j > Len(q)
    <3>1. r[i - Len(q)] = r[j - Len(q)] /\ i - Len(q) \in DOMAIN r /\ j - Len(q) \in DOMAIN r
      BY <1>2, <1>3, <2>2
    <3>2. i - Len(q) = j - Len(q)
      BY <3>1 DEF NoRepeats
    <3> QED BY <1>1, <3>2
  <2>3. CASE i <= Len(q) /\ j > Len(q)
    <3>1. i \in DOMAIN q /\ s[i] = q[i]
      BY <1>1, <2>3
    <3>2. j - Len(q) \in DOMAIN r /\ s[j] = r[j - Len(q)]
      BY <1>2, <2>3
    <3>3. Queued(q, s[i]) /\ Queued(r, s[i])
      BY <1>3, <3>1, <3>2, Zenon DEF Queued
    <3> QED BY <3>3
  <2>4. CASE i > Len(q) /\ j <= Len(q)
    <3>1. j \in DOMAIN q /\ s[j] = q[j]
      BY <1>1, <2>4
    <3>2. i - Len(q) \in DOMAIN r /\ s[i] = r[i - Len(q)]
      BY <1>2, <2>4
    <3>3. Queued(q, s[i]) /\ Queued(r, s[i])
      BY <1>3, <3>1, <3>2, Zenon DEF Queued
    <3> QED BY <3>3
  <2> QED BY <1>1, <2>1, <2>2, <2>3, <2>4
<1>4. ASSUME NEW d, Queued(s, d) PROVE Queued(q, d) \/ Queued(r, d)
  <2>1. PICK i \in DOMAIN s : s[i] = d
    BY <1>4 DEF Queued
  <2>2. CASE i <= Len(q)
    BY <1>1, <2>1, <2>2 DEF Queued
  <2>3. CASE i > Len(q)
    BY <1>2, <2>1, <2>3 DEF Queued
  <2> QED BY <1>1, <2>2, <2>3
<1>5. ASSUME NEW d, Queued(q, d) PROVE Queued(s, d)
  BY <1>1, <1>5 DEF Queued
<1>6. ASSUME NEW d, Queued(r, d) PROVE Queued(s, d)
  <2>1. PICK i \in 1..Len(r) : r[i] = d
    BY <1>1, <1>6 DEF Queued
  <2>2. i + Len(q) \in 1..(Len(q) + Len(r)) /\ i + Len(q) > Len(q) /\ (i + Len(q)) - Len(q) = i
    BY <1>1, <2>1
  <2> QED BY <1>1, <1>2, <2>1, <2>2 DEF Queued
<1>7. NoRepeats(s)
  BY <1>3 DEF NoRepeats
<1> QED BY <1>4, <1>5, <1>6, <1>7 DEF s
-----------------------------------------------------------------------------
(* Places.  Each context is in one place, and a completed request belongs to *)
(* a fiber that waits for it, is reported once, and only inside uv_run.       *)

IoInv ==
  /\ \A f \in io_done \cup events : wait[f] = "io"
  /\ io_done \cap events = {}
  /\ events # {} => active = Dispatcher /\ pc = "uv_io"

PlaceInv == EachContextOnce /\ IoInv

\* PlaceInv holds initially.
LEMMA PlaceInvInit == Init => PlaceInv
<1> SUFFICES ASSUME Init PROVE PlaceInv
  OBVIOUS
<1>1. DOMAIN queue_ = {1} /\ queue_[1] = Dispatcher /\ DOMAIN remote_ready = {}
  BY DEF Init
<1>2. NoRepeats(queue_) /\ NoRepeats(remote_ready)
  BY <1>1 DEF NoRepeats
<1>3. /\ \A c : Queued(queue_, c) <=> c = Dispatcher
      /\ \A c : ~Queued(remote_ready, c)
  BY <1>1 DEF Queued
<1>4. EachContextOnce
  BY <1>2, <1>3, ConstantsAssumption DEF Init, EachContextOnce
<1> QED BY <1>4 DEF Init, PlaceInv, IoInv

\* A fiber that gives up the thread finds another context that is ready.
LEMMA SwitchFinds ==
  ASSUME TypeInv, EachContextOnce, active # Dispatcher
  PROVE  /\ pick_next(queue_) \in Contexts /\ Queued(queue_, pick_next(queue_))
         /\ pop(queue_) \in Seq(Contexts) /\ NoRepeats(pop(queue_))
         /\ \A c : Queued(pop(queue_), c) <=> Queued(queue_, c) /\ c # pick_next(queue_)
<1>1. queue_ \in Seq(Contexts) /\ Queued(queue_, Dispatcher) /\ NoRepeats(queue_)
  BY DEF TypeInv, TypeOK, DispatcherQueued, EachContextOnce
<1>2. queue_ # <<>>
  BY <1>1 DEF Queued
<1> QED BY <1>1, <1>2, PickNextHas, PoppedQueue

\* A fiber that waits is in no queue: awakened adds it.
LEMMA AwakenedPlaces ==
  ASSUME TypeInv, EachContextOnce, NEW f \in Fibers, wait[f] # "none",
         wait' = [wait EXCEPT ![f] = "none"], queue_' = awakened(queue_, f),
         UNCHANGED <<active, remote_ready>>
  PROVE  EachContextOnce'
<1>1. queue_ \in Seq(Contexts) /\ wait \in [Fibers -> Waits] /\ f \in Contexts /\ f # Dispatcher
  BY ConstantsAssumption DEF TypeInv, TypeOK, Contexts
<1>2. NoRepeats(queue_) /\ ~Queued(queue_, f) /\ active # f /\ ~Queued(remote_ready, f)
  BY DEF EachContextOnce
<1>3. /\ NoRepeats(queue_')
      /\ \A d : Queued(queue_', d) <=> Queued(queue_, d) \/ d = f
  BY <1>1, <1>2, AwakenedQueue
<1>4. \A g \in Fibers : wait'[g] = IF g = f THEN "none" ELSE wait[g]
  BY <1>1
<1> QED BY <1>1, <1>2, <1>3, <1>4 DEF EachContextOnce

\* The fiber that runs waits and the next context runs.
LEMMA SwitchPlaces ==
  ASSUME TypeInv, EachContextOnce, NEW f \in Fibers, active = f, SwitchTo(queue_),
         NEW w, w # "none", wait' = [wait EXCEPT ![f] = w], UNCHANGED remote_ready
  PROVE  EachContextOnce'
<1>1. wait \in [Fibers -> Waits] /\ f # Dispatcher
  BY ConstantsAssumption DEF TypeInv, TypeOK
<1>2. /\ Queued(queue_, active') /\ NoRepeats(queue_')
      /\ \A c : Queued(queue_', c) <=> Queued(queue_, c) /\ c # active'
  BY <1>1, SwitchFinds DEF SwitchTo
<1>3. \A g \in Fibers : wait'[g] = IF g = f THEN w ELSE wait[g]
  BY <1>1
<1> QED BY <1>1, <1>2, <1>3, ConstantsAssumption DEF EachContextOnce

\* Every step leaves each context in one place.
LEMMA EachContextOnceStep == TypeInv /\ PlaceInv /\ [Next]_vars => EachContextOnce'
<1> SUFFICES ASSUME TypeInv, EachContextOnce, IoInv, [Next]_vars PROVE EachContextOnce'
  BY DEF PlaceInv
<1> USE ConstantsAssumption
<1> USE DEF flagVars, algoVars, frameVars, uvVars, fiberVars, otherVars
<1>0. /\ Fibers \subseteq Contexts /\ Dispatcher \in Contexts
      /\ queue_ \in Seq(Contexts) /\ remote_ready \in Seq(Fibers)
      /\ wait \in [Fibers -> Waits] /\ NoRepeats(queue_) /\ NoRepeats(remote_ready)
  BY DEF TypeInv, TypeOK, Contexts, EachContextOnce
<1>1. ASSUME NEW f \in Fibers, NEW g \in Fibers, launch(f, g) \/ set_value(f, g)
      PROVE  EachContextOnce'
  BY <1>1, AwakenedPlaces DEF launch, set_value
<1>2. ASSUME NEW f \in Fibers, yield(f)
      PROVE  EachContextOnce'
  <2>1. active = f /\ active # Dispatcher /\ active' = pick_next(queue_)
        /\ queue_' = awakened(pop(queue_), f) /\ UNCHANGED <<wait, remote_ready>>
    BY <1>2 DEF yield, Performs
  <2>2. /\ Queued(queue_, active')
        /\ pop(queue_) \in Seq(Contexts) /\ NoRepeats(pop(queue_))
        /\ \A c : Queued(pop(queue_), c) <=> Queued(queue_, c) /\ c # active'
    BY <2>1, SwitchFinds
  <2>3. ~Queued(queue_, f)
    BY <2>1 DEF EachContextOnce
  <2>4. NoRepeats(queue_') /\ \A c : Queued(queue_', c) <=> Queued(pop(queue_), c) \/ c = f
    BY <1>0, <2>1, <2>2, <2>3, AwakenedQueue
  <2> QED BY <2>1, <2>2, <2>3, <2>4 DEF EachContextOnce
<1>3. ASSUME NEW f \in Fibers,
             \/ await_promise(f) \/ await_io(f) \/ finish(f)
             \/ \E d \in 0..MaxSleep : sleep_for(f, d)
      PROVE  EachContextOnce'
  <2>1. /\ active = f /\ SwitchTo(queue_) /\ UNCHANGED remote_ready
        /\ \E w \in {"promise", "io", "done", "sleep"} : wait' = [wait EXCEPT ![f] = w]
    BY <1>3 DEF await_promise, await_io, finish, sleep_for, Performs
  <2> QED BY <2>1, SwitchPlaces, Zenon
<1>4. CASE remote_ready2ready
  <2>1. queue_' = queue_ \o remote_ready /\ remote_ready' = <<>> /\ UNCHANGED <<wait, active>>
    BY <1>4 DEF remote_ready2ready
  <2>2. remote_ready \in Seq(Contexts)
    BY <1>0
  <2>3. \A d : Queued(remote_ready, d) => d \in Fibers
    BY <1>0 DEF Queued
  <2>4. \A d : ~(Queued(queue_, d) /\ Queued(remote_ready, d))
    BY <2>3 DEF EachContextOnce
  <2>5. /\ NoRepeats(queue_')
        /\ \A d : Queued(queue_', d) <=> Queued(queue_, d) \/ Queued(remote_ready, d)
    BY <1>0, <2>1, <2>2, <2>4, JoinedQueue
  <2>6. NoRepeats(remote_ready') /\ \A d : ~Queued(remote_ready', d)
    BY <2>1 DEF NoRepeats, Queued
  <2> QED BY <2>1, <2>3, <2>5, <2>6 DEF EachContextOnce
<1>5. ASSUME NEW f \in Fibers, sleep2ready(f)
      PROVE  EachContextOnce'
  BY <1>5, AwakenedPlaces, Zenon DEF sleep2ready, Due
<1>6. ASSUME NEW f \in Fibers, uv_io_callback(f)
      PROVE  EachContextOnce'
  <2>1. wait[f] = "io"
    BY <1>6 DEF uv_io_callback, IoInv
  <2> QED BY <1>6, <2>1, AwakenedPlaces, Zenon DEF uv_io_callback
<1>7. CASE resume
  <2>1. /\ active = Dispatcher /\ queue_ # <<>> /\ active' = pick_next(queue_)
        /\ queue_' = awakened(pop(queue_), Dispatcher) /\ UNCHANGED <<wait, remote_ready>>
    BY <1>7 DEF resume, At
  <2>2. /\ Queued(queue_, active') /\ active' \in Contexts
        /\ pop(queue_) \in Seq(Contexts) /\ NoRepeats(pop(queue_))
        /\ \A c : Queued(pop(queue_), c) <=> Queued(queue_, c) /\ c # active'
    BY <1>0, <2>1, PickNextHas, PoppedQueue
  <2>3. ~Queued(queue_, Dispatcher)
    BY <2>1 DEF EachContextOnce
  <2>4. NoRepeats(queue_') /\ \A c : Queued(queue_', c) <=> Queued(pop(queue_), c) \/ c = Dispatcher
    BY <1>0, <2>1, <2>2, <2>3, AwakenedQueue
  <2> QED BY <2>1, <2>2, <2>3, <2>4 DEF EachContextOnce
<1>8. ASSUME NEW t \in Threads, NEW f \in Fibers, remote_set_value(t, f)
      PROVE  EachContextOnce'
  <2>1. /\ wait[f] = "promise" /\ wait' = [wait EXCEPT ![f] = "none"]
        /\ remote_ready' = awakened(remote_ready, f) /\ UNCHANGED <<queue_, active>>
    BY <1>8 DEF remote_set_value, awakened
  <2>2. ~Queued(queue_, f) /\ active # f /\ ~Queued(remote_ready, f)
    BY <2>1 DEF EachContextOnce
  <2>3. /\ NoRepeats(remote_ready')
        /\ \A d : Queued(remote_ready', d) <=> Queued(remote_ready, d) \/ d = f
    BY <1>0, <2>1, <2>2, AwakenedQueue
  <2>4. \A g \in Fibers : wait'[g] = IF g = f THEN "none" ELSE wait[g]
    BY <1>0, <2>1
  <2> QED BY <2>1, <2>2, <2>3, <2>4 DEF EachContextOnce
<1>9. CASE UNCHANGED <<queue_, remote_ready, wait, active>>
  BY <1>9, ZenonT(30) DEF EachContextOnce
<1>10. CASE SuspendStep \/ sleep2ready_end \/ nothing_ready
  BY <1>9, <1>10, ZenonT(30) DEF SuspendStep, suspend_enter, start_timer, check, suspend_exit, sleep2ready_end,
                     nothing_ready
<1>11. CASE uv_timers \/ uv_poll \/ uv_io_end \/ uv_timers_again
  BY <1>9, <1>11 DEF uv_timers, uv_poll, uv_io_end, uv_timers_again, uv_run_timers
<1>12. ASSUME NEW t \in Threads, notify(t)
       PROVE  EachContextOnce'
  BY <1>9, <1>12 DEF notify, update_notify, notify_send
<1>13. ASSUME NEW f \in Fibers, use_on_this_thread(f) \/ io_complete(f)
       PROVE  EachContextOnce'
  BY <1>9, <1>13 DEF use_on_this_thread, io_complete
<1>14. CASE tick \/ UNCHANGED vars
  BY <1>9, <1>14, ZenonT(30) DEF tick, vars
<1> QED
  BY <1>1, <1>2, <1>3, <1>4, <1>5, <1>6, <1>7, <1>8, <1>10, <1>11, <1>12, <1>13, <1>14
     DEF Next, LoopThread, FiberStep, DispatcherStep, UvStep, Stopped

\* Every step leaves completed requests with fibers that wait for them.
LEMMA IoInvStep == TypeInv /\ PlaceInv /\ [Next]_vars => IoInv'
<1> SUFFICES ASSUME TypeInv, EachContextOnce, IoInv, [Next]_vars PROVE IoInv'
  BY DEF PlaceInv
<1> USE ConstantsAssumption
<1> USE DEF IoInv, flagVars, algoVars, frameVars, uvVars, fiberVars, otherVars
<1>0. /\ wait \in [Fibers -> Waits] /\ io_done \subseteq Fibers /\ events \subseteq Fibers
      /\ active # Dispatcher => pc = "dispatch"
  BY DEF TypeInv, TypeOK, DispatcherQueued
<1>1. ASSUME NEW f \in Fibers,
             \/ \E g \in Fibers : launch(f, g) \/ set_value(f, g)
             \/ yield(f) \/ await_promise(f) \/ await_io(f) \/ use_on_this_thread(f) \/ finish(f)
             \/ \E d \in 0..MaxSleep : sleep_for(f, d)
      PROVE  IoInv'
  <2>1. /\ active = f /\ active # Dispatcher
        /\ UNCHANGED <<io_done, events>>
    BY <1>1 DEF launch, set_value, yield, await_promise, await_io, use_on_this_thread, finish,
                sleep_for, Performs
  <2>2. events = {} /\ wait[f] = "none"
    BY <2>1, ZenonT(30) DEF EachContextOnce
  <2>3. \A h \in Fibers : wait[h] = "io" => wait'[h] = "io"
    BY <1>0, <1>1, <2>2 DEF launch, set_value, yield, await_promise, await_io, use_on_this_thread,
                            finish, sleep_for
  <2> QED BY <1>0, <2>1, <2>2, <2>3, ZenonT(30)
<1>2. CASE remote_ready2ready \/ sleep2ready_end \/ resume \/ nothing_ready
  BY <1>2 DEF remote_ready2ready, sleep2ready_end, resume, nothing_ready, At
<1>3. ASSUME NEW f \in Fibers, sleep2ready(f)
      PROVE  IoInv'
  BY <1>0, <1>3, ZenonT(30) DEF sleep2ready, At, Due
<1>4. CASE SuspendStep
  BY <1>4, ZenonT(30) DEF SuspendStep, suspend_enter, start_timer, check, suspend_exit, At
<1>5. CASE uv_timers \/ uv_timers_again \/ uv_io_end
  BY <1>5 DEF uv_timers, uv_timers_again, uv_run_timers, uv_io_end, At
<1>6. CASE uv_poll
  BY <1>6 DEF uv_poll, At
<1>7. ASSUME NEW f \in Fibers, uv_io_callback(f)
      PROVE  IoInv'
  BY <1>0, <1>7 DEF uv_io_callback, At
<1>8. ASSUME NEW t \in Threads, notify(t)
      PROVE  IoInv'
  BY <1>8 DEF notify, update_notify, notify_send
<1>9. ASSUME NEW t \in Threads, NEW f \in Fibers, remote_set_value(t, f)
      PROVE  IoInv'
  BY <1>0, <1>9 DEF remote_set_value
<1>10. ASSUME NEW f \in Fibers, io_complete(f)
       PROVE  IoInv'
  BY <1>10 DEF io_complete
<1>11. CASE tick \/ UNCHANGED vars
  BY <1>11 DEF tick, vars
<1> QED
  BY <1>1, <1>2, <1>3, <1>4, <1>5, <1>6, <1>7, <1>8, <1>9, <1>10, <1>11
     DEF Next, LoopThread, FiberStep, DispatcherStep, UvStep, Stopped

\* Every step preserves PlaceInv.
LEMMA PlaceInvStep == TypeInv /\ PlaceInv /\ [Next]_vars => PlaceInv'
BY EachContextOnceStep, IoInvStep DEF PlaceInv

\* No context is lost or duplicated, however fibers, callbacks and other threads
\* interleave: awakened and pick_next conserve contexts.
THEOREM ContextsConserved == Spec => []EachContextOnce
<1>1. PlaceInv => EachContextOnce
  BY DEF PlaceInv
<1> QED BY <1>1, TypeInvInit, TypeInvStep, PlaceInvInit, PlaceInvStep, PTL DEF Spec
-----------------------------------------------------------------------------
(* The simulation.                                                          *)

\* The fiber that runs gives up the thread to a fiber that can run, or to none.
LEMMA SwitchSimulates ==
  ASSUME TypeInv, PlaceInv, NEW f \in Fibers, active = f, active' = pick_next(queue_),
         NEW w, wait' = [wait EXCEPT ![f] = w], UNCHANGED <<io_done, events, now>>
  PROVE  Abstract!Leave(f, w)
<1>1. f # Dispatcher /\ EachContextOnce
  BY ConstantsAssumption DEF PlaceInv
<1>2. active' \in Contexts /\ Queued(queue_, active')
  BY <1>1, SwitchFinds
<1>3. active' # Dispatcher => active' \in Fibers \ {f} /\ wait[active'] = "none"
  BY <1>1, <1>2 DEF EachContextOnce, Contexts
<1> QED BY <1>3 DEF Abstract!Leave, Abstract!Becomes

\* Every step is a step of the cooperative scheduler or leaves its state alone.
LEMMA StepSimulates ==
  TypeInv /\ PlaceInv /\ [Next]_vars => [Abstract!Next]_Abstract!vars
<1> SUFFICES ASSUME TypeInv, PlaceInv, [Next]_vars PROVE [Abstract!Next]_Abstract!vars
  OBVIOUS
<1> USE ConstantsAssumption
<1> USE DEF flagVars, algoVars, frameVars, uvVars, fiberVars, otherVars
<1>0. /\ EachContextOnce /\ IoInv
      /\ wait \in [Fibers -> Waits] /\ deadline \in [Fibers -> Nat] /\ now \in Nat
      /\ io_done \subseteq Fibers /\ events \subseteq Fibers /\ queue_ \in Seq(Contexts)
  BY DEF PlaceInv, TypeInv, TypeOK
<1>1. ASSUME NEW f \in Fibers, NEW g \in Fibers, launch(f, g)
      PROVE  Abstract!Launch(g)
  BY <1>1 DEF launch, Performs, Abstract!Launch, Abstract!Becomes
<1>2. ASSUME NEW f \in Fibers, NEW g \in Fibers, set_value(f, g)
      PROVE  Abstract!SetValue(g)
  BY <1>2 DEF set_value, Abstract!SetValue, Abstract!Becomes
<1>3. ASSUME NEW f \in Fibers, yield(f)
      PROVE  Abstract!Yield(f)
  <2>1. active = f /\ wait[f] = "none"
    BY <1>0, <1>3 DEF yield, Performs, EachContextOnce
  <2>2. wait' = [wait EXCEPT ![f] = "none"]
    BY <1>0, <1>3, <2>1 DEF yield
  <2>3. Abstract!Leave(f, "none")
    BY <1>3, <2>1, <2>2, SwitchSimulates, Zenon DEF yield
  <2> QED BY <1>3, <2>3 DEF yield, Abstract!Yield
<1>4. ASSUME NEW f \in Fibers, await_promise(f) \/ await_io(f) \/ finish(f)
      PROVE  Abstract!Wait(f)
  <2>1. PICK w \in {"promise", "io", "done"} : wait' = [wait EXCEPT ![f] = w]
    BY <1>4 DEF await_promise, await_io, finish
  <2>2. Abstract!Leave(f, w)
    BY <1>4, <2>1, SwitchSimulates, Zenon DEF await_promise, await_io, finish, Performs, SwitchTo
  <2> QED BY <1>4, <2>2 DEF await_promise, await_io, finish, Abstract!Wait
<1>5. ASSUME NEW f \in Fibers, NEW d \in 0..MaxSleep, sleep_for(f, d)
      PROVE  Abstract!Sleep(f)
  <2>1. Abstract!Leave(f, "sleep")
    BY <1>5, SwitchSimulates, Zenon DEF sleep_for, Performs, SwitchTo
  <2>2. deadline' = [deadline EXCEPT ![f] = now + d] /\ deadline'[f] = now + d
    BY <1>0, <1>5 DEF sleep_for
  <2> QED BY <1>0, <2>1, <2>2 DEF Abstract!Sleep
<1>6. ASSUME NEW f \in Fibers, sleep2ready(f)
      PROVE  Abstract!WakeUp(f)
  BY <1>6 DEF sleep2ready, At, Due, Abstract!WakeUp, Abstract!Becomes
<1>7. CASE resume
  <2>1. active' \in Contexts /\ Queued(queue_, active')
    BY <1>0, <1>7, PickNextHas, PoppedQueue DEF resume, EachContextOnce
  <2>2. active = Dispatcher /\ active' \in Fibers /\ wait[active'] = "none"
    BY <1>0, <1>7, <2>1 DEF resume, At, EachContextOnce, Contexts
  <2>3. Abstract!Run(active')
    BY <1>7, <2>2 DEF resume, Abstract!Run
  <2> QED BY <2>2, <2>3 DEF Abstract!Next
<1>8. ASSUME NEW f \in Fibers, uv_io_callback(f)
      PROVE  Abstract!ReportIo(f)
  <2>1. wait[f] = "io" /\ f \notin io_done /\ f \in events
    BY <1>0, <1>8 DEF uv_io_callback, IoInv
  <2> QED BY <1>8, <2>1 DEF uv_io_callback, At, Abstract!ReportIo, Abstract!Becomes
<1>9. ASSUME NEW f \in Fibers, io_complete(f)
      PROVE  Abstract!Complete(f)
  BY <1>9 DEF io_complete, Abstract!Complete
<1>10. ASSUME NEW t \in Threads, NEW f \in Fibers, remote_set_value(t, f)
       PROVE  Abstract!SetValue(f)
  BY <1>10 DEF remote_set_value, Abstract!SetValue, Abstract!Becomes
<1>11. CASE tick
  <2>1. Abstract!Tick
    BY <1>11 DEF tick, Abstract!Tick
  <2> QED BY <2>1 DEF Abstract!Next
<1>12. CASE UNCHANGED <<active, wait, deadline, io_done, events, now>>
  BY <1>12 DEF Abstract!vars
<1>13. CASE uv_poll
  BY <1>0, <1>13, ZenonT(30) DEF uv_poll, At, IoInv, Abstract!vars
<1>14. CASE SuspendStep \/ remote_ready2ready \/ sleep2ready_end \/ nothing_ready
  BY <1>12, <1>14 DEF SuspendStep, suspend_enter, start_timer, check, suspend_exit, At,
                      remote_ready2ready, sleep2ready_end, nothing_ready
<1>15. CASE uv_timers \/ uv_io_end \/ uv_timers_again
  BY <1>12, <1>15, Zenon DEF uv_timers, uv_io_end, uv_timers_again, uv_run_timers
<1>16. ASSUME NEW t \in Threads, notify(t)
       PROVE  [Abstract!Next]_Abstract!vars
  BY <1>12, <1>16 DEF notify, update_notify, notify_send
<1>17. ASSUME NEW f \in Fibers, use_on_this_thread(f)
       PROVE  [Abstract!Next]_Abstract!vars
  BY <1>12, <1>17 DEF use_on_this_thread
<1>18. CASE UNCHANGED vars
  BY <1>12, <1>18, ZenonT(30) DEF vars
<1>19. CASE FiberStep
  BY <1>1, <1>2, <1>3, <1>4, <1>5, <1>17, <1>19 DEF FiberStep, Abstract!Next
<1>20. CASE DispatcherStep \/ SuspendStep
  BY <1>6, <1>7, <1>14, <1>20 DEF DispatcherStep, Abstract!Next
<1>21. CASE UvStep
  BY <1>8, <1>13, <1>15, <1>21 DEF UvStep, Abstract!Next
<1>22. ASSUME NEW f \in Fibers, io_complete(f) \/ \E t \in Threads : remote_set_value(t, f)
       PROVE  [Abstract!Next]_Abstract!vars
  BY <1>9, <1>10, <1>22 DEF Abstract!Next
<1> QED
  BY <1>11, <1>16, <1>18, <1>19, <1>20, <1>21, <1>22 DEF Next, LoopThread, Stopped

\* The fiberio scheduler implements the cooperative scheduler: for every set of
\* fibers and threads, its fibers never run two at a time, are never preempted,
\* and never run before what they wait for has happened.
THEOREM SchedulerImplements == Spec => ImplementsAbstract
<1>1. Init => Abstract!Init
  BY DEF Init, Abstract!Init
<1> QED
  BY <1>1, TypeInvInit, TypeInvStep, PlaceInvInit, PlaceInvStep, StepSimulates, PTL
     DEF Spec, ImplementsAbstract, Abstract!Spec
=============================================================================
