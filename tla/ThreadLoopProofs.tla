-------------------------- MODULE ThreadLoopProofs --------------------------
(***************************************************************************)
(* A thread's event loop from its first use to ~thread_uv_loop, for any    *)
(* fibers, threads and bounds.  The destructor is two more waits of Main   *)
(* for the scheduler, so that the invariants of FiberScheduler carry over  *)
(* to the whole life of the thread; ExitInv adds what holds while the loop *)
(* is taken down.                                                          *)
(***************************************************************************)
EXTENDS ThreadLoop, FiberSchedulerRefinement

SchedulerInv == TypeInv /\ NotifyInv /\ TimerInv /\ PlaceInv

\* What the two waits of the destructor have in common.
DestructorWaits ==
  /\ active = Main
  /\ wait' = [wait EXCEPT ![Main] = "io"]
  /\ io_done' = io_done \cup {Main}
  /\ SwitchTo(queue_)
  /\ async_' \in {FALSE, async_}
  /\ UNCHANGED <<flagVars, frameVars, timer_, loop_time, events, deadline, ops, pc, remote_ready, thread,
                 now>>

\* To the scheduler, a step of the thread is one of its own or such a wait.
LEMMA ThreadStepsAre == [ThreadNext]_allVars => [Next]_vars \/ DestructorWaits
<1> SUFFICES ASSUME [ThreadNext]_allVars PROVE [Next]_vars \/ DestructorWaits
  OBVIOUS
<1>1. CASE destroy_begin
  BY <1>1, Zenon DEF destroy_begin, Destructs, close_handle, DestructorWaits
<1>2. CASE close_timer
  <2>1. async_' = async_ /\ UNCHANGED <<timer_, loop_time, events>>
    BY <1>2 DEF close_timer, uvVars
  <2> QED BY <1>2, <2>1, Zenon DEF close_timer, Destructs, close_handle, DestructorWaits
<1>3. CASE make_ready \/ destroy_unused \/ uv_loop_close \/ UNCHANGED allVars
  BY <1>3 DEF make_ready, destroy_unused, uv_loop_close, allVars
<1>4. CASE FibersRun
  BY <1>4, Zenon DEF FibersRun, Next, LoopThread
<1>5. CASE (DispatcherStep \/ SuspendStep \/ UvStep)
  BY <1>5, Zenon DEF Next, LoopThread
<1>6. CASE \/ \E t \in Threads : notify(t)
           \/ \E t \in Threads, f \in Fibers : remote_set_value(t, f)
           \/ \E f \in Fibers : io_complete(f)
           \/ tick
  BY <1>6, Zenon DEF Next
<1> QED BY <1>1, <1>2, <1>3, <1>4, <1>5, <1>6, Zenon DEF ThreadNext, ThreadStep

\* The destructor's waits keep every invariant of the scheduler.
LEMMA DestructorKeeps ==
  ASSUME SchedulerInv, DestructorWaits
  PROVE  SchedulerInv'
<1> USE ConstantsAssumption
<1>0. TypeInv /\ NotifyInv /\ TimerInv /\ EachContextOnce /\ IoInv /\ TypeOK
  BY DEF SchedulerInv, PlaceInv, TypeInv
<1>1. /\ active = Main /\ Main # Dispatcher /\ pc = "dispatch" /\ pc' = "dispatch"
      /\ UNCHANGED <<flagVars, frameVars, timer_, loop_time, events, deadline, ops, remote_ready, thread, now>>
  BY <1>0, Zenon DEF DestructorWaits, TypeInv, DispatcherQueued
<1>2. TypeInv'
  <2>1. /\ pick_next(queue_) \in Contexts /\ pop(queue_) \in Seq(Contexts)
        /\ pick_next(queue_) # Dispatcher => Queued(pop(queue_), Dispatcher)
    BY <1>0, <1>1, SwitchKeepsDispatcher, Zenon
  <2>2. active' \in Contexts /\ queue_' \in Seq(Contexts) /\ DispatcherQueued'
    BY <1>1, <2>1, Zenon DEF DestructorWaits, SwitchTo, DispatcherQueued
  <2>3. wait' \in [Fibers -> Waits] /\ io_done' \subseteq Fibers /\ async_' \in BOOLEAN
    BY <1>0, ZenonT(30) DEF DestructorWaits, TypeOK, Waits
  <2>4. TypeOK'
    BY <1>0, <1>1, <2>2, <2>3 DEF TypeOK, flagVars, frameVars
  <2> QED BY <2>2, <2>4, Zenon DEF TypeInv
<1>3. NotifyInv'
  BY <1>0, <1>1 DEF NotifyInv, Suspended, flagVars
<1>4. TimerInv'
  <2>1. timer_ = NoTimer /\ timer_' = NoTimer
    BY <1>0, <1>1 DEF TimerInv, TimerStaysInFrame
  <2>2. loop_time' <= now' \div MsTicks
    BY <1>0, <1>1 DEF TimerInv
  <2> QED BY <1>1, <2>1, <2>2 DEF TimerInv, TimerStaysInFrame, Running
<1>5. EachContextOnce'
  BY <1>0, <1>1, SwitchPlaces, ZenonT(30) DEF DestructorWaits
<1>6. IoInv'
  <2>1. events = {} /\ events' = {} /\ io_done' = io_done \cup {Main}
    BY <1>0, <1>1 DEF IoInv, DestructorWaits
  <2>2. wait'[Main] = "io" /\ \A f \in Fibers \ {Main} : wait'[f] = wait[f]
    BY <1>0 DEF DestructorWaits, TypeOK
  <2>3. io_done \subseteq Fibers
    BY <1>0 DEF TypeOK
  <2> QED BY <1>0, <2>1, <2>2, <2>3 DEF IoInv
<1> QED BY <1>2, <1>3, <1>4, <1>5, <1>6, Zenon DEF SchedulerInv, PlaceInv

\* The scheduler's invariants hold as long as the thread lives.
LEMMA SchedulerInvStep == SchedulerInv /\ [ThreadNext]_allVars => SchedulerInv'
<1>1. SchedulerInv /\ [Next]_vars => SchedulerInv'
  BY TypeInvStep, NotifyInvStep, TimerInvStep, PlaceInvStep, Zenon DEF SchedulerInv
<1> QED BY <1>1, ThreadStepsAre, DestructorKeeps, Zenon

\* The invariants of the scheduler hold when the thread starts.
LEMMA SchedulerInvInit == ThreadInit => SchedulerInv
BY TypeInvInit, NotifyInvInit, TimerInvInit, PlaceInvInit, Zenon DEF ThreadInit, SchedulerInv

\* Taking down the loop takes nothing from the scheduler's guarantees: no wake-up is
\* lost, the thread never waits over ready fibers, every sleeper is covered and the
\* timer stays in its frame, up to the last wait of ~thread_uv_loop.
THEOREM SafeUntilExit ==
  ThreadSpec => [](TypeOK /\ NoLostWakeup /\ NeverParkedOverReady /\ TimerCoversSleepers /\ TimerStaysInFrame)
<1>1. SchedulerInv =>
        TypeOK /\ NoLostWakeup /\ NeverParkedOverReady /\ TimerCoversSleepers /\ TimerStaysInFrame
  <2> SUFFICES ASSUME SchedulerInv
               PROVE  TypeOK /\ NoLostWakeup /\ NeverParkedOverReady /\ TimerCoversSleepers /\ TimerStaysInFrame
    OBVIOUS
  <2>1. TypeOK /\ NotifyInv /\ TimerInv
    BY Zenon DEF SchedulerInv, TypeInv
  <2>2. NoLostWakeup /\ NeverParkedOverReady
    BY <2>1 DEF NotifyInv, NoLostWakeup, NeverParkedOverReady, Parked
  <2>3. TimerCoversSleepers /\ TimerStaysInFrame
    BY <2>1 DEF TimerInv, TimerCoversSleepers, Parked, Running, Bound
  <2> QED BY <2>1, <2>2, <2>3
<1> QED BY <1>1, SchedulerInvInit, SchedulerInvStep, PTL DEF ThreadSpec

\* No context is lost or duplicated between the first use of the loop and the end of
\* the thread, Main included, which the destructor suspends twice.
THEOREM ContextsConservedUntilExit == ThreadSpec => []EachContextOnce
<1>1. SchedulerInv => EachContextOnce
  BY DEF SchedulerInv, PlaceInv
<1> QED BY <1>1, SchedulerInvInit, SchedulerInvStep, PTL DEF ThreadSpec

\* The ready queue stays first-in first-out while the loop is taken down.
THEOREM FirstInFirstOutUntilExit == ThreadSpec => NoOvertaking
<1>1. SchedulerInv /\ [ThreadNext]_allVars => [KeepsOrder]_vars
  <2> SUFFICES ASSUME SchedulerInv, [ThreadNext]_allVars PROVE KeepsOrder
    OBVIOUS
  <2>1. TypeInv /\ queue_ \in Seq(Contexts)
    BY DEF SchedulerInv, TypeInv, TypeOK
  <2>2. CASE [Next]_vars
    BY <2>1, <2>2, QueueStep, OrderKept, Zenon
  <2>3. CASE DestructorWaits
    BY <2>1, <2>3, OrderKept, Zenon DEF DestructorWaits, QueueSteps
  <2> QED BY <2>2, <2>3, ThreadStepsAre, Zenon
<1> QED BY <1>1, SchedulerInvInit, SchedulerInvStep, PTL DEF ThreadSpec, NoOvertaking
-----------------------------------------------------------------------------
(* Taking down the loop.  Before the first use nothing runs; from the start *)
(* of the destructor on no fiber but Main is left, no timer is started, and *)
(* a handle that is closing has Main waiting for its callback.              *)

AllIdle == \A t \in Threads : thread[t] = "idle"

Unused ==
  /\ active = Main /\ exit_pc \in {"running", "exited"}
  /\ \A f \in Fibers \ {Main} : wait[f] = "new"
  /\ AllIdle
  /\ handle = [h \in Handles |-> "none"]

Closes(h) == handle[h] = "closed" \/ (handle[h] = "closing" /\ wait[Main] = "io")

Ending ==
  /\ \A f \in Fibers \ {Main} : wait[f] \in {"new", "done"}
  /\ wait[Main] \in {"none", "io"}
  /\ timer_ = NoTimer

ExitInv ==
  /\ ready_ \in BOOLEAN
  /\ handle \in [Handles -> {"none", "open", "closing", "closed"}]
  /\ exit_pc \in {"running", "close_async", "close_timer", "exited"}
  /\ ~ready_ => Unused
  /\ ready_ /\ exit_pc = "running" => handle["async"] = "open" /\ handle["timer"] = "open"
  /\ ready_ /\ exit_pc # "running" => Ending
  /\ exit_pc = "close_async" => Closes("async") /\ handle["timer"] = "open"
  /\ exit_pc = "close_timer" => handle["async"] = "closed" /\ Closes("timer")
  /\ exit_pc = "exited" /\ ready_ =>
       active = Main /\ handle["async"] = "closed" /\ handle["timer"] = "closed"

\* The steps that the thread takes between two steps of its fibers, and those of
\* its surroundings.
QuietStep ==
  \/ DispatcherStep \/ SuspendStep \/ UvStep
  \/ \E t \in Threads : notify(t)
  \/ \E t \in Threads, f \in Fibers : remote_set_value(t, f)
  \/ \E f \in Fibers : io_complete(f)
  \/ tick

\* The only fiber that a quiet step resumes during the destructor is Main, from its
\* wait in close_handle, and none starts the timer.
LEMMA QuietSteps ==
  ASSUME SchedulerInv, Ending, QuietStep
  PROVE  /\ active = Main => active' = Main
         /\ timer_' = NoTimer
         /\ \/ wait' = wait
            \/ /\ UvStep /\ Main \in events /\ Main \notin events'
               /\ wait' = [wait EXCEPT ![Main] = "none"]
<1> USE ConstantsAssumption
<1>0. TypeOK /\ IoInv /\ Main # Dispatcher /\ timer_ = NoTimer
  BY DEF SchedulerInv, PlaceInv, TypeInv, Ending
<1>1. \A f \in Fibers : wait[f] \in {"new", "done", "none", "io"} /\ (wait[f] = "io" => f = Main)
  BY DEF Ending
<1>2. CASE DispatcherStep
  <2>1. active = Dispatcher /\ timer_' = timer_ /\ thread' = thread
    BY <1>2
       DEF DispatcherStep, remote_ready2ready, sleep2ready, sleep2ready_end, resume, nothing_ready, At,
           uvVars, otherVars
  <2>2. wait' = wait
    <3>1. CASE \E f \in Fibers : sleep2ready(f)
      BY <1>1, <3>1 DEF sleep2ready, Due
    <3>2. CASE remote_ready2ready \/ sleep2ready_end \/ resume \/ nothing_ready
      BY <3>2 DEF remote_ready2ready, sleep2ready_end, resume, nothing_ready, fiberVars
    <3> QED BY <1>2, <3>1, <3>2, Zenon DEF DispatcherStep
  <2> QED BY <1>0, <2>1, <2>2, Zenon
<1>3. CASE SuspendStep
  <2>1. active = Dispatcher /\ wait' = wait /\ thread' = thread
    BY <1>3
       DEF SuspendStep, suspend_enter, start_timer, check, suspend_exit, At, fiberVars, otherVars
  <2>2. timer_' = NoTimer
    <3>1. CASE start_timer
      BY <1>0, <1>1, <3>1 DEF start_timer, Sleepers
    <3>2. CASE check
      BY <1>0, <3>2 DEF check, timer_on_return
    <3>3. CASE suspend_enter \/ suspend_exit
      BY <1>0, <3>3 DEF suspend_enter, suspend_exit, uvVars
    <3> QED BY <1>3, <3>1, <3>2, <3>3, Zenon DEF SuspendStep
  <2> QED BY <1>0, <2>1, <2>2, Zenon
<1>4. CASE UvStep
  <2>1. active = Dispatcher /\ thread' = thread
    BY <1>4
       DEF UvStep, uv_timers, uv_poll, uv_io_callback, uv_io_end, uv_timers_again, uv_run_timers, At, otherVars
  <2>2. timer_' = NoTimer
    BY <1>0, <1>4
       DEF UvStep, uv_timers, uv_poll, uv_io_callback, uv_io_end, uv_timers_again, uv_run_timers, uvVars
  <2>3. \/ wait' = wait
        \/ Main \in events /\ Main \notin events' /\ wait' = [wait EXCEPT ![Main] = "none"]
    <3>1. ASSUME NEW f \in Fibers, uv_io_callback(f)
          PROVE  Main \in events /\ Main \notin events' /\ wait' = [wait EXCEPT ![Main] = "none"]
      <4>1. f = Main
        BY <1>0, <1>1, <3>1 DEF uv_io_callback, IoInv
      <4> QED BY <3>1, <4>1 DEF uv_io_callback
    <3>2. CASE uv_timers \/ uv_poll \/ uv_io_end \/ uv_timers_again
      BY <3>2 DEF uv_timers, uv_poll, uv_io_end, uv_timers_again, uv_run_timers, fiberVars
    <3> QED BY <1>4, <3>1, <3>2, Zenon DEF UvStep
  <2> QED BY <1>0, <1>4, <2>1, <2>2, <2>3, Zenon
<1>5. CASE \E t \in Threads : notify(t)
  <2>1. active' = active /\ timer_' = timer_ /\ wait' = wait
    BY <1>5 DEF notify, update_notify, notify_send, uvVars, fiberVars
  <2> QED BY <1>0, <2>1, Zenon
<1>6. CASE \E t \in Threads, f \in Fibers : remote_set_value(t, f)
  BY <1>1, <1>6 DEF remote_set_value
<1>7. CASE (\E f \in Fibers : io_complete(f)) \/ tick
  BY <1>0, <1>7 DEF io_complete, tick, uvVars, fiberVars
<1> QED BY <1>2, <1>3, <1>4, <1>5, <1>6, <1>7, Zenon DEF QuietStep

\* ExitInv holds when the thread starts.
LEMMA ExitInvInit == ThreadInit => ExitInv
<1> SUFFICES ASSUME ThreadInit PROVE ExitInv
  OBVIOUS
<1>1. ready_ = FALSE /\ handle = [h \in Handles |-> "none"] /\ exit_pc = "running"
  BY DEF ThreadInit
<1>2. active = Main /\ AllIdle /\ \A f \in Fibers \ {Main} : wait[f] = "new"
  BY DEF ThreadInit, Init, AllIdle
<1> QED BY <1>1, <1>2, ZenonT(30) DEF ExitInv, Unused

\* Before the first use there is nothing for the scheduler to do.
LEMMA UnusedQuiet ==
  ASSUME SchedulerInv, Unused, QuietStep
  PROVE  UNCHANGED <<active, wait, thread>>
<1> USE ConstantsAssumption
<1>1. EachContextOnce /\ active = Main /\ Main # Dispatcher /\ wait[Main] = "none"
  BY DEF SchedulerInv, PlaceInv, EachContextOnce, Unused
<1>2. \A f \in Fibers : wait[f] \in {"new", "none"}
  BY <1>1 DEF Unused
<1>3. ~(DispatcherStep \/ SuspendStep \/ UvStep)
  BY <1>1
     DEF DispatcherStep, remote_ready2ready, sleep2ready, sleep2ready_end, resume, nothing_ready,
         SuspendStep, suspend_enter, start_timer, check, suspend_exit,
         UvStep, uv_timers, uv_poll, uv_io_callback, uv_io_end, uv_timers_again, At
<1>4. ~\E t \in Threads : notify(t)
  BY DEF Unused, AllIdle, notify, update_notify, notify_send
<1>5. ~\E t \in Threads, f \in Fibers : remote_set_value(t, f)
  BY <1>2 DEF remote_set_value
<1>6. ~\E f \in Fibers : io_complete(f)
  BY <1>2 DEF io_complete
<1>7. tick
  BY <1>3, <1>4, <1>5, <1>6, Zenon DEF QuietStep
<1> QED BY <1>7 DEF tick, fiberVars

\* A quiet step keeps ExitInv; the handle that is closing is closed when Main's
\* wait ends.
LEMMA ExitInvQuiet ==
  ASSUME SchedulerInv, ExitInv, QuietStep, UNCHANGED <<ready_, exit_pc>>,
         (UvStep /\ handles_closed) \/ (~UvStep /\ handle' = handle) \/ (handle' = handle /\ wait' = wait)
  PROVE  ExitInv'
<1> USE ConstantsAssumption
<1>0. wait \in [Fibers -> Waits]
  BY DEF SchedulerInv, TypeInv, TypeOK
<1>1. CASE ~ready_
  <2>1. Unused /\ UNCHANGED <<active, wait, thread>>
    BY <1>1, UnusedQuiet DEF ExitInv
  <2>2. handle' = handle
    BY <2>1 DEF Unused, handles_closed, Handles
  <2>3. Unused'
    BY <2>1, <2>2 DEF Unused, AllIdle
  <2> QED BY <1>1, <2>1, <2>2, <2>3 DEF ExitInv, Unused
<1>2. CASE ready_ /\ exit_pc = "running"
  <2>1. handle' = handle
    BY <1>2 DEF ExitInv, handles_closed, Handles
  <2> QED BY <1>2, <2>1 DEF ExitInv
<1>3. CASE ready_ /\ exit_pc # "running"
  <2>1. /\ active = Main => active' = Main
        /\ timer_' = NoTimer
        /\ \/ wait' = wait
           \/ /\ UvStep /\ Main \in events /\ Main \notin events'
              /\ wait' = [wait EXCEPT ![Main] = "none"]
    BY <1>3, QuietSteps DEF ExitInv
  <2>2. Ending'
    BY <1>0, <1>3, <2>1 DEF ExitInv, Ending
  <2>3. /\ handle' \in [Handles -> {"none", "open", "closing", "closed"}]
        /\ \A h \in Handles : handle[h] # "closing" => handle'[h] = handle[h]
    BY <1>3 DEF ExitInv, handles_closed
  <2>4. \A h \in Handles : Closes(h) => Closes(h)'
    <3> SUFFICES ASSUME NEW h \in Handles, Closes(h) PROVE Closes(h)'
      OBVIOUS
    <3>1. CASE wait' = wait
      BY <1>3, <3>1 DEF Closes, ExitInv, handles_closed
    <3>2. CASE /\ UvStep /\ Main \in events /\ Main \notin events'
               /\ wait' = [wait EXCEPT ![Main] = "none"]
      <4>1. handles_closed
        BY <1>0, <2>1, <3>2 DEF ExitInv, Ending, SchedulerInv, PlaceInv, IoInv
      <4> QED BY <3>2, <4>1 DEF Closes, handles_closed
    <3> QED BY <2>1, <3>1, <3>2, Zenon
  <2>5. "async" \in Handles /\ "timer" \in Handles
    BY DEF Handles
  <2> QED BY <1>3, <2>1, <2>2, <2>3, <2>4, <2>5 DEF ExitInv
<1> QED BY <1>1, <1>2, <1>3, Zenon DEF ExitInv

\* Every step of the thread and of its surroundings keeps ExitInv.
LEMMA ExitInvStep == SchedulerInv /\ ExitInv /\ [ThreadNext]_allVars => ExitInv'
<1> SUFFICES ASSUME SchedulerInv, ExitInv, [ThreadNext]_allVars PROVE ExitInv'
  OBVIOUS
<1> USE ConstantsAssumption
<1>0. /\ wait \in [Fibers -> Waits] /\ Main # Dispatcher
      /\ timer_ # NoTimer => active = Dispatcher
      /\ active = Main => wait[Main] = "none"
  BY DEF SchedulerInv, TypeInv, TypeOK, TimerInv, TimerStaysInFrame, PlaceInv, EachContextOnce
<1>1. CASE make_ready
  BY <1>1 DEF make_ready, ExitInv, Handles
<1>2. CASE destroy_unused
  BY <1>2 DEF destroy_unused, Destructs, ExitInv, Unused, AllIdle, vars, fiberVars, otherVars
<1>3. CASE destroy_begin
  <2>1. handle' = [handle EXCEPT !["async"] = "closing"] /\ wait' = [wait EXCEPT ![Main] = "io"]
    BY <1>3 DEF destroy_begin, close_handle
  <2>2. ready_ /\ ready_' /\ exit_pc = "running" /\ exit_pc' = "close_async"
    BY <1>3 DEF destroy_begin, Destructs
  <2>3. Ending'
    <3>1. timer_' = NoTimer
      BY <1>0, <1>3 DEF destroy_begin, Destructs
    <3> QED BY <1>0, <1>3, <2>1, <3>1 DEF destroy_begin, Ending
  <2>4. Closes("async")' /\ handle'["timer"] = "open"
    BY <1>0, <2>1, <2>2 DEF ExitInv, Closes, Handles
  <2> QED BY <2>1, <2>2, <2>3, <2>4, ZenonT(30) DEF ExitInv
<1>4. CASE close_timer
  <2>1. handle' = [handle EXCEPT !["timer"] = "closing"] /\ wait' = [wait EXCEPT ![Main] = "io"]
    BY <1>4 DEF close_timer, close_handle
  <2>2. active = Main /\ exit_pc = "close_async" /\ exit_pc' = "close_timer" /\ ready_' = ready_
    BY <1>4 DEF close_timer, Destructs
  <2>3. ready_ /\ Ending /\ handle["async"] = "closed"
    BY <1>0, <2>2 DEF ExitInv, Unused, Closes
  <2>4. Ending'
    <3>1. timer_' = timer_ /\ thread' = thread
      BY <1>4 DEF close_timer, uvVars
    <3> QED BY <1>0, <2>1, <2>3, <3>1 DEF Ending
  <2>5. handle'["async"] = "closed" /\ Closes("timer")'
    BY <1>0, <2>1, <2>3 DEF ExitInv, Closes, Handles
  <2> QED BY <2>1, <2>2, <2>3, <2>4, <2>5, ZenonT(30) DEF ExitInv
<1>5. CASE uv_loop_close
  <2>1. /\ active = Main /\ exit_pc = "close_timer" /\ exit_pc' = "exited"
        /\ UNCHANGED <<active, wait, timer_, thread, ready_, handle>>
    BY <1>5 DEF uv_loop_close, Destructs, vars, uvVars, fiberVars, otherVars
  <2> QED BY <1>0, <2>1 DEF ExitInv, Unused, Ending, AllIdle, Closes
<1>6. CASE FibersRun
  BY <1>6, ZenonT(30) DEF FibersRun, threadVars, ExitInv
<1>7. CASE UNCHANGED allVars
  BY <1>7
     DEF allVars, vars, threadVars, uvVars, fiberVars, otherVars, ExitInv, Unused, Ending, AllIdle, Closes
<1>8. CASE (DispatcherStep \/ SuspendStep) /\ UNCHANGED threadVars
  <2>1. ~UvStep
    BY <1>8
       DEF DispatcherStep, remote_ready2ready, sleep2ready, sleep2ready_end, resume, nothing_ready,
           SuspendStep, suspend_enter, start_timer, check, suspend_exit,
           UvStep, uv_timers, uv_poll, uv_io_callback, uv_io_end, uv_timers_again, At
  <2> QED BY <1>8, <2>1, ExitInvQuiet, ZenonT(30) DEF QuietStep, threadVars
<1>9. CASE UvStep /\ handles_closed /\ UNCHANGED <<ready_, exit_pc>>
  BY <1>9, ExitInvQuiet, Zenon DEF QuietStep
<1>10. CASE /\ \/ \E t \in Threads : notify(t)
               \/ \E f \in Fibers : io_complete(f)
               \/ tick
            /\ UNCHANGED threadVars
  <2>1. wait' = wait
    BY <1>10 DEF notify, update_notify, notify_send, io_complete, tick, fiberVars
  <2> QED BY <1>10, <2>1, ExitInvQuiet, Zenon DEF QuietStep, threadVars
<1>11. CASE (\E t \in Threads, f \in Fibers : remote_set_value(t, f)) /\ UNCHANGED threadVars
  <2>1. thread' # thread
    BY <1>11, ZenonT(30) DEF remote_set_value, SchedulerInv, TypeInv, TypeOK
  <2>2. UvStep => thread' = thread
    BY DEF UvStep, uv_timers, uv_poll, uv_io_callback, uv_io_end, uv_timers_again, uv_run_timers, otherVars
  <2> QED BY <1>11, <2>1, <2>2, ExitInvQuiet, Zenon DEF QuietStep, threadVars
<1> QED BY <1>1, <1>2, <1>3, <1>4, <1>5, <1>6, <1>7, <1>8, <1>9, <1>10, <1>11, Zenon
    DEF ThreadNext, ThreadStep

\* uv_loop_close finds both handles closed and no callback to come, and the timer is
\* not started while its handle closes, whatever other threads are inside notify().
THEOREM ClosesIdleLoop == ThreadSpec => []LoopClosedIdle
<1>1. SchedulerInv /\ ExitInv => LoopClosedIdle
  <2> SUFFICES ASSUME SchedulerInv, ExitInv PROVE LoopClosedIdle
    OBVIOUS
  <2>1. ASSUME exit_pc = "exited", ready_
        PROVE  (\A h \in Handles : handle[h] = "closed") /\ io_done \cup events = {}
    <3>1. active = Main /\ Ending /\ Main # Dispatcher
      BY <2>1, ConstantsAssumption DEF ExitInv
    <3>2. wait[Main] = "none"
      BY <3>1, ConstantsAssumption DEF SchedulerInv, PlaceInv, EachContextOnce
    <3>3. \A f \in Fibers : wait[f] # "io"
      BY <3>1, <3>2 DEF Ending
    <3>4. io_done \cup events = {}
      BY <3>3 DEF SchedulerInv, TypeInv, TypeOK, PlaceInv, IoInv
    <3> QED BY <2>1, <3>4 DEF ExitInv, Handles
  <2>2. ASSUME handle["timer"] \in {"closing", "closed"} PROVE timer_ = NoTimer
    <3>1. ready_ /\ exit_pc # "running"
      BY <2>2 DEF ExitInv, Unused, Handles
    <3> QED BY <3>1 DEF ExitInv, Ending
  <2> QED BY <2>1, <2>2 DEF LoopClosedIdle
<1> QED BY <1>1, SchedulerInvInit, SchedulerInvStep, ExitInvInit, ExitInvStep, PTL DEF ThreadSpec
=============================================================================
