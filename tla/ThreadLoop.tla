----------------------------- MODULE ThreadLoop -----------------------------
(***************************************************************************)
(* The life of a thread's event loop (src/src/loop.cpp), composed with the *)
(* scheduler that uses it: the loop, its timer and its async handle are    *)
(* initialised on first use, and the destructor of the thread-local object *)
(* closes them at thread exit.  The destructor runs in Main and waits for  *)
(* each handle in close_handle, that is, it suspends Main and relies on    *)
(* the scheduler and on the loop it is taking down.                        *)
(***************************************************************************)
EXTENDS FiberScheduler

VARIABLES
  ready_,    \* thread_uv_loop::ready_
  handle,    \* the handles async_ and timer_
  exit_pc    \* where the thread is in ~thread_uv_loop

threadVars == <<ready_, handle, exit_pc>>
allVars == <<vars, threadVars>>

Handles == {"async", "timer"}

ThreadInit ==
  /\ Init
  /\ ready_ = FALSE
  /\ handle = [h \in Handles |-> "none"]
  /\ exit_pc = "running"

\* The scheduler's constructor asks for the loop and its handles; asking again
\* initialises nothing.
make_ready ==
  /\ exit_pc = "running"
  /\ ~ready_
  /\ ready_' = TRUE
  /\ handle' = [h \in Handles |-> "open"]
  /\ UNCHANGED <<vars, exit_pc>>

\* Fault: uv_close is not given on_handle_closed.
close_handle_uncalled(h) ==
  /\ handle' = [handle EXCEPT ![h] = "closing"]
  /\ wait' = [wait EXCEPT ![Main] = "io"]
  /\ UNCHANGED io_done
  /\ SwitchTo(queue_)

\* Fault: the thread does not wait for on_handle_closed.
close_handle_unwaited(h) ==
  /\ handle' = [handle EXCEPT ![h] = "closing"]
  /\ UNCHANGED <<wait, io_done, active, queue_>>

\* Main waits for the close callback, which the next iteration of the loop calls:
\* it does not block in the poll while a handle is closing.
close_handle(h) ==
  /\ handle' = [handle EXCEPT ![h] = "closing"]
  /\ wait' = [wait EXCEPT ![Main] = "io"]
  /\ io_done' = io_done \cup {Main}
  /\ SwitchTo(queue_)

Destructs(from, to) == active = Main /\ exit_pc = from /\ exit_pc' = to

\* Callers join their fibers before the thread ends.  Nothing makes the destructor
\* wait for another thread that is still inside notify().
destroy_begin ==
  /\ Destructs("running", "close_async")
  /\ ready_
  /\ \A f \in Fibers \ {Main} : wait[f] \in {"new", "done"}
  /\ close_handle("async")
  /\ async_' = FALSE
  /\ UNCHANGED <<flagVars, frameVars, timer_, loop_time, events, deadline, ops, pc, remote_ready, thread,
                 now, ready_>>

close_timer ==
  /\ Destructs("close_async", "close_timer")
  /\ close_handle("timer")
  /\ UNCHANGED <<flagVars, frameVars, uvVars, deadline, ops, pc, remote_ready, thread, now, ready_>>

uv_loop_close ==
  /\ Destructs("close_timer", "exited")
  /\ UNCHANGED <<vars, ready_, handle>>

\* The thread ends without having used fiberio.
destroy_unused ==
  /\ Destructs("running", "exited")
  /\ ~ready_
  /\ UNCHANGED <<vars, ready_, handle>>

\* on_handle_closed is the callback that ends Main's wait.
handles_closed ==
  handle' = [h \in Handles |->
               IF handle[h] = "closing" /\ Main \in events /\ Main \notin events'
                 THEN "closed" ELSE handle[h]]

\* Main does not return to the scheduler other than through the destructor.
FibersRun ==
  /\ ready_ /\ exit_pc = "running"
  /\ FiberStep
  /\ wait'[Main] # "done"
  /\ UNCHANGED threadVars

ThreadStep ==
  \/ make_ready \/ destroy_unused
  \/ destroy_begin \/ close_timer \/ uv_loop_close
  \/ FibersRun
  \/ (DispatcherStep \/ SuspendStep) /\ UNCHANGED threadVars
  \/ UvStep /\ handles_closed /\ UNCHANGED <<ready_, exit_pc>>

ThreadNext ==
  \/ ThreadStep
  \/ /\ \/ \E t \in Threads : notify(t)
        \/ \E t \in Threads, f \in Fibers : remote_set_value(t, f)
        \/ \E f \in Fibers : io_complete(f)
        \/ tick
     /\ UNCHANGED threadVars

ThreadSpec == ThreadInit /\ [][ThreadNext]_allVars

(* As for FiberScheduler: the operating system runs every runnable thread.  *)
ThreadFairness ==
  /\ WF_allVars(ThreadStep)
  /\ \A t \in Threads : WF_allVars(notify(t) /\ UNCHANGED threadVars)
  /\ WF_allVars(tick /\ UNCHANGED threadVars)

ThreadFairSpec == ThreadSpec /\ ThreadFairness
-----------------------------------------------------------------------------
(* Properties                                                              *)

\* ~thread_uv_loop finishes: each wait in close_handle ends although the async
\* handle, through which other threads interrupt the poll, is closed first.
ExitCompletes == exit_pc # "running" ~> exit_pc = "exited"

\* notify() uses the async handle and the scheduler only while they exist.
NotifyWhileAlive ==
  /\ handle["async"] \in {"closing", "closed"} => \A t \in Threads : thread[t] # "send"
  /\ exit_pc = "exited" => \A t \in Threads : thread[t] = "idle"

\* uv_loop_close, whose result is ignored, fails on a loop that is in use.  It finds
\* both handles closed and no callback to come, and the scheduler, which suspends
\* the thread while the handles are closing, does not start the timer any more.
LoopClosedIdle ==
  /\ exit_pc = "exited" /\ ready_ =>
       (\A h \in Handles : handle[h] = "closed") /\ io_done \cup events = {}
  /\ handle["timer"] \in {"closing", "closed"} => timer_ = NoTimer
=============================================================================
