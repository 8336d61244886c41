--------------------------- MODULE FiberScheduler ---------------------------
(***************************************************************************)
(* The fiberio scheduling algorithm (src/src/scheduler.cpp) together with  *)
(* the two libraries it sits between:                                      *)
(*                                                                         *)
(*   - Boost.Fiber's dispatcher, which calls awakened, pick_next,          *)
(*     suspend_until and notify (external, modelled from those calls);     *)
(*   - libuv's loop iteration, which suspend_until runs with UV_RUN_ONCE   *)
(*     (external: timers, poll, callbacks, timers).                        *)
(*                                                                         *)
(* One thread, the fiberio thread, runs the fibers and the dispatcher, one *)
(* context at a time.  Other threads set promises that its fibers wait     *)
(* for; they touch the scheduler only through notify().  A critical        *)
(* section of mutex_ is one step, since wake_up_ and suspended_ are never  *)
(* accessed outside it.                                                    *)
(*                                                                         *)
(* Time is counted in ticks of the steady clock; libuv counts whole        *)
(* milliseconds of MsTicks ticks.                                          *)
(***************************************************************************)
EXTENDS Integers, Sequences

CONSTANTS
  Fibers,      \* fibers of the fiberio thread
  Main,        \* the fiber that runs the thread's own function
  Dispatcher,  \* Boost.Fiber's dispatcher context
  Threads,     \* other threads that set promises
  MsTicks,     \* clock ticks in a millisecond
  MaxSleep,    \* longest sleep, in ticks
  Spinners,    \* fibers that perform scheduling operations without end
  MaxOps,      \* bound: scheduling operations that another fiber performs
  MaxNow       \* bound: last tick of the clock

ASSUME ConstantsAssumption ==
  /\ Main \in Fibers
  /\ Dispatcher \notin Fibers
  /\ Spinners \subseteq Fibers
  /\ MsTicks \in Nat \ {0}
  /\ MaxSleep \in Nat
  /\ MaxOps \in Nat
  /\ MaxNow \in Nat

VARIABLES
  queue_,        \* scheduler::queue_, the ready contexts
  wake_up_,      \* scheduler::wake_up_
  suspended_,    \* scheduler::suspended_
  timer_,        \* due time (ms) of the scheduler's uv_timer_t, or NoTimer
  async_,        \* has the scheduler's uv_async_t been sent and not handled
  loop_time,     \* libuv's cached loop time, in ms
  timer_set,     \* local of suspend_until
  timer_done,    \* local of suspend_until, set through the timer's data
  pc,            \* where the dispatcher is
  active,        \* the context that runs on the fiberio thread
  wait,          \* what each fiber waits for
  deadline,      \* until when a sleeping fiber sleeps; 0 if it does not
  io_done,       \* fibers whose request the kernel has completed
  events,        \* completed requests that this loop iteration reports
  remote_ready,  \* Boost.Fiber's queue of fibers readied by other threads
  thread,        \* where each other thread is in notify()
  ops,           \* scheduling operations each fiber that is no spinner has performed
  now            \* the steady clock

flagVars == <<wake_up_, suspended_>>
algoVars == <<queue_, flagVars>>
frameVars == <<timer_set, timer_done>>
uvVars == <<timer_, async_, loop_time, events>>
fiberVars == <<wait, deadline, ops>>
otherVars == <<io_done, remote_ready, thread, now>>
vars == <<algoVars, frameVars, uvVars, fiberVars, pc, active, otherVars>>

Contexts == Fibers \cup {Dispatcher}

NoTimer == -1

Waits == {"new", "none", "promise", "sleep", "io", "done"}

PCs == {"dispatch", "sleep2ready", "pick_next", "suspend_enter", "start_timer",
        "uv_timers", "uv_poll", "uv_io", "uv_timers_again", "check",
        "suspend_exit"}

Sleepers == {f \in Fibers : wait[f] = "sleep"}
-----------------------------------------------------------------------------
(* use_on_this_thread: Main runs, the dispatcher is ready, and the thread's *)
(* uv loop, timer and async handle are initialised and idle.                *)

Init ==
  /\ queue_ = <<Dispatcher>>
  /\ wake_up_ = FALSE
  /\ suspended_ = FALSE
  /\ timer_ = NoTimer
  /\ async_ = FALSE
  /\ loop_time = 0
  /\ timer_set = FALSE
  /\ timer_done = FALSE
  /\ pc = "dispatch"
  /\ active = Main
  /\ wait = [f \in Fibers |-> IF f = Main THEN "none" ELSE "new"]
  /\ deadline = [f \in Fibers |-> 0]
  /\ io_done = {}
  /\ events = {}
  /\ remote_ready = <<>>
  /\ thread = [t \in Threads |-> "idle"]
  /\ ops = [f \in Fibers |-> 0]
  /\ now = 0
-----------------------------------------------------------------------------
(* The ready queue.  A context that suspends is replaced by the one that   *)
(* pick_next returns; while a fiber runs the dispatcher is queued, so       *)
(* pick_next then never returns nullptr (theorem TypeCorrect).              *)

\* Fault: a context is queued once more than it was awakened.
awakened_twice(q, c) == q \o <<c, c>>

\* Fault: the ready queue is a stack.
awakened_front(q, c) == <<c>> \o q

awakened(q, c) == Append(q, c)

pick_next(q) == Head(q)

\* Fault: pick_next leaves the fiber it returns in the queue.
pop_none(q) == q

pop(q) == Tail(q)

has_ready_fibers == queue_ # <<>>

SwitchTo(q) == active' = pick_next(q) /\ queue_' = pop(q)

Performs(f) ==
  /\ active = f
  /\ \/ f \in Spinners /\ UNCHANGED ops
     \/ /\ f \notin Spinners /\ ops[f] < MaxOps
        /\ ops' = [ops EXCEPT ![f] = @ + 1]
-----------------------------------------------------------------------------
(* What a running fiber does that involves the scheduler.                  *)

\* fibers::async: a new fiber is made ready.
launch(f, g) ==
  /\ Performs(f)
  /\ wait[g] = "new"
  /\ wait' = [wait EXCEPT ![g] = "none"]
  /\ queue_' = awakened(queue_, g)
  /\ UNCHANGED <<flagVars, frameVars, uvVars, deadline, pc, active, otherVars>>

\* this_fiber::yield: the next context runs, then f is made ready again.
yield(f) ==
  /\ Performs(f)
  /\ active' = pick_next(queue_)
  /\ queue_' = awakened(pop(queue_), f)
  /\ UNCHANGED <<flagVars, frameVars, uvVars, wait, deadline, pc, otherVars>>

\* future::get on a promise that is not yet set.
await_promise(f) ==
  /\ Performs(f)
  /\ wait' = [wait EXCEPT ![f] = "promise"]
  /\ SwitchTo(queue_)
  /\ UNCHANGED <<flagVars, frameVars, uvVars, deadline, pc, otherVars>>

\* promise::set_value by a fiber of the same thread.
set_value(f, g) ==
  /\ Performs(f)
  /\ wait[g] = "promise"
  /\ wait' = [wait EXCEPT ![g] = "none"]
  /\ queue_' = awakened(queue_, g)
  /\ UNCHANGED <<flagVars, frameVars, uvVars, deadline, pc, active, otherVars>>

\* this_fiber::sleep_for.  The bound leaves the clock room to pass the deadline by
\* a millisecond; a sleep of no time needs none.
sleep_for(f, d) ==
  /\ Performs(f)
  /\ d = 0 \/ now + d + MsTicks <= MaxNow
  /\ wait' = [wait EXCEPT ![f] = "sleep"]
  /\ deadline' = [deadline EXCEPT ![f] = now + d]
  /\ SwitchTo(queue_)
  /\ UNCHANGED <<flagVars, frameVars, uvVars, pc, otherVars>>

\* A library call that starts a libuv request and waits for its callback.
await_io(f) ==
  /\ Performs(f)
  /\ wait' = [wait EXCEPT ![f] = "io"]
  /\ SwitchTo(queue_)
  /\ UNCHANGED <<flagVars, frameVars, uvVars, deadline, pc, otherVars>>

\* use_on_this_thread once more: Boost.Fiber moves the ready contexts, in their
\* order, to a new scheduler object, which gets the same loop, timer and async
\* handle.  The object in use is not replaced under a thread that notifies it.
use_on_this_thread(f) ==
  /\ Performs(f)
  /\ \A t \in Threads : thread[t] = "idle"
  /\ wake_up_' = FALSE
  /\ suspended_' = FALSE
  /\ UNCHANGED <<queue_, frameVars, uvVars, wait, deadline, pc, active, otherVars>>

\* The fiber's function returns.
finish(f) ==
  /\ active = f
  /\ wait' = [wait EXCEPT ![f] = "done"]
  /\ SwitchTo(queue_)
  /\ UNCHANGED <<flagVars, frameVars, uvVars, deadline, ops, pc, otherVars>>

FiberStep ==
  \E f \in Fibers :
    \/ \E g \in Fibers : launch(f, g) \/ set_value(f, g)
    \/ yield(f)
    \/ await_promise(f)
    \/ \E d \in 0..MaxSleep : sleep_for(f, d)
    \/ await_io(f)
    \/ use_on_this_thread(f)
    \/ finish(f)
-----------------------------------------------------------------------------
(* The dispatcher's loop: take what other threads have readied, then the   *)
(* sleepers that are due, then resume the first ready fiber or suspend.     *)

At(from, to) == active = Dispatcher /\ pc = from /\ pc' = to

remote_ready2ready ==
  /\ At("dispatch", "sleep2ready")
  /\ queue_' = queue_ \o remote_ready
  /\ remote_ready' = <<>>
  /\ UNCHANGED <<flagVars, frameVars, uvVars, fiberVars, active, io_done, thread, now>>

Due(f) == wait[f] = "sleep" /\ deadline[f] <= now

Earliest(f) == \A g \in Sleepers : deadline[f] <= deadline[g]

\* A fiber that wakes up has no deadline any more.
sleep2ready(f) ==
  /\ At("sleep2ready", "sleep2ready")
  /\ Due(f)
  /\ Earliest(f)
  /\ wait' = [wait EXCEPT ![f] = "none"]
  /\ deadline' = [deadline EXCEPT ![f] = 0]
  /\ queue_' = awakened(queue_, f)
  /\ UNCHANGED <<flagVars, frameVars, uvVars, ops, active, otherVars>>

sleep2ready_end ==
  /\ At("sleep2ready", "pick_next")
  /\ \A f \in Fibers : ~Due(f)
  /\ UNCHANGED <<algoVars, frameVars, uvVars, fiberVars, active, otherVars>>

\* The resumed fiber puts the dispatcher back into the ready queue.
resume ==
  /\ At("pick_next", "dispatch")
  /\ queue_ # <<>>
  /\ active' = pick_next(queue_)
  /\ queue_' = awakened(pop(queue_), Dispatcher)
  /\ UNCHANGED <<flagVars, frameVars, uvVars, fiberVars, otherVars>>

nothing_ready ==
  /\ At("pick_next", "suspend_enter")
  /\ queue_ = <<>>
  /\ UNCHANGED <<algoVars, frameVars, uvVars, fiberVars, active, otherVars>>

DispatcherStep ==
  \/ remote_ready2ready
  \/ \E f \in Fibers : sleep2ready(f)
  \/ sleep2ready_end
  \/ resume
  \/ nothing_ready
-----------------------------------------------------------------------------
(* scheduler::suspend_until                                                *)

\* Fault: the duration is not converted to milliseconds.
ticks_until(abs_time) ==
  IF now >= abs_time THEN 0 ELSE abs_time - now + 1

milliseconds_until(abs_time) ==
  IF now >= abs_time THEN 0 ELSE ((abs_time - now) \div MsTicks) + 1

\* Fault: durations that are over are not rounded up.
timer_milliseconds_raw(abs_time) == (abs_time - now) \div MsTicks

\* A timer is never set to less than 1 ms.
timer_milliseconds(abs_time) ==
  IF milliseconds_until(abs_time) < 1 THEN 1 ELSE milliseconds_until(abs_time)

\* Fault: wake_up_ is not read when the scheduler suspends.
never_wake_up_directly == FALSE

\* What suspend_enter returns.
wake_up_directly == wake_up_

suspend_enter ==
  /\ At("suspend_enter", IF wake_up_directly THEN "suspend_exit" ELSE "start_timer")
  /\ suspended_' = TRUE
  /\ UNCHANGED <<queue_, wake_up_, frameVars, uvVars, fiberVars, active, otherVars>>

\* abs_time is the deadline of the sleeper that is due first; without a
\* sleeper it is time_point::max and the wait is indefinite.  uv_timer_start
\* counts from the loop's cached time.
start_timer ==
  /\ At("start_timer", "uv_timers")
  /\ timer_done' = FALSE
  /\ \/ /\ Sleepers = {}
        /\ timer_set' = FALSE
        /\ UNCHANGED timer_
     \/ \E f \in Sleepers :
          /\ Earliest(f)
          /\ timer_set' = TRUE
          /\ timer_' = loop_time + timer_milliseconds(deadline[f])
  /\ UNCHANGED <<algoVars, async_, loop_time, events, fiberVars, active, otherVars>>

\* Fault: the ready queue is not looked at after uv_run.
leave_unless_ready == timer_done \/ wake_up_

\* After uv_run: leave the loop when a fiber is ready, the timer has fired or
\* another thread asked for it.
leave == has_ready_fibers \/ timer_done \/ wake_up_

\* Fault: the timer keeps running when suspend_until returns.
timer_not_stopped == timer_

timer_on_return == IF timer_set /\ ~timer_done THEN NoTimer ELSE timer_

check ==
  /\ At("check", IF leave THEN "suspend_exit" ELSE "uv_timers")
  /\ timer_' = IF leave THEN timer_on_return ELSE timer_
  /\ UNCHANGED <<algoVars, frameVars, async_, loop_time, events, fiberVars, active, otherVars>>

suspend_exit ==
  /\ At("suspend_exit", "dispatch")
  /\ wake_up_' = FALSE
  /\ suspended_' = FALSE
  /\ UNCHANGED <<queue_, frameVars, uvVars, fiberVars, active, otherVars>>

SuspendStep == suspend_enter \/ start_timer \/ check \/ suspend_exit
-----------------------------------------------------------------------------
(* uv_run(loop_, UV_RUN_ONCE): expired timers, poll, callbacks, timers.    *)

\* Fault: the callback does not send async_.
timer_callback_without_send(fires) ==
  /\ timer_done' = (timer_done \/ fires)
  /\ UNCHANGED async_

\* suspend_timer_callback also sends async_, so that a timer that expires
\* before the poll does not leave the poll blocking.
suspend_timer_callback(fires) ==
  /\ timer_done' = (timer_done \/ fires)
  /\ async_' = (async_ \/ fires)

uv_run_timers ==
  LET t     == now \div MsTicks
      fires == timer_ # NoTimer /\ timer_ <= t
  IN  /\ loop_time' = t
      /\ timer_' = IF fires THEN NoTimer ELSE timer_
      /\ suspend_timer_callback(fires)
      /\ UNCHANGED <<algoVars, timer_set, events, fiberVars, active, otherVars>>

uv_timers == At("uv_timers", "uv_poll") /\ uv_run_timers

PollReturns ==
  \/ async_
  \/ io_done # {}
  \/ timer_ # NoTimer /\ timer_ <= now \div MsTicks

\* The poll blocks until one of its events; sending async_ has no callback.
uv_poll ==
  /\ At("uv_poll", "uv_io")
  /\ PollReturns
  /\ async_' = FALSE
  /\ events' = io_done
  /\ io_done' = {}
  /\ UNCHANGED <<algoVars, frameVars, timer_, loop_time, fiberVars, active, remote_ready, thread, now>>

\* A request's callback sets the promise of the fiber that waits for it.
uv_io_callback(f) ==
  /\ At("uv_io", "uv_io")
  /\ f \in events
  /\ events' = events \ {f}
  /\ wait' = [wait EXCEPT ![f] = "none"]
  /\ queue_' = awakened(queue_, f)
  /\ UNCHANGED <<flagVars, frameVars, timer_, async_, loop_time, deadline, ops, active, otherVars>>

uv_io_end ==
  /\ At("uv_io", "uv_timers_again")
  /\ events = {}
  /\ UNCHANGED <<algoVars, frameVars, uvVars, fiberVars, active, otherVars>>

uv_timers_again == At("uv_timers_again", "check") /\ uv_run_timers

UvStep ==
  \/ uv_timers
  \/ uv_poll
  \/ \E f \in Fibers : uv_io_callback(f)
  \/ uv_io_end
  \/ uv_timers_again
-----------------------------------------------------------------------------
(* Other threads: the promise of a fiber is set, the fiber is pushed onto  *)
(* the remote ready queue, and only then is notify() called.                *)

remote_set_value(t, f) ==
  /\ thread[t] = "idle"
  /\ wait[f] = "promise"
  /\ wait' = [wait EXCEPT ![f] = "none"]
  /\ remote_ready' = Append(remote_ready, f)
  /\ thread' = [thread EXCEPT ![t] = "notify"]
  /\ UNCHANGED <<algoVars, frameVars, uvVars, deadline, ops, pc, active, io_done, now>>

\* Fault: notify() relies on wake_up_ alone and never sends async_.
update_notify_only(t) ==
  /\ thread[t] = "notify"
  /\ wake_up_' = TRUE
  /\ thread' = [thread EXCEPT ![t] = "idle"]
  /\ UNCHANGED <<queue_, suspended_, frameVars, uvVars, fiberVars, pc, active, io_done, remote_ready, now>>

update_notify(t) ==
  /\ thread[t] = "notify"
  /\ wake_up_' = TRUE
  /\ thread' = [thread EXCEPT ![t] = IF suspended_ THEN "send" ELSE "idle"]
  /\ UNCHANGED <<queue_, suspended_, frameVars, uvVars, fiberVars, pc, active, io_done, remote_ready, now>>

notify_send(t) ==
  /\ thread[t] = "send"
  /\ async_' = TRUE
  /\ thread' = [thread EXCEPT ![t] = "idle"]
  /\ UNCHANGED <<algoVars, frameVars, timer_, loop_time, events, fiberVars, pc, active, io_done, remote_ready, now>>

notify(t) == update_notify(t) \/ notify_send(t)
-----------------------------------------------------------------------------
(* The kernel and the clock.                                               *)

io_complete(f) ==
  /\ wait[f] = "io"
  /\ f \notin io_done \cup events
  /\ io_done' = io_done \cup {f}
  /\ UNCHANGED <<algoVars, frameVars, uvVars, fiberVars, pc, active, remote_ready, thread, now>>

tick ==
  /\ now < MaxNow
  /\ now' = now + 1
  /\ UNCHANGED <<algoVars, frameVars, uvVars, fiberVars, pc, active, io_done, remote_ready, thread>>

\* All fibers have returned: the thread may stay in the poll for good.
Finished ==
  /\ pc = "uv_poll"
  /\ \A f \in Fibers : wait[f] \in {"new", "done"}

Stopped == Finished /\ UNCHANGED vars

LoopThread == FiberStep \/ DispatcherStep \/ SuspendStep \/ UvStep

Next ==
  \/ LoopThread
  \/ \E t \in Threads : notify(t)
  \/ \E t \in Threads, f \in Fibers : remote_set_value(t, f)
  \/ \E f \in Fibers : io_complete(f)
  \/ tick
  \/ Stopped

Spec == Init /\ [][Next]_vars

(* The operating system runs every runnable thread and the clock advances; *)
(* nothing obliges a promise to be set or a request to complete.            *)
Fairness ==
  /\ WF_vars(LoopThread)
  /\ \A t \in Threads : WF_vars(notify(t))
  /\ WF_vars(tick)

FairSpec == Spec /\ Fairness
-----------------------------------------------------------------------------
(* Properties                                                              *)

\* The state is of its type; in particular a deadline that passes before
\* suspend_until reads the clock never gives a negative timeout, and pick_next
\* always has a context to give to a fiber that suspends.
TypeOK ==
  /\ queue_ \in Seq(Contexts)
  /\ wake_up_ \in BOOLEAN
  /\ suspended_ \in BOOLEAN
  /\ timer_ \in Nat \cup {NoTimer}
  /\ async_ \in BOOLEAN
  /\ loop_time \in Nat
  /\ timer_set \in BOOLEAN
  /\ timer_done \in BOOLEAN
  /\ pc \in PCs
  /\ active \in Contexts
  /\ wait \in [Fibers -> Waits]
  /\ deadline \in [Fibers -> Nat]
  /\ io_done \subseteq Fibers
  /\ events \subseteq Fibers
  /\ remote_ready \in Seq(Fibers)
  /\ thread \in [Threads -> {"idle", "notify", "send"}]
  /\ ops \in [Fibers -> 0..MaxOps]
  /\ now \in 0..MaxNow

Parked == active = Dispatcher /\ pc = "uv_poll"

\* scheduler::notify against suspend_enter and suspend_exit: the thread never
\* blocks in the poll with a remotely readied fiber waiting, unless the poll
\* is about to be interrupted: async_ is pending or a notify() is under way.
NoLostWakeup ==
  Parked /\ remote_ready # <<>> =>
    async_ \/ \E t \in Threads : thread[t] # "idle"

\* suspend_until returns to the dispatcher as soon as a callback of uv_run has
\* made a fiber ready: the thread never blocks in the poll over a ready fiber.
NeverParkedOverReady == Parked => queue_ = <<>>

\* suspend_until's timer, set from milliseconds_until and libuv's cached time:
\* while the thread is in the poll every sleeper is covered by a pending wake-up
\* or by a timer that expires at most one millisecond after the deadline (after
\* the present, if the deadline has passed).
TimerCoversSleepers ==
  Parked =>
    \A f \in Sleepers :
      \/ async_
      \/ /\ timer_ # NoTimer
         /\ timer_ <= (IF deadline[f] > now THEN deadline[f] ELSE now) \div MsTicks + 1

\* The timer's data points at a local variable of suspend_until: the timer runs
\* only between uv_timer_start and suspend_until's return.
TimerStaysInFrame ==
  timer_ # NoTimer =>
    /\ active = Dispatcher
    /\ pc \in {"uv_timers", "uv_poll", "uv_io", "uv_timers_again", "check"}
    /\ timer_set /\ ~timer_done

Queued(q, c) == \E i \in DOMAIN q : q[i] = c

NoRepeats(q) == \A i, j \in DOMAIN q : q[i] = q[j] => i = j

\* awakened and pick_next neither lose nor duplicate a context: a fiber that
\* waits for nothing is running or queued, in one place and once, any other
\* fiber is nowhere, and the dispatcher is always running or queued, so that a
\* fiber that suspends always finds a next context to resume.
EachContextOnce ==
  /\ NoRepeats(queue_) /\ NoRepeats(remote_ready)
  /\ \A f \in Fibers :
       /\ wait[f] = "none" <=> active = f \/ Queued(queue_, f) \/ Queued(remote_ready, f)
       /\ ~(active = f /\ (Queued(queue_, f) \/ Queued(remote_ready, f)))
       /\ ~(Queued(queue_, f) /\ Queued(remote_ready, f))
  /\ active # Dispatcher <=> Queued(queue_, Dispatcher)

Before(q, c, d) == \E i, j \in DOMAIN q : i < j /\ q[i] = c /\ q[j] = d

\* A context that is ready stays ahead of those that are not ready before it.
KeepsOrder ==
  \A c, d \in Contexts :
    c # d /\ Queued(queue_, c) /\ ~Before(queue_, d, c) =>
      /\ active' = d => active = d
      /\ Queued(queue_', d) /\ active' # c => Before(queue_', c, d)

\* queue_ is first-in first-out: while a context is ready, neither one that was
\* awakened after it nor one that is awakened now runs, or is queued, before it.
NoOvertaking == [][KeepsOrder]_vars

Abstract == INSTANCE CooperativeScheduler WITH
  Nobody    <- Dispatcher,
  running   <- active,
  completed <- io_done \cup events

\* The scheduler, with its queues, timer, event loop and notifications, does to
\* its fibers only what the cooperative scheduler does: one runs at a time, none
\* is preempted, none wakes before its cause, its deadline included.
ImplementsAbstract == Abstract!Spec

\* Every ready fiber runs: it is resumed however often others yield, and notify()
\* reaches the loop, whatever it was doing, when another thread readied the fiber.
ReadyRuns == Abstract!ReadyRuns

\* A sleeping fiber runs again: no early or late expiry of the timer strands it,
\* and no fiber that keeps yielding.
SleeperRuns == Abstract!SleeperRuns

\* A fiber whose request has completed runs again, provided that suspend_until goes
\* on polling, for which it is not enough that the ready queue keeps running empty:
\* uv_run's callback makes the fiber ready, suspend_until notices, and the fiber has
\* its turn before the thread blocks in the poll again.
IoRunsWhenPolled ==
  \A f \in Fibers : []<>Parked => (f \in io_done ~> active = f)

\* A fiber whose request has completed runs again, whatever other fibers do as
\* long as they yield.
IoRuns == \A f \in Fibers : f \in io_done ~> active = f
=============================================================================
