------------------------ MODULE FiberSchedulerProofs ------------------------
(* Machine-checked proofs about FiberScheduler, for any fibers, threads and  *)
(* bounds.  The inductive invariant is built in layers, each preserved by    *)
(* every step given the ones before it: types, notification, timer.          *)
EXTENDS FiberScheduler, TLAPS

-----------------------------------------------------------------------------
(* Arithmetic of milliseconds.                                              *)

\* Integer division as the conversions to milliseconds use it.
LEMMA DivBounds ==
  ASSUME NEW m \in Nat \ {0}, NEW a \in Nat
  PROVE  /\ a \div m \in Nat
         /\ m * (a \div m) <= a
         /\ a < m * (a \div m) + m
BY Z3

\* A later tick is in no earlier millisecond.
LEMMA DivMonotone ==
  ASSUME NEW m \in Nat \ {0}, NEW a \in Nat, NEW b \in Nat, a <= b
  PROVE  a \div m <= b \div m
<1> DEFINE x == a \div m
           y == b \div m
<1>1. x \in Nat /\ y \in Nat /\ m * x <= a /\ b < m * y + m
  BY DivBounds
<1> HIDE DEF x, y
<1>2. SUFFICES ASSUME y + 1 <= x PROVE FALSE
  BY <1>1 DEF x, y
<1>3. m * (y + 1) <= m * x
  BY <1>1, <1>2
<1> QED BY <1>1, <1>3

\* Rounding two durations down loses no less than rounding their sum down.
LEMMA DivSum ==
  ASSUME NEW m \in Nat \ {0}, NEW a \in Nat, NEW b \in Nat
  PROVE  (a \div m) + (b \div m) <= (a + b) \div m
<1> DEFINE x == a \div m
           y == b \div m
           z == (a + b) \div m
<1>1. x \in Nat /\ y \in Nat /\ z \in Nat /\ m * x <= a /\ m * y <= b /\ a + b < m * z + m
  BY DivBounds, a + b \in Nat
<1> HIDE DEF x, y, z
<1>2. SUFFICES ASSUME z + 1 <= x + y PROVE FALSE
  BY <1>1 DEF x, y, z
<1>3. m * (z + 1) <= m * (x + y)
  BY <1>1, <1>2
<1> QED BY <1>1, <1>3
-----------------------------------------------------------------------------
(* Types.  A fiber that suspends resumes the head of queue_, which is a     *)
(* context only if queue_ is not empty: the dispatcher is in it.             *)

DispatcherQueued ==
  active # Dispatcher => pc = "dispatch" /\ Queued(queue_, Dispatcher)

TypeInv == TypeOK /\ DispatcherQueued

\* awakened keeps what is in the ready queue and adds the context.
LEMMA AwakenedHas ==
  ASSUME NEW q \in Seq(Contexts), NEW c \in Contexts
  PROVE  /\ awakened(q, c) \in Seq(Contexts)
         /\ Queued(awakened(q, c), c)
         /\ \A d : Queued(q, d) => Queued(awakened(q, c), d)
<1>1. Append(q, c) \in Seq(Contexts) /\ Len(Append(q, c)) = Len(q) + 1
  OBVIOUS
<1>2. Append(q, c)[Len(q) + 1] = c /\ Len(q) + 1 \in DOMAIN Append(q, c)
  OBVIOUS
<1>3. ASSUME NEW i \in DOMAIN q PROVE i \in DOMAIN Append(q, c) /\ Append(q, c)[i] = q[i]
  OBVIOUS
<1> QED BY <1>1, <1>2, <1>3 DEF awakened, Queued

\* What pick_next takes from a ready queue that holds the dispatcher.
LEMMA PickNextHas ==
  ASSUME NEW q \in Seq(Contexts), q # <<>>
  PROVE  /\ pick_next(q) \in Contexts
         /\ pop(q) \in Seq(Contexts)
         /\ \A c : Queued(q, c) /\ pick_next(q) # c => Queued(pop(q), c)
<1>1. Head(q) \in Contexts /\ Tail(q) \in Seq(Contexts) /\ Head(q) = q[1]
  OBVIOUS
<1>2. ASSUME NEW i \in DOMAIN q, i # 1
      PROVE  i - 1 \in DOMAIN Tail(q) /\ Tail(q)[i - 1] = q[i]
  BY <1>2
<1>3. ASSUME NEW c, Queued(q, c), Head(q) # c PROVE Queued(Tail(q), c)
  BY <1>1, <1>2, <1>3, Zenon DEF Queued
<1> QED BY <1>1, <1>3 DEF pick_next, pop

\* A fiber that runs finds a context to resume, and leaves the dispatcher
\* running or queued.
LEMMA SwitchKeepsDispatcher ==
  ASSUME TypeInv, active # Dispatcher
  PROVE  /\ pick_next(queue_) \in Contexts
         /\ pop(queue_) \in Seq(Contexts)
         /\ pick_next(queue_) # Dispatcher => Queued(pop(queue_), Dispatcher)
<1>1. queue_ \in Seq(Contexts) /\ Queued(queue_, Dispatcher)
  BY DEF TypeInv, TypeOK, DispatcherQueued
<1>2. queue_ # <<>>
  BY <1>1 DEF Queued
<1> QED BY <1>1, <1>2, PickNextHas

\* Timer durations are natural numbers.
LEMMA MillisecondsType ==
  ASSUME NEW abs_time \in Nat, now \in Nat
  PROVE  milliseconds_until(abs_time) \in Nat /\ timer_milliseconds(abs_time) \in Nat \ {0}
<1>1. ASSUME ~(now >= abs_time) PROVE (abs_time - now) \div MsTicks \in Nat
  <2>1. abs_time - now \in Nat
    BY <1>1
  <2> QED BY <2>1, DivBounds, ConstantsAssumption
<1> QED BY <1>1 DEF milliseconds_until, timer_milliseconds

\* A fiber's operation counts at most one more.
LEMMA PerformsType ==
  ASSUME TypeOK, NEW f \in Fibers, Performs(f)
  PROVE  ops' \in [Fibers -> 0..MaxOps]
<1>1. CASE UNCHANGED ops
  BY <1>1 DEF TypeOK
<1>2. CASE ops[f] < MaxOps /\ ops' = [ops EXCEPT ![f] = @ + 1]
  BY <1>2, ConstantsAssumption DEF TypeOK
<1> QED BY <1>1, <1>2, Zenon DEF Performs

\* TypeInv holds initially.
LEMMA TypeInvInit == Init => TypeInv
<1> SUFFICES ASSUME Init PROVE TypeInv
  OBVIOUS
<1>1. queue_ \in Seq(Contexts) /\ remote_ready \in Seq(Fibers)
  BY DEF Init, Contexts
<1>2. TypeOK
  <2>1. active \in Contexts /\ wait \in [Fibers -> Waits]
    BY ConstantsAssumption DEF Init, Contexts, Waits
  <2>2. deadline \in [Fibers -> Nat] /\ ops \in [Fibers -> 0..MaxOps] /\ now \in 0..MaxNow
    BY ConstantsAssumption DEF Init
  <2>3. thread \in [Threads -> {"idle", "notify", "send"}]
    BY DEF Init
  <2> QED BY <1>1, <2>1, <2>2, <2>3, Zenon DEF Init, TypeOK, PCs
<1>3. 1 \in DOMAIN queue_ /\ queue_[1] = Dispatcher
  BY DEF Init
<1>4. DispatcherQueued
  BY <1>3 DEF Init, DispatcherQueued, Queued
<1> QED BY <1>2, <1>4 DEF TypeInv

\* Every step preserves TypeInv.
LEMMA TypeInvStep == TypeInv /\ [Next]_vars => TypeInv'
<1> SUFFICES ASSUME TypeInv, [Next]_vars PROVE TypeInv'
  OBVIOUS
<1> USE ConstantsAssumption
<1> USE DEF TypeInv, TypeOK, DispatcherQueued, Waits, PCs,
            flagVars, algoVars, frameVars, uvVars, fiberVars, otherVars
<1>0. Fibers \subseteq Contexts /\ Dispatcher \in Contexts /\ now \in Nat
  BY DEF Contexts
<1>1. ASSUME NEW f \in Fibers, NEW g \in Fibers, launch(f, g) \/ set_value(f, g)
      PROVE  TypeInv'
  <2>a. queue_' = awakened(queue_, g) /\ Performs(f)
    BY <1>1, Zenon DEF launch, set_value
  <2>1. /\ queue_' \in Seq(Contexts)
        /\ Queued(queue_, Dispatcher) => Queued(queue_', Dispatcher)
    BY <1>0, <2>a, AwakenedHas, Zenon
  <2>2. ops' \in [Fibers -> 0..MaxOps]
    BY <2>a, PerformsType, Zenon
  <2>3. wait' \in [Fibers -> Waits]
    BY <1>1, Zenon DEF launch, set_value
  <2>4. /\ UNCHANGED <<flagVars, frameVars, uvVars, deadline, pc, active, otherVars>>
        /\ active # Dispatcher
    BY <1>1 DEF launch, set_value, Performs
  <2>5. DispatcherQueued'
    BY <2>1, <2>4
  <2> QED BY <2>1, <2>2, <2>3, <2>4, <2>5, Zenon
<1>2. ASSUME NEW f \in Fibers, yield(f)
      PROVE  TypeInv'
  <2>1. active = f /\ active # Dispatcher
    BY <1>2 DEF yield, Performs
  <2>2. /\ pick_next(queue_) \in Contexts
        /\ pop(queue_) \in Seq(Contexts)
        /\ pick_next(queue_) # Dispatcher => Queued(pop(queue_), Dispatcher)
    BY <2>1, SwitchKeepsDispatcher
  <2>3. /\ queue_' \in Seq(Contexts)
        /\ active' # Dispatcher => Queued(queue_', Dispatcher)
    BY <1>0, <1>2, <2>2, AwakenedHas DEF yield
  <2>4. active' \in Contexts
    BY <1>2, <2>2 DEF yield
  <2>5. ops' \in [Fibers -> 0..MaxOps]
    BY <1>2, PerformsType DEF yield
  <2> QED BY <1>2, <2>1, <2>3, <2>4, <2>5 DEF yield
<1>3. ASSUME NEW f \in Fibers, await_promise(f) \/ await_io(f) \/ finish(f)
      PROVE  TypeInv'
  <2>1. active = f /\ active # Dispatcher /\ SwitchTo(queue_)
    BY <1>3 DEF await_promise, await_io, finish, Performs
  <2>2. /\ active' \in Contexts /\ queue_' \in Seq(Contexts)
        /\ active' # Dispatcher => Queued(queue_', Dispatcher)
    BY <2>1, SwitchKeepsDispatcher DEF SwitchTo
  <2>3. ops' \in [Fibers -> 0..MaxOps]
    BY <1>3, PerformsType DEF await_promise, await_io, finish
  <2>4. wait' \in [Fibers -> Waits]
    BY <1>3, Zenon DEF await_promise, await_io, finish
  <2> QED BY <1>3, <2>1, <2>2, <2>3, <2>4, ZenonT(30) DEF await_promise, await_io, finish
<1>4. ASSUME NEW f \in Fibers, NEW d \in 0..MaxSleep, sleep_for(f, d)
      PROVE  TypeInv'
  <2>1. active = f /\ active # Dispatcher /\ SwitchTo(queue_)
    BY <1>4 DEF sleep_for, Performs
  <2>2. /\ active' \in Contexts /\ queue_' \in Seq(Contexts)
        /\ active' # Dispatcher => Queued(queue_', Dispatcher)
    BY <2>1, SwitchKeepsDispatcher DEF SwitchTo
  <2>3. ops' \in [Fibers -> 0..MaxOps]
    BY <1>4, PerformsType DEF sleep_for
  <2>4. wait' \in [Fibers -> Waits]
    BY <1>4 DEF sleep_for
  <2>5. deadline' \in [Fibers -> Nat]
    <3>1. now + d \in Nat
      BY <1>0
    <3> QED BY <1>4, <3>1 DEF sleep_for
  <2>6. UNCHANGED <<flagVars, frameVars, uvVars, pc, otherVars>>
    BY <1>4 DEF sleep_for
  <2> QED BY <2>1, <2>2, <2>3, <2>4, <2>5, <2>6, ZenonT(30)
<1>5. CASE remote_ready2ready
  <2>1. queue_ \o remote_ready \in Seq(Contexts)
    BY <1>0, remote_ready \in Seq(Contexts)
  <2> QED BY <1>5, <2>1 DEF remote_ready2ready, At
<1>6. ASSUME NEW f \in Fibers, sleep2ready(f)
      PROVE  TypeInv'
  BY <1>0, <1>6, AwakenedHas, Zenon DEF sleep2ready, At
<1>7. CASE sleep2ready_end \/ nothing_ready
  BY <1>7, ZenonT(30) DEF sleep2ready_end, nothing_ready, At
<1>8. CASE resume
  BY <1>0, <1>8, PickNextHas, AwakenedHas, Zenon DEF resume, At
<1>9. CASE suspend_enter \/ suspend_exit
  BY <1>9, ZenonT(30) DEF suspend_enter, suspend_exit, At
<1>10. CASE start_timer
  <2>1. timer_' \in Nat \cup {NoTimer}
    <3>1. ASSUME NEW f \in Fibers PROVE loop_time + timer_milliseconds(deadline[f]) \in Nat
      <4>1. deadline[f] \in Nat
        OBVIOUS
      <4>2. timer_milliseconds(deadline[f]) \in Nat
        BY <1>0, <4>1, MillisecondsType
      <4> QED BY <4>2
    <3>2. timer_' = timer_ \/ \E f \in Fibers : timer_' = loop_time + timer_milliseconds(deadline[f])
      BY <1>10 DEF start_timer, Sleepers
    <3> QED BY <3>1, <3>2
  <2> QED BY <1>10, <2>1, Zenon DEF start_timer, At
<1>11. CASE check
  BY <1>11 DEF check, At, timer_on_return
<1>12. CASE uv_timers \/ uv_timers_again
  <2>1. now \div MsTicks \in Nat
    BY <1>0, DivBounds, Zenon
  <2>2. timer_done' \in BOOLEAN /\ async_' \in BOOLEAN
    BY <1>12, Zenon DEF uv_timers, uv_timers_again, uv_run_timers, suspend_timer_callback
  <2>3. timer_' \in Nat \cup {NoTimer}
    BY <1>12 DEF uv_timers, uv_timers_again, uv_run_timers
  <2>4. /\ loop_time' = now \div MsTicks /\ pc' \in PCs /\ active = Dispatcher
        /\ UNCHANGED <<algoVars, timer_set, events, fiberVars, active, otherVars>>
    BY <1>12, Zenon DEF uv_timers, uv_timers_again, uv_run_timers, At
  <2> QED BY <2>1, <2>2, <2>3, <2>4, Zenon
<1>13. CASE uv_poll \/ uv_io_end
  BY <1>13, ZenonT(30) DEF uv_poll, uv_io_end, At
<1>14. ASSUME NEW f \in Fibers, uv_io_callback(f)
       PROVE  TypeInv'
  BY <1>0, <1>14, AwakenedHas, Zenon DEF uv_io_callback, At
<1>15. ASSUME NEW t \in Threads, notify(t)
       PROVE  TypeInv'
  <2>1. CASE update_notify(t)
    BY <2>1, ZenonT(30) DEF update_notify
  <2>2. CASE notify_send(t)
    BY <2>2, ZenonT(30) DEF notify_send
  <2> QED BY <1>15, <2>1, <2>2, Zenon DEF notify
<1>16. ASSUME NEW t \in Threads, NEW f \in Fibers, remote_set_value(t, f)
       PROVE  TypeInv'
  BY <1>16 DEF remote_set_value
<1>17. ASSUME NEW f \in Fibers, io_complete(f)
       PROVE  TypeInv'
  BY <1>17 DEF io_complete
<1>18. CASE tick
  BY <1>18 DEF tick
<1>19. ASSUME NEW f \in Fibers, use_on_this_thread(f)
       PROVE  TypeInv'
  BY <1>19, PerformsType, ZenonT(30) DEF use_on_this_thread
<1>20. CASE UNCHANGED vars
  BY <1>20 DEF vars
<1> QED
  BY <1>1, <1>2, <1>3, <1>4, <1>5, <1>6, <1>7, <1>8, <1>9, <1>10, <1>11, <1>12, <1>13, <1>14,
     <1>15, <1>16, <1>17, <1>18, <1>19, <1>20, Zenon
     DEF Next, LoopThread, FiberStep, DispatcherStep, SuspendStep, UvStep, Stopped

\* Type correctness of the scheduler model, for every set of fibers and threads.
THEOREM TypeCorrect == Spec => []TypeOK
<1>1. TypeInv => TypeOK
  BY DEF TypeInv
<1> QED BY <1>1, TypeInvInit, TypeInvStep, PTL DEF Spec
-----------------------------------------------------------------------------
(* Order.  Contexts enter the ready queue at its end and leave it at its    *)
(* head, one at a time or, if other threads readied them, several.           *)

\* Of two contexts in a queue, one is before the other.
LEMMA OrderTotal ==
  ASSUME NEW S, NEW q \in Seq(S), NEW c, NEW d, c # d, Queued(q, c), Queued(q, d), ~Before(q, d, c)
  PROVE  Before(q, c, d)
<1>1. PICK i \in DOMAIN q : q[i] = c
  BY DEF Queued
<1>2. PICK j \in DOMAIN q : q[j] = d
  BY DEF Queued
<1>3. DOMAIN q = 1..Len(q) /\ Len(q) \in Nat
  OBVIOUS
<1>4. i < j \/ j < i
  BY <1>1, <1>2, <1>3
<1> QED BY <1>1, <1>2, <1>4, Zenon DEF Before

\* Appending contexts to a queue overtakes none that is in it.
LEMMA JoinedOrder ==
  ASSUME NEW S, NEW q \in Seq(S), NEW r \in Seq(S), NEW c, NEW d,
         Queued(q, c), Queued(q, d) => Before(q, c, d), Queued(q \o r, d)
  PROVE  Before(q \o r, c, d)
<1> DEFINE s == q \o r
<1>1. /\ DOMAIN q = 1..Len(q) /\ DOMAIN s = 1..(Len(q) + Len(r)) /\ Len(q) \in Nat /\ Len(r) \in Nat
      /\ \A i \in 1..Len(q) : s[i] = q[i]
  OBVIOUS
<1> HIDE DEF s
<1>2. \A i \in DOMAIN q : i \in DOMAIN s /\ s[i] = q[i]
  BY <1>1
<1>3. CASE Queued(q, d)
  BY <1>2, <1>3, Zenon DEF Before, s
<1>4. CASE ~Queued(q, d)
  <2>1. PICK i \in DOMAIN q : q[i] = c
    BY DEF Queued
  <2>2. PICK j \in DOMAIN s : s[j] = d
    BY DEF Queued, s
  <2>3. j \notin DOMAIN q
    BY <1>2, <1>4, <2>2, Zenon DEF Queued
  <2>4. i < j
    BY <1>1, <2>1, <2>2, <2>3
  <2>5. i \in DOMAIN s /\ s[i] = c
    BY <1>2, <2>1, Zenon
  <2> QED BY <2>2, <2>4, <2>5, Zenon DEF Before, s
<1> QED BY <1>3, <1>4

\* awakened overtakes no context that is ready.
LEMMA AwakenedOrder ==
  ASSUME NEW S, NEW q \in Seq(S), NEW c, NEW d, NEW e \in S,
         Queued(q, c), Queued(q, d) => Before(q, c, d), Queued(awakened(q, e), d)
  PROVE  Before(awakened(q, e), c, d)
<1>1. awakened(q, e) = q \o <<e>> /\ <<e>> \in Seq(S)
  BY DEF awakened
<1> QED BY <1>1, JoinedOrder, Zenon

\* pick_next takes the context that is before all others, and keeps their order.
LEMMA PoppedOrder ==
  ASSUME NEW S, NEW q \in Seq(S), NEW c, NEW d, c # d, Queued(q, c), ~Before(q, d, c)
  PROVE  /\ pick_next(q) # d
         /\ pop(q) \in Seq(S)
         /\ pick_next(q) # c => Queued(pop(q), c) /\ (Queued(pop(q), d) => Before(pop(q), c, d))
<1> DEFINE r == Tail(q)
<1>1. PICK i \in DOMAIN q : q[i] = c
  BY DEF Queued
<1>2. /\ Len(q) \in Nat \ {0} /\ DOMAIN q = 1..Len(q) /\ DOMAIN r = 1..(Len(q) - 1)
      /\ Head(q) = q[1] /\ r \in Seq(S) /\ \A k \in 1..(Len(q) - 1) : r[k] = q[k + 1]
  BY <1>1
<1> HIDE DEF r
<1>3. ASSUME Head(q) = d PROVE FALSE
  <2>1. 1 \in DOMAIN q /\ q[1] = d
    BY <1>2, <1>3
  <2>2. 1 < i
    BY <1>1, <1>2, <2>1
  <2> QED BY <1>1, <2>1, <2>2, Zenon DEF Before
<1>4. ASSUME NEW k \in DOMAIN q, k # 1 PROVE k - 1 \in DOMAIN r /\ r[k - 1] = q[k]
  <2>1. k - 1 \in 1..(Len(q) - 1) /\ (k - 1) + 1 = k
    BY <1>2, <1>4
  <2> QED BY <1>2, <2>1
<1>5. ASSUME Head(q) # c PROVE Queued(r, c)
  <2>1. i # 1
    BY <1>1, <1>2, <1>5
  <2> QED BY <1>1, <1>4, <2>1, Zenon DEF Queued
<1>6. ASSUME Head(q) # c, Queued(r, d) PROVE Before(r, c, d)
  <2>1. PICK j \in 1..(Len(q) - 1) : r[j] = d
    BY <1>2, <1>6, Zenon DEF Queued
  <2>2. j + 1 \in DOMAIN q /\ q[j + 1] = d
    BY <1>2, <2>1
  <2>a. Before(q, c, d)
    <3>1. Queued(q, d)
      BY <2>2, Zenon DEF Queued
    <3> QED BY <3>1, OrderTotal, Zenon
  <2>3. PICK k, l \in DOMAIN q : k < l /\ q[k] = c /\ q[l] = d
    BY <2>a, Zenon DEF Before
  <2>4. k # 1 /\ l # 1 /\ k - 1 < l - 1
    BY <1>2, <1>6, <2>3
  <2>5. /\ k - 1 \in DOMAIN r /\ r[k - 1] = c
        /\ l - 1 \in DOMAIN r /\ r[l - 1] = d
    BY <1>4, <2>3, <2>4, Zenon
  <2> QED BY <2>4, <2>5, Zenon DEF Before
<1> QED BY <1>2, <1>3, <1>5, <1>6, Zenon DEF r, pick_next, pop
-----------------------------------------------------------------------------
(* Notification.  A remotely readied fiber is announced by wake_up_ or by a *)
(* notify() that has not set it yet; a set wake_up_ that suspend_enter has   *)
(* not seen is followed by async_, because suspended_ was already set.       *)

Suspended == pc \in {"start_timer", "uv_timers", "uv_poll", "uv_io", "uv_timers_again", "check",
                     "suspend_exit"}

NotifyInv ==
  /\ suspended_ <=> Suspended
  /\ active = Dispatcher /\ pc # "dispatch" /\ remote_ready # <<>> =>
       wake_up_ \/ \E t \in Threads : thread[t] = "notify"
  /\ wake_up_ /\ pc \in {"start_timer", "uv_timers", "uv_poll"} =>
       async_ \/ \E t \in Threads : thread[t] = "send"
  /\ active = Dispatcher /\ pc \in {"suspend_enter", "start_timer", "uv_timers", "uv_poll"} =>
       queue_ = <<>>

\* NotifyInv holds initially.
LEMMA NotifyInvInit == Init => NotifyInv
BY ConstantsAssumption DEF Init, NotifyInv, Suspended

\* Every step preserves NotifyInv.
LEMMA NotifyInvStep == TypeInv /\ NotifyInv /\ [Next]_vars => NotifyInv'
<1> SUFFICES ASSUME TypeInv, NotifyInv, [Next]_vars PROVE NotifyInv'
  OBVIOUS
<1> USE ConstantsAssumption
<1> USE DEF NotifyInv, Suspended, flagVars, algoVars, frameVars, uvVars, fiberVars, otherVars
<1>0. /\ active # Dispatcher => pc = "dispatch"
      /\ thread \in [Threads -> {"idle", "notify", "send"}]
  BY ZenonT(30) DEF TypeInv, TypeOK, DispatcherQueued
<1>1. ASSUME NEW f \in Fibers,
             \/ \E g \in Fibers : launch(f, g) \/ set_value(f, g)
             \/ yield(f) \/ await_promise(f) \/ await_io(f) \/ finish(f)
             \/ \E d \in 0..MaxSleep : sleep_for(f, d)
      PROVE  NotifyInv'
  <2>1. /\ active # Dispatcher
        /\ UNCHANGED <<flagVars, pc, remote_ready, thread, async_>>
    BY <1>1 DEF launch, set_value, yield, await_promise, await_io, finish, sleep_for, Performs
  <2> QED BY <1>0, <2>1
<1>2. CASE remote_ready2ready
  BY <1>2 DEF remote_ready2ready, At
<1>3. ASSUME NEW f \in Fibers, sleep2ready(f) \/ uv_io_callback(f)
      PROVE  NotifyInv'
  BY <1>3 DEF sleep2ready, uv_io_callback, At
<1>4. CASE sleep2ready_end \/ nothing_ready \/ resume
  BY <1>4 DEF sleep2ready_end, nothing_ready, resume, At
<1>5. CASE suspend_enter
  BY <1>5 DEF suspend_enter, wake_up_directly, At
<1>6. CASE start_timer \/ uv_poll \/ uv_io_end
  BY <1>6 DEF start_timer, uv_poll, uv_io_end, At
<1>7. CASE check
  BY <1>7 DEF check, leave, has_ready_fibers, At
<1>8. CASE suspend_exit
  BY <1>8 DEF suspend_exit, At
<1>9. CASE uv_timers \/ uv_timers_again
  <2>1. async_ => async_'
    BY <1>9, Zenon DEF uv_timers, uv_timers_again, uv_run_timers, suspend_timer_callback
  <2>2. UNCHANGED <<algoVars, active, otherVars>>
    BY <1>9 DEF uv_timers, uv_timers_again, uv_run_timers
  <2> QED BY <1>9, <2>1, <2>2 DEF uv_timers, uv_timers_again, At
<1>10. ASSUME NEW t \in Threads, update_notify(t)
       PROVE  NotifyInv'
  <2>1. suspended_ => thread'[t] = "send"
    BY <1>0, <1>10 DEF update_notify
  <2> QED BY <1>10, <2>1 DEF update_notify
<1>11. ASSUME NEW t \in Threads, notify_send(t)
       PROVE  NotifyInv'
  <2>1. \A u \in Threads : thread[u] = "notify" => thread'[u] = "notify"
    BY <1>0, <1>11 DEF notify_send
  <2> QED BY <1>11, <2>1 DEF notify_send
<1>12. ASSUME NEW t \in Threads, NEW f \in Fibers, remote_set_value(t, f)
       PROVE  NotifyInv'
  <2>1. thread'[t] = "notify" /\ \A u \in Threads : thread[u] = "send" => thread'[u] = "send"
    BY <1>0, <1>12 DEF remote_set_value
  <2> QED BY <1>12, <2>1 DEF remote_set_value
<1>13. ASSUME NEW f \in Fibers, io_complete(f)
       PROVE  NotifyInv'
  BY <1>13 DEF io_complete
<1>14. CASE tick
  BY <1>14 DEF tick
<1>15. ASSUME NEW f \in Fibers, use_on_this_thread(f)
       PROVE  NotifyInv'
  BY <1>0, <1>15 DEF use_on_this_thread, Performs
<1>16. CASE UNCHANGED vars
  BY <1>16 DEF vars
<1> QED
  BY <1>1, <1>2, <1>3, <1>4, <1>5, <1>6, <1>7, <1>8, <1>9, <1>10, <1>11, <1>12, <1>13, <1>14,
     <1>15, <1>16, Zenon
     DEF Next, LoopThread, FiberStep, DispatcherStep, SuspendStep, UvStep, notify, Stopped

\* Lost wake-ups are impossible: for any number of fibers and of notifying
\* threads, scheduler::notify interrupts a poll that would ignore a readied fiber.
THEOREM WakeupNeverLost == Spec => []NoLostWakeup
<1>1. NotifyInv => NoLostWakeup
  BY DEF NotifyInv, NoLostWakeup, Parked
<1> QED BY <1>1, TypeInvInit, TypeInvStep, NotifyInvInit, NotifyInvStep, PTL DEF Spec

\* suspend_until never keeps polling over a fiber that uv_run made ready.
THEOREM ReadyNeverParked == Spec => []NeverParkedOverReady
<1>1. NotifyInv => NeverParkedOverReady
  BY DEF NotifyInv, NeverParkedOverReady, Parked
<1> QED BY <1>1, TypeInvInit, TypeInvStep, NotifyInvInit, NotifyInvStep, PTL DEF Spec
-----------------------------------------------------------------------------
(* The timer.  It counts from the cached loop time, which is never ahead of *)
(* the clock, so that rounding can only make it expire early, and an early   *)
(* expiry sets timer_done and async_ before the next poll.                   *)

Running == pc \in {"uv_timers", "uv_poll", "uv_io", "uv_timers_again", "check"}

Bound(f) == (IF deadline[f] > now THEN deadline[f] ELSE now) \div MsTicks + 1

TimerInv ==
  /\ loop_time <= now \div MsTicks
  /\ TimerStaysInFrame
  /\ active = Dispatcher /\ Running /\ timer_done =>
       pc \in {"uv_io", "uv_timers_again", "check"} \/ (pc = "uv_poll" /\ async_)
  /\ active = Dispatcher /\ Running =>
       \A f \in Sleepers : timer_done \/ (timer_ # NoTimer /\ timer_ <= Bound(f))

\* TimerInv holds initially.
LEMMA TimerInvInit == Init => TimerInv
<1>1. 0 <= 0 \div MsTicks
  BY DivBounds, ConstantsAssumption
<1> QED BY <1>1, ConstantsAssumption DEF Init, TimerInv, TimerStaysInFrame, Running, Sleepers, NoTimer

\* The timer that suspend_until starts expires at most a millisecond after the
\* deadline, or after the present if the deadline has passed meanwhile.
LEMMA StartedTimerBound ==
  ASSUME TypeOK, loop_time <= now \div MsTicks, NEW f \in Fibers
  PROVE  /\ loop_time + timer_milliseconds(deadline[f]) \in Nat
         /\ loop_time + timer_milliseconds(deadline[f]) <= Bound(f)
<1> DEFINE d == deadline[f]
<1>1. now \in Nat /\ d \in Nat /\ loop_time \in Nat
  BY ConstantsAssumption DEF TypeOK
<1>2. now \div MsTicks \in Nat
  BY <1>1, DivBounds, ConstantsAssumption
<1>3. CASE now >= d
  <2>1. timer_milliseconds(d) = 1
    BY <1>3 DEF timer_milliseconds, milliseconds_until
  <2>2. Bound(f) = now \div MsTicks + 1
    BY <1>1, <1>3 DEF Bound
  <2> QED BY <1>1, <1>2, <2>1, <2>2
<1>4. CASE ~(now >= d)
  <2>1. d - now \in Nat /\ now + (d - now) = d /\ d > now
    BY <1>1, <1>4
  <2>2. (d - now) \div MsTicks \in Nat /\ d \div MsTicks \in Nat
    BY <1>1, <2>1, DivBounds, ConstantsAssumption, Zenon
  <2>3. now \div MsTicks + (d - now) \div MsTicks <= d \div MsTicks
    BY <1>1, <2>1, DivSum, ConstantsAssumption, Zenon
  <2>4. timer_milliseconds(d) = (d - now) \div MsTicks + 1
    BY <1>4, <2>2 DEF timer_milliseconds, milliseconds_until
  <2>5. Bound(f) = d \div MsTicks + 1
    BY <2>1 DEF Bound
  <2> QED BY <1>1, <1>2, <2>2, <2>3, <2>4, <2>5
<1>5. timer_milliseconds(d) \in Nat
  BY <1>1, MillisecondsType
<1>6. loop_time + timer_milliseconds(d) \in Nat
  BY <1>1, <1>5
<1> QED BY <1>3, <1>4, <1>6

\* Bound is monotone in the deadline.
LEMMA BoundOfEarliest ==
  ASSUME TypeOK, NEW f \in Fibers, NEW g \in Fibers, deadline[f] <= deadline[g]
  PROVE  Bound(f) <= Bound(g)
<1> DEFINE a == IF deadline[f] > now THEN deadline[f] ELSE now
           b == IF deadline[g] > now THEN deadline[g] ELSE now
<1>1. now \in Nat /\ deadline[f] \in Nat /\ deadline[g] \in Nat
  BY ConstantsAssumption DEF TypeOK
<1>2. a \in Nat /\ b \in Nat /\ a <= b
  BY <1>1
<1>3. a \div MsTicks <= b \div MsTicks /\ a \div MsTicks \in Nat /\ b \div MsTicks \in Nat
  BY <1>2, DivMonotone, DivBounds, ConstantsAssumption
<1> QED BY <1>3 DEF Bound

\* As time passes, neither Bound nor the present millisecond decreases.
LEMMA BoundOverTime ==
  ASSUME TypeOK, tick
  PROVE  /\ now \div MsTicks <= now' \div MsTicks
         /\ \A f \in Fibers : Bound(f) \in Int /\ Bound(f)' \in Int /\ Bound(f) <= Bound(f)'
<1>1. now \in Nat /\ now' \in Nat /\ now <= now' /\ deadline' = deadline
  BY ConstantsAssumption DEF TypeOK, tick, fiberVars
<1>2. ASSUME NEW f \in Fibers
      PROVE  Bound(f) \in Int /\ Bound(f)' \in Int /\ Bound(f) <= Bound(f)'
  <2> DEFINE a == IF deadline[f] > now THEN deadline[f] ELSE now
             b == IF deadline[f] > now' THEN deadline[f] ELSE now'
  <2>1. deadline[f] \in Nat
    BY DEF TypeOK
  <2>2. a \in Nat /\ b \in Nat /\ a <= b
    BY <1>1, <2>1
  <2>3. a \div MsTicks <= b \div MsTicks /\ a \div MsTicks \in Nat /\ b \div MsTicks \in Nat
    BY <2>2, DivMonotone, DivBounds, ConstantsAssumption
  <2>4. Bound(f) = a \div MsTicks + 1 /\ Bound(f)' = b \div MsTicks + 1
    BY <1>1 DEF Bound
  <2> HIDE DEF a, b
  <2> QED BY <2>3, <2>4
<1> QED BY <1>1, <1>2, DivMonotone, ConstantsAssumption, Zenon

\* Every step preserves TimerInv.
LEMMA TimerInvStep == TypeInv /\ TimerInv /\ [Next]_vars => TimerInv'
<1> SUFFICES ASSUME TypeInv, TimerInv, [Next]_vars PROVE TimerInv'
  OBVIOUS
<1> USE ConstantsAssumption
<1> USE DEF TimerInv, TimerStaysInFrame, Running, Sleepers, flagVars, algoVars, frameVars, uvVars,
            fiberVars, otherVars
<1>0. /\ TypeOK
      /\ active # Dispatcher => pc = "dispatch"
      /\ timer_done \in BOOLEAN /\ async_ \in BOOLEAN
      /\ timer_ \in Nat \cup {NoTimer}
  BY DEF TypeInv, TypeOK, DispatcherQueued
<1>1. ASSUME NEW f \in Fibers,
             \/ \E g \in Fibers : launch(f, g) \/ set_value(f, g)
             \/ yield(f) \/ await_promise(f) \/ await_io(f) \/ use_on_this_thread(f) \/ finish(f)
             \/ \E d \in 0..MaxSleep : sleep_for(f, d)
      PROVE  TimerInv'
  <2>1. /\ active # Dispatcher
        /\ UNCHANGED <<frameVars, uvVars, pc, otherVars>>
    BY <1>1, ZenonT(30) DEF launch, set_value, yield, await_promise, await_io, use_on_this_thread, finish,
                sleep_for, Performs
  <2> QED BY <1>0, <2>1, ZenonT(30)
<1>2. CASE remote_ready2ready \/ sleep2ready_end \/ nothing_ready \/ resume
  BY <1>2 DEF remote_ready2ready, sleep2ready_end, nothing_ready, resume, At
<1>3. ASSUME NEW f \in Fibers, sleep2ready(f)
      PROVE  TimerInv'
  BY <1>3 DEF sleep2ready, At
<1>4. CASE suspend_enter \/ suspend_exit
  BY <1>4 DEF suspend_enter, suspend_exit, At
<1>5. CASE start_timer
  <2>1. /\ timer_done' = FALSE /\ pc' = "uv_timers" /\ timer_ = NoTimer
        /\ UNCHANGED <<loop_time, wait, deadline, now, active>>
    BY <1>5, Zenon DEF start_timer, At
  <2>2. CASE Sleepers = {} /\ UNCHANGED timer_
    BY <2>1, <2>2
  <2>3. ASSUME NEW f \in Sleepers, Earliest(f), timer_set' = TRUE,
               timer_' = loop_time + timer_milliseconds(deadline[f])
        PROVE  TimerInv'
    <3>1. timer_' <= Bound(f)
      BY <1>0, <2>3, StartedTimerBound, Zenon
    <3>2. timer_' \in Nat
      BY <1>0, <2>3, StartedTimerBound, Zenon
    <3>3. ASSUME NEW g \in Sleepers PROVE timer_' <= Bound(g)'
      <4>1. Bound(f) <= Bound(g)
        <5>1. deadline[f] <= deadline[g] /\ f \in Fibers /\ g \in Fibers
          BY <2>3, <3>3, ZenonT(30) DEF Earliest
        <5> QED BY <1>0, <5>1, BoundOfEarliest, Zenon
      <4>2. Bound(f) \in Int /\ Bound(g) \in Int
        <5>1. \A h \in Fibers : deadline[h] \in Nat
          BY <1>0 DEF TypeOK
        <5>2. now \in Nat
          BY <1>0 DEF TypeOK
        <5> QED BY <5>1, <5>2, DivBounds DEF Bound
      <4>3. Bound(g)' = Bound(g)
        BY <2>1 DEF Bound
      <4> QED BY <3>1, <3>2, <4>1, <4>2, <4>3
    <3>4. active = Dispatcher /\ active' = Dispatcher /\ Sleepers' = Sleepers
      BY <1>5, <2>1 DEF start_timer, At
    <3>5. timer_' # NoTimer
      BY <3>2 DEF NoTimer
    <3>6. TimerStaysInFrame'
      BY <2>1, <2>3, <3>4
    <3>7. loop_time' <= now' \div MsTicks
      BY <2>1
    <3>8. \A g \in Sleepers' : timer_' # NoTimer /\ timer_' <= Bound(g)'
      BY <3>3, <3>4, <3>5, ZenonT(30)
    <3> HIDE DEF TimerStaysInFrame, Sleepers
    <3> QED BY <2>1, <3>6, <3>7, <3>8
  <2> QED BY <1>5, <2>2, <2>3, Zenon DEF start_timer
<1>6. CASE check
  BY <1>6, ZenonT(30) DEF check, leave, timer_on_return, At, Bound
<1>7. CASE uv_timers
  <2> DEFINE fires == timer_ # NoTimer /\ timer_ <= now \div MsTicks
  <2>1. /\ timer_done' = (timer_done \/ fires) /\ async_' = (async_ \/ fires)
        /\ timer_' = IF fires THEN NoTimer ELSE timer_
        /\ loop_time' = now \div MsTicks
        /\ pc = "uv_timers" /\ pc' = "uv_poll" /\ active = Dispatcher
        /\ UNCHANGED <<timer_set, wait, deadline, now, active>>
    BY <1>7, Zenon DEF uv_timers, uv_run_timers, suspend_timer_callback, At
  <2>2. \A f \in Fibers : Bound(f)' = Bound(f)
    BY <2>1 DEF Bound
  <2>3. now \div MsTicks \in Nat
    BY <1>0, DivBounds DEF TypeOK
  <2> HIDE DEF fires
  <2>4. CASE fires
    <3>1. timer_done' = TRUE /\ async_' = TRUE /\ timer_' = NoTimer
      BY <2>1, <2>4, Zenon
    <3> QED BY <2>1, <2>3, <3>1
  <2>5. CASE ~fires
    BY <1>0, <2>1, <2>2, <2>3, <2>5
  <2> QED BY <2>4, <2>5
<1>8. CASE uv_timers_again
  <2> DEFINE fires == timer_ # NoTimer /\ timer_ <= now \div MsTicks
  <2>1. /\ timer_done' = (timer_done \/ fires)
        /\ timer_' = IF fires THEN NoTimer ELSE timer_
        /\ loop_time' = now \div MsTicks
        /\ pc = "uv_timers_again" /\ pc' = "check" /\ active = Dispatcher
        /\ UNCHANGED <<timer_set, wait, deadline, now, active>>
    BY <1>8, ZenonT(30) DEF uv_timers_again, uv_run_timers, suspend_timer_callback, At
  <2>2. \A f \in Fibers : Bound(f)' = Bound(f)
    BY <2>1 DEF Bound
  <2>3. now \div MsTicks \in Nat
    BY <1>0, DivBounds DEF TypeOK
  <2> HIDE DEF fires
  <2>4. CASE fires
    <3>1. timer_done' = TRUE /\ timer_' = NoTimer
      BY <2>1, <2>4, Zenon
    <3> QED BY <2>1, <2>3, <3>1
  <2>5. CASE ~fires
    BY <1>0, <2>1, <2>2, <2>3, <2>5
  <2> QED BY <2>4, <2>5
<1>9. CASE uv_poll \/ uv_io_end
  BY <1>9 DEF uv_poll, uv_io_end, At, Bound
<1>10. ASSUME NEW f \in Fibers, uv_io_callback(f)
       PROVE  TimerInv'
  <2>1. /\ pc = "uv_io" /\ pc' = "uv_io"
        /\ UNCHANGED <<frameVars, timer_, loop_time, deadline, active, now>>
    BY <1>10, ZenonT(30) DEF uv_io_callback, At
  <2>2. \A g \in Fibers : wait'[g] = "sleep" => wait[g] = "sleep"
    BY <1>0, <1>10 DEF uv_io_callback, TypeOK
  <2> QED BY <2>1, <2>2 DEF Bound
<1>11. ASSUME NEW t \in Threads, notify(t)
       PROVE  TimerInv'
  <2>1. /\ UNCHANGED <<frameVars, timer_, loop_time, fiberVars, pc, active, now>>
        /\ async_ => async_'
    BY <1>11 DEF notify, update_notify, notify_send
  <2>2. \A g \in Fibers : Bound(g)' = Bound(g)
    BY <2>1, ZenonT(30) DEF Bound
  <2> QED BY <2>1, <2>2
<1>12. ASSUME NEW t \in Threads, NEW f \in Fibers, remote_set_value(t, f)
       PROVE  TimerInv'
  <2>1. UNCHANGED <<frameVars, uvVars, deadline, pc, active, now>>
    BY <1>12, ZenonT(30) DEF remote_set_value
  <2>2. \A g \in Fibers : wait'[g] = "sleep" => wait[g] = "sleep"
    BY <1>0, <1>12, ZenonT(30) DEF remote_set_value, TypeOK
  <2> QED BY <2>1, <2>2 DEF Bound
<1>13. ASSUME NEW f \in Fibers, io_complete(f)
       PROVE  TimerInv'
  BY <1>13 DEF io_complete, Bound
<1>14. CASE tick
  <2>1. UNCHANGED <<frameVars, uvVars, fiberVars, pc, active>>
    BY <1>14 DEF tick
  <2>2. loop_time' <= now' \div MsTicks
    <3>1. now \in Nat /\ now' \in Nat /\ loop_time \in Nat
      BY <1>0, <1>14 DEF tick, TypeOK
    <3>2. now \div MsTicks \in Nat /\ now' \div MsTicks \in Nat
      BY <3>1, DivBounds, Zenon
    <3>3. now \div MsTicks <= now' \div MsTicks
      BY <1>0, <1>14, BoundOverTime
    <3>4. loop_time <= now \div MsTicks /\ loop_time' = loop_time
      BY <2>1
    <3> DEFINE a == now \div MsTicks
               b == now' \div MsTicks
    <3> HIDE DEF a, b
    <3>5. a \in Nat /\ b \in Nat /\ a <= b /\ loop_time <= a
      BY <3>2, <3>3, <3>4 DEF a, b
    <3>6. loop_time <= b
      BY <3>1, <3>5
    <3> QED BY <3>4, <3>6, ZenonT(30) DEF b
  <2>3. \A f \in Fibers : timer_ \in Nat /\ timer_ <= Bound(f) => timer_ <= Bound(f)'
    BY <1>0, <1>14, BoundOverTime
  <2> QED BY <1>0, <2>1, <2>2, <2>3
<1>15. CASE UNCHANGED vars
  BY <1>15 DEF vars, Bound
<1> QED
  BY <1>1, <1>2, <1>3, <1>4, <1>5, <1>6, <1>7, <1>8, <1>9, <1>10, <1>11, <1>12, <1>13, <1>14,
     <1>15, Zenon
     DEF Next, LoopThread, FiberStep, DispatcherStep, SuspendStep, UvStep, Stopped

\* The timer never fires into a frame of suspend_until that has returned.
THEOREM TimerNeverDangles == Spec => []TimerStaysInFrame
<1>1. TimerInv => TimerStaysInFrame
  BY DEF TimerInv
<1> QED BY <1>1, TypeInvInit, TypeInvStep, TimerInvInit, TimerInvStep, PTL DEF Spec

\* While the thread polls, every sleeper has a wake-up pending or a timer that
\* expires in time, for every length of a millisecond and every sleep.
THEOREM SleepersCovered == Spec => []TimerCoversSleepers
<1>1. TimerInv => TimerCoversSleepers
  BY DEF TimerInv, TimerCoversSleepers, Parked, Running, Bound
<1> QED BY <1>1, TypeInvInit, TypeInvStep, TimerInvInit, TimerInvStep, PTL DEF Spec
-----------------------------------------------------------------------------
(* First-in first-out.                                                      *)

\* What a step may do with the ready queue and the running context.
QueueSteps ==
  \/ UNCHANGED <<queue_, active>>
  \/ \E r \in Seq(Contexts) : queue_' = queue_ \o r /\ UNCHANGED active
  \/ \E c \in Contexts : queue_' = awakened(queue_, c) /\ UNCHANGED active
  \/ SwitchTo(queue_)
  \/ \E c \in Contexts : active' = pick_next(queue_) /\ queue_' = awakened(pop(queue_), c)

\* Every step of the scheduler is one of these.
LEMMA QueueStep == TypeInv /\ [Next]_vars => QueueSteps
<1> SUFFICES ASSUME TypeInv, [Next]_vars PROVE QueueSteps
  OBVIOUS
<1> USE DEF algoVars, otherVars
<1>0. remote_ready \in Seq(Contexts) /\ Fibers \subseteq Contexts /\ Dispatcher \in Contexts
  <2>1. Fibers \subseteq Contexts /\ Dispatcher \in Contexts
    BY DEF Contexts
  <2> QED BY <2>1 DEF TypeInv, TypeOK
<1>1. ASSUME NEW f \in Fibers, NEW g \in Fibers, launch(f, g) \/ set_value(f, g) PROVE QueueSteps
  BY <1>0, <1>1, Zenon DEF launch, set_value, QueueSteps
<1>2. ASSUME NEW f \in Fibers, yield(f) PROVE QueueSteps
  BY <1>0, <1>2, Zenon DEF yield, QueueSteps
<1>3. ASSUME NEW f \in Fibers,
             await_promise(f) \/ (\E d \in 0..MaxSleep : sleep_for(f, d)) \/ await_io(f) \/ finish(f)
      PROVE  QueueSteps
  BY <1>3, Zenon DEF await_promise, sleep_for, await_io, finish, QueueSteps
<1>4. ASSUME NEW f \in Fibers, use_on_this_thread(f) PROVE QueueSteps
  BY <1>4 DEF use_on_this_thread, QueueSteps
<1>5. CASE remote_ready2ready
  BY <1>0, <1>5, Zenon DEF remote_ready2ready, QueueSteps
<1>6. ASSUME NEW f \in Fibers, sleep2ready(f) \/ uv_io_callback(f) PROVE QueueSteps
  BY <1>0, <1>6, Zenon DEF sleep2ready, uv_io_callback, QueueSteps
<1>7. CASE resume
  BY <1>0, <1>7, ZenonT(30) DEF resume, QueueSteps
<1>8. CASE sleep2ready_end \/ nothing_ready \/ SuspendStep
  BY <1>8, ZenonT(30) DEF sleep2ready_end, nothing_ready, SuspendStep, suspend_enter, start_timer, check,
              suspend_exit, QueueSteps
<1>9. CASE uv_timers \/ uv_poll \/ uv_io_end \/ uv_timers_again
  BY <1>9 DEF uv_timers, uv_poll, uv_io_end, uv_timers_again, uv_run_timers, QueueSteps
<1>10. CASE (\E t \in Threads : notify(t)) \/ (\E t \in Threads, f \in Fibers : remote_set_value(t, f))
  BY <1>10 DEF notify, update_notify, notify_send, remote_set_value, QueueSteps
<1>11. CASE (\E f \in Fibers : io_complete(f)) \/ tick \/ Stopped \/ UNCHANGED vars
  BY <1>11 DEF io_complete, tick, Stopped, vars, QueueSteps
<1> QED
  BY <1>1, <1>2, <1>3, <1>4, <1>5, <1>6, <1>7, <1>8, <1>9, <1>10, <1>11, Zenon
     DEF Next, LoopThread, FiberStep, DispatcherStep, UvStep

\* None of them lets a context overtake one that is ready.
LEMMA OrderKept ==
  ASSUME queue_ \in Seq(Contexts), QueueSteps
  PROVE  KeepsOrder
<1> SUFFICES ASSUME NEW c \in Contexts, NEW d \in Contexts,
                    c # d, Queued(queue_, c), ~Before(queue_, d, c)
             PROVE  /\ active' = d => active = d
                    /\ Queued(queue_', d) /\ active' # c => Before(queue_', c, d)
  BY DEF KeepsOrder
<1>0. Queued(queue_, d) => Before(queue_, c, d)
  BY OrderTotal, Zenon
<1>1. CASE UNCHANGED <<queue_, active>>
  BY <1>0, <1>1
<1>2. ASSUME NEW r \in Seq(Contexts), queue_' = queue_ \o r, UNCHANGED active
      PROVE  Queued(queue_', d) => Before(queue_', c, d)
  BY <1>0, <1>2, JoinedOrder, Zenon
<1>3. ASSUME NEW e \in Contexts, queue_' = awakened(queue_, e), UNCHANGED active
      PROVE  Queued(queue_', d) => Before(queue_', c, d)
  BY <1>0, <1>3, AwakenedOrder, Zenon
<1>4. /\ pick_next(queue_) # d
      /\ pop(queue_) \in Seq(Contexts)
      /\ pick_next(queue_) # c =>
           Queued(pop(queue_), c) /\ (Queued(pop(queue_), d) => Before(pop(queue_), c, d))
  BY PoppedOrder, Zenon
<1>5. CASE SwitchTo(queue_)
  BY <1>4, <1>5, Zenon DEF SwitchTo
<1>6. ASSUME NEW e \in Contexts, active' = pick_next(queue_), queue_' = awakened(pop(queue_), e)
      PROVE  /\ active' # d
             /\ Queued(queue_', d) /\ active' # c => Before(queue_', c, d)
  BY <1>4, <1>6, AwakenedOrder, Zenon
<1> QED BY <1>1, <1>2, <1>3, <1>5, <1>6, Zenon DEF QueueSteps

\* A context that is ready runs before all that were not ready before it, on
\* every thread: awakened and pick_next share one first-in first-out queue.
THEOREM FirstInFirstOut == Spec => NoOvertaking
<1>1. TypeInv /\ [Next]_vars => [KeepsOrder]_vars
  BY QueueStep, OrderKept DEF TypeInv, TypeOK
<1> QED BY <1>1, TypeInvInit, TypeInvStep, PTL DEF Spec, NoOvertaking
=============================================================================
