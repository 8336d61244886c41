# TLA+ models of fiberio

fiberio runs Boost.Fiber fibers on one OS thread on top of libuv. This directory
models its scheduler, the life of a thread's event loop, its two kinds of sockets
and the stream calls built on them. TLC checks the models on small instances, and
TLAPS proves the safety properties for every instance. Paths below are
relative to the repository.

## The system

| Part | Source | Role | Model |
|---|---|---|---|
| scheduler | `src/scheduler.cpp` | Boost.Fiber algorithm: ready queue, `suspend_until` running the uv loop, `notify` from other threads | `FiberScheduler` |
| fiberio | `src/fiberio.cpp` | `use_on_this_thread` installs the scheduler | initial state and an action of `FiberScheduler` |
| loop | `src/loop.cpp` | thread-local uv loop, timer and async handle | `ThreadLoop` |
| socket_impl | `src/socket_impl.cpp` | connect, read, write, close of a TCP socket, and its libuv callbacks | `SocketImpl` |
| socket | `src/socket.cpp` | public wrapper; `read_string`, `read_exactly` | `SocketImpl`, `SocketStream` |
| socket_device | `include/fiberio/iostream.hpp` | Boost.Iostreams adapter | `SocketStream` |
| server_socket_impl, server_socket | `src/server_socket_impl.cpp`, `src/server_socket.cpp` | bind, listen, accept, close of a listening socket | `ServerSocketImpl` |
| utils | `src/utils.cpp` | `close_handle`, `check_uv_status` | in the socket modules and `ThreadLoop`; `UvStatus` |
| addrinfo | `src/addrinfo.cpp` | `getaddrinfo` as a fiber-suspending call | in both socket modules |
| exceptions | `include/fiberio/exceptions.hpp` | exception classes | results of calls, chosen by `UvStatus` |
| examples, docs | `examples/`, `docs/` | programs that use the library; generated HTML | not modelled |

A library call starts a libuv request whose data points at a promise on the
fiber's stack, and waits for the promise. The fiber is suspended, and when no
fiber is ready Boost's dispatcher calls `suspend_until`, which runs the uv loop.
The request's callback sets the promise, which puts the fiber back in the ready
queue. `FiberScheduler` models this cycle with requests kept abstract; the socket
modules model the requests and assume what `FiberScheduler` shows: a fiber whose
promise is set, or whose condition variable is notified, runs again.

## Modules

**CooperativeScheduler** is the abstract specification: at most one fiber runs, it
runs until it gives up the thread, and a fiber that waits becomes runnable only when
what it waits for has happened (for a sleeper: not before its deadline). It has no
queue, dispatcher, timer or loop. `ReadyRuns` and `SleeperRuns` are its liveness.

**FiberScheduler.** `queue_`, `wake_up_`, `suspended_`, `timer_`, `async_` are the
members of `scheduler`; `timer_set`, `timer_done` are locals of `suspend_until`;
`pc` is the dispatcher's position. `suspend_until` is split at the points where
another thread or the kernel can interfere: `suspend_enter`, `start_timer`, the
phases of `uv_run(UV_RUN_ONCE)`, `check` (the test after `uv_run`) and
`suspend_exit`. `notify` is split between the critical section of `update_notify`
and `uv_async_send`. Each critical section of `mutex_` is one step. The clock has
`MsTicks` ticks to a millisecond, so rounding to milliseconds and libuv's cached
loop time are represented. `Spinners` are fibers whose operations are not bounded.
`Abstract` is the refinement mapping: the running fiber is `active`, the dispatcher
stands for nobody, and a request is complete from the moment the kernel reports it.
Boost's dispatcher and libuv are external.

**ThreadLoop** extends `FiberScheduler` with `thread_uv_loop`: `make_ready` on first
use, and the destructor at thread exit. The destructor runs in the main fiber and
waits for each handle in `close_handle`, that is, it suspends and relies on the
scheduler and the loop it is taking down. `handle` follows the two handles from open
through closing to closed.

**UvStatus** is `check_uv_status`: which exception a status of libuv becomes. The results
of calls in the two socket modules are named after the exceptions.

**ByteStream** is the abstract specification of a socket as its readers see it: one
fiber reads at a time, the bytes that arrive for it are returned by that read, all and
once, and a read ends without bytes only when none have arrived or the socket has been
closed. It has no buffer, flag, condition variable or handle.

**SocketImpl.** One socket shared by several fibers. Each call is split where it
suspends: `connect` at name resolution and connection, `read` at `cond_`, `write`
at its request, `close` at shutdown and at `uv_close`. Data is a number of bytes.
`tcp_` is the handle, `peer` what the other end has done. On a handle that is
connecting, or failed to connect, libuv may refuse a request or take it, and so it
may a read on a handle that already reads (versions differ); the model allows both.
`read_string(0)` reads into an empty vector whose `data()` may be null: `buf_` is
then 0 from the start, the read is over at once and the handle keeps reading. An
exception out of the destructor terminates the program (`"terminate"`).

**SocketReads** holds the refinement mapping from `SocketImpl` to `ByteStream`,
`Stream`: the readers are the fibers that wait at `cond_`, and bytes are held from
`on_read_finished` until the reader runs.

**SocketStream** extends `SocketImpl` with the loops over `read`: `read_exactly`
(and `read_string_exactly`, which calls it) and `socket_device::read`, and with the
two-sided `socket_device::close`, whose mode may also be both directions at once, which
the code takes for neither. A loop does not give up the thread between two
reads (`running`), so no other fiber and no callback moves there, only the peer.

**AcceptQueue** is the abstract specification of a listening socket as callers of
`accept` see it: a call waits only while the open queue has nothing for it, takes one
connection or one error, and is refused only once the queue is closed. It has no
counter, condition variable or handle.

**ServerSocketImpl.** One listening socket shared by several fibers. `bind` can fail
before it suspends, in the resolver (`AddrinfoStatus`), in `uv_tcp_bind` and in
`update_address`, where libuv reports an address in use; the last two are one
alternative, since both leave the requested address in `host_`. libuv holds at
most one accepted descriptor and reports failures through the same callback.
`accept_loop` is the body of `accept`; `"unwind"` is the destruction of the new
`socket_impl` after a failed `uv_accept`, which suspends. The handler in
`on_connection` that calls `close()` is left out: nothing in its `try` block throws.
`Queue` is the refinement mapping: the queue holds what libuv holds, and what a caller
sees of a fiber follows from its call, where it waits and what it returned
(`accept_outcome`).

`MC*.tla` add symmetry for TLC. `*Proofs`, `*Refinement` and `SocketStreamLoss` hold
the proofs. Definitions marked `Fault:` are not part of the models: each is a plausible
programming error that one property has to detect when it replaces the definition
that follows it.

## Runs

| Run | Checks | Result |
|---|---|---|
| `scheduler_safety` | no lost wake-up, no poll over a ready fiber, timer covers sleepers and stays in its frame; implements `CooperativeScheduler` | holds |
| `thread_live` | ready, sleeping and remotely woken fibers run, in FIFO order, next to fibers that yield and sleep for ever, also after an early timer; I/O is served as long as the thread keeps polling; each context is in one place; the thread's exit completes and closes an idle loop | holds |
| `socket_shared` | one reader, buffer lifetime, no byte lost, on an accepted socket, with empty and null buffers and with connects and closes that overlap; implements `ByteStream` | holds |
| `socket_client` | close completes and releases every call, memory outlives libuv's use, the handle is closed once, end of stream ends a read | holds, with the caller assumptions below |
| `stream_loops` | loops read consecutive bytes, `read_exactly` fills its buffer or throws, bytes are dropped only at the end of the connection, loops and two-sided closes finish and close the handle once; implements `ByteStream` | holds |
| `server_accept` | exact count of pending connections, no accept sleeps through one, memory lifetime, close releases acceptors, an awaited connection is accepted; implements `AcceptQueue` | holds |
| `scheduler_starvation` | I/O is served whatever fibers do that yield | violated |
| `thread_exit_race` | `notify` uses the async handle and the scheduler only while they exist | violated |
| `socket_connect_race` | no connection is started on a closed socket | violated |
| `socket_broken_read` | a broken connection closes the socket | violated |
| `socket_shutdown_error` | close completes | violated |
| `server_failed_bind` | the reported address is the bound one | violated |

The violated ones are disagreements between the code and its documentation or
tests:

- `uv_run` is called only when no fiber is ready. A fiber that does nothing but
  yield, as the README of the library asks of long computations, keeps all I/O from
  being served. So do fibers that never let `suspend_until` reach the poll in other
  ways: `sleep_for(0)` in a loop, or futures that other threads fulfil at once.
  Sleepers and ready fibers are not affected: the dispatcher looks at them on every
  round (`thread_live`, in which both fibers act without end). For I/O that run shows
  `IoRunsWhenPolled`: it is served if the thread polls again and again.
- A future is ready before the thread that fulfils it has left `notify`. If the
  waiting fiber's thread then ends, `notify` uses a closed async handle. A program
  that joins the notifying thread first avoids it; waiting for the future alone does
  not, and nothing in `~thread_uv_loop` waits for the other thread.
- `connect` tests `closed_` before name resolution suspends it and not after; a
  `close` in between is followed by `uv_tcp_connect` on the closed handle. The close
  need not be a caller's: on a connected socket a read of another fiber that meets the
  end of the stream closes it too, while a second `connect` resolves.
- A read that fails on a broken connection leaves `is_open()` true.
- A shutdown error other than ENOTCONN or EBADF leaves `close` early: the handle
  stays open, waiting readers are not notified and later closes do nothing. The
  run uses ENOBUFS as an example of such a status; whether a given platform
  reports one depends on the kernel.
- A failing second `bind` changes what `get_host` and `get_port` report.

Seen while reading and not the subject of a run:

- `accept` on a closed socket throws a plain `std::runtime_error` where
  `exceptions.hpp` describes `socket_closed_error`.
- `write` lets the internal `uv_error` escape, which is not an `io_error`.
- `socket_device::read` returns only with a full buffer or at the end of the stream.

### Assumptions on callers

These restrict the passing runs. They are assumptions, not results.

- `OverlapClose = FALSE`, in `socket_client` and `stream_loops`: no `close` while a
  `connect` is resolving, and no `connect` while another one is under way or on a socket
  that has a connection (its end would let a read close the socket meanwhile).
  `CloseCompletes` and `FreedAfterClose` need it: a handle that is connected once more
  while it closes does not stay closed. `socket_connect_race` drops it, and
  `ConnectOnlyWhileOpen` then fails. `socket_shared` drops it as well, and what it
  checks holds all the same; of the proofs only two theorems have it as a hypothesis.
- `ShutdownStatus` is OK or ENOTCONN in `socket_client` and `stream_loops`, since
  `CloseCompletes` fails for others (`socket_shutdown_error`). `socket_shared`
  includes ENOBUFS.
- Fibers are joined before their thread ends. Other threads may still be inside
  `notify` then, which is what `thread_exit_race` is about.
- `use_on_this_thread` is not called again while another thread is inside `notify`:
  it would destroy the scheduler that thread uses.
- `bind` and `listen` are not called on a closed server socket, and `close` is not
  called while `bind` is resolving.
- A socket is destroyed when no fiber is inside a call on it.

### Bounds

Every bound is a constant. `scheduler_safety` uses three fibers and two threads,
`thread_live` two fibers and one thread; both have two ticks per millisecond so that
rounding and sub-millisecond sleeps occur. In `scheduler_safety` a fiber performs two
operations, enough to sleep or wait again after a wake-up; in `thread_live` both
fibers are `Spinners`, whose operations are not bounded, so that starvation is
possible wherever the code allows it. The clock stops at `MaxNow`, and `sleep_for`
takes only sleeps whose deadline it can pass by a millisecond. With `MaxNow = 5` there
is room for a fiber that runs while libuv's cached time falls behind, and then for a
timer that expires before the deadline and has to be started again. The server socket
has three fibers, where accepts compete with each other and with a closer, with two
calls each; the other socket runs have two fibers with up to three calls each, so that a
fiber can connect, read and close next to another that does the same. Loops in
`stream_loops` fill buffers of 0 and 2 bytes, so that a loop ends before its first
read, after one and after two, next to plain reads of one byte. `MaxArrivals` exceeds
one so that a connection arrives behind a failure.

Deadlock is checked in `scheduler_safety` and `socket_shared`. The runs with liveness
properties switch it off: a thread that has ended, or a destroyed socket, does stop.

### Fairness

`FiberScheduler` and `ThreadLoop` assume weak fairness of the fiberio thread, of a
thread inside `notify`, and of the clock: the operating system runs runnable threads.
Nothing obliges a promise to be set or a request to complete. The close callback of
a handle in `ThreadLoop` is not a request: libuv calls it in the next iteration of
the loop. The socket modules assume that ready fibers run, which is what `thread_live`
shows, and that libuv completes requests. The latter includes shutdown, which waits
for written data to be sent: with a peer that never reads, `close` can wait as long
as the peer does. The peer need not send, but the end of its stream is reported.

## Proofs

All theorems are for any number of fibers, threads, calls, ticks, sizes and bounds,
from the named assumption on the constants of each module. Extra assumptions are in
the last column.

| Module | Theorem | Property | Extra assumption |
|---|---|---|---|
| `FiberSchedulerProofs` | `TypeCorrect` | `TypeOK` | |
| | `WakeupNeverLost` | `NoLostWakeup` | |
| | `ReadyNeverParked` | `NeverParkedOverReady` | |
| | `TimerNeverDangles` | `TimerStaysInFrame` | |
| | `SleepersCovered` | `TimerCoversSleepers` | |
| | `FirstInFirstOut` | `NoOvertaking` | |
| `FiberSchedulerRefinement` | `ContextsConserved` | `EachContextOnce` | |
| | `SchedulerImplements` | `ImplementsAbstract` | |
| `ThreadLoopProofs` | `SafeUntilExit` | `TypeOK`, `NoLostWakeup`, `NeverParkedOverReady`, `TimerCoversSleepers`, `TimerStaysInFrame` | |
| | `ContextsConservedUntilExit` | `EachContextOnce` | |
| | `FirstInFirstOutUntilExit` | `NoOvertaking` | |
| | `ClosesIdleLoop` | `LoopClosedIdle` | |
| `SocketImplProofs` | `TypeCorrect` | `TypeOK` | |
| | `ReadersExcluded` | `OneReader` | |
| | `BuffersOutliveReads` | `BufferOutlivesRead` | |
| | `NoByteLost` | `DataAccounted` | |
| | `ClosesHandleOnce` | `HandleClosedOnce`, of `Spec` | |
| | `ClosesCompletely` | `CloseCompletes` | `OverlapClose = FALSE`, `ShutdownsSucceed` |
| | `FreesAfterClose` | `FreedAfterClose` | `OverlapClose = FALSE`, `ShutdownsSucceed` |
| `SocketStreamProofs` | `LoopsContiguous` | `LoopIsContiguous` | |
| | `StreamClosesHandleOnce` | `HandleClosedOnce`, of `StreamSpec` | |
| | `FillsExactly` | `ExactlyFills` | |
| `SocketStreamLoss` | `LosesOnlyAtEnd` | `LossOnlyAtEnd` | |
| `SocketRefinement` | `SocketImplementsStream` | `ImplementsStream`, of `Spec` | |
| | `LoopsImplementStream` | `ImplementsStream`, of `StreamSpec` | |
| `ServerSocketImplProofs` | `TypeCorrect` | `TypeOK` | |
| | `CountExact` | `PendingIsExact` | |
| | `ArrivalsWake` | `NoSleepThroughConnection` | |
| | `FreesAfterClose` | `FreedAfterClose` | |
| | `ServerImplementsQueue` | `ImplementsQueue` | |

The inductive invariants:

- **Scheduler.** `TypeInv` adds to `TypeOK` that the dispatcher is queued while a fiber
  runs. Without it a fiber could suspend over an empty queue, and `pick_next` would
  have nothing to return. `NotifyInv` says that a remotely readied fiber is announced
  by `wake_up_` or by a `notify` still to set it, and that a `wake_up_` that
  `suspend_enter` did not see is followed by `async_`; the second holds because
  `suspended_` was already set when `notify` read it. `TimerInv` says that libuv's
  cached time is never ahead of the clock, so that rounding can make the timer early
  but not late, and that an expired timer has sent `async_` before the next poll.
- **Order.** `NoOvertaking` is a property of steps. `QueueSteps` lists what a step can do
  to the ready queue: nothing, add one context or several at the end, take the first,
  or both. Each keeps the order of the contexts that are queued before and after.
- **Refinement.** `PlaceInv` adds to `EachContextOnce` that only fibers that wait for
  I/O have completed requests. With it each step maps to one step of
  `CooperativeScheduler` or to none: a context taken from the queue is one that the
  abstract scheduler may run.
- **Thread exit.** To the scheduler the destructor is two more waits of the main fiber
  (`DestructorWaits`), so the invariants above hold until the thread ends. `ExitInv`
  adds what holds while the loop is taken down: no other fiber is left to be woken or
  to sleep, so no timer is started and no thread enters `notify`, and a handle that
  is closing has the main fiber waiting for its callback. It follows that each handle
  is closed when the destructor goes on.
- **Socket.** `SocketInv` has two parts that need each other: that at most one fiber
  closes and what the handle is meanwhile (`CloseInv`), and what a read in progress
  looks like (`ReadInv`). Neither assumes anything of callers. That `uv_close` is called
  once follows from `CloseInv`: `closed_` is set before `shutdown` suspends, so whoever
  comes to `uv_close` is the one fiber that found the socket open. A connect that
  overlaps a close can revive the handle (`socket_connect_race`); `ConnectInv` says
  where `connect` can be when callers avoid that. `DestroyInv` uses it and adds that the
  destructor runs alone.
- **Streams.** `LoopInv` says where a looping fiber can be and that `len_` never exceeds
  what its buffer has left. It rests on `OneReader`: while a loop waits, no other read
  takes bytes, and between its reads nothing else runs.
- **Byte stream.** `EndInv` adds that a read which is closing the socket has given
  `reading_` back, and that nobody has taken it since: `read` refuses a closed socket.
  When that read sets `len_` to 0 at its end, it cannot touch bytes held for another.
  The lemmas are about the parts of `read` and `close`, so that plain calls, loops and
  the device share them.
- **Lost bytes.** `LossInv` says what a looping fiber finds while the socket is open: its
  next read cannot be refused because of another reader, so only the end of the
  connection or of the socket makes it throw with bytes in its buffer.
- **Server socket.** `ServerInv` bounds the counters by the arrivals (`CountInv`), says
  that a pending connection has woken every waiting fiber (`WaitInv`), and ties
  `closed_` to the handle (`CloseInv`). For the refinement `CallInv` adds in which call
  a suspended fiber is. The counter being exact is what makes the test of `accept`,
  which reads `pending_connections_`, the test of `AcceptQueue`, which looks at what
  libuv holds.

Only model-checked: liveness (`ExitCompletes`, `ReadyRuns`, `SleeperRuns`,
`IoRunsWhenPolled`, `CloseReleasesAll`, `EndOfStreamEndsRead`, `LoopEnds`,
`BothDirectionsClose`, `CloseReleasesAcceptors`, `ConnectionAccepted`), since fairness
and ENABLED are beyond the prover. Every safety property of a passing run is proved.
No module uses recursion, and no theorem needs induction over data, which the prover
cannot do either.

## Not modelled

- Boost.Fiber and libuv, beyond what `src/` uses of them; both are marked external.
- Calls on a socket that is being destroyed by another fiber, and `bind` overlapping
  `close`: the code leaves them to its callers, and what they lead to is undefined.
- Fibers that are detached or migrate between threads, and Boost's timed waits.
- The contents of data, address formatting, logging, and what Boost.Iostreams does
  with the device. Copies of a `socket` share one `socket_impl`, as the fibers of the
  models do.
- `examples/` and `docs/`: uses of the library and generated pages.
