------------------------ MODULE CooperativeScheduler ------------------------
(***************************************************************************)
(* What the fiberio scheduler promises to the fibers of a thread, without  *)
(* ready queue, dispatcher, timer, event loop or notification: at most one *)
(* fiber runs, it runs until it gives up the thread itself, and a fiber    *)
(* that waits becomes runnable only when what it waits for has happened.   *)
(* FiberScheduler implements this specification.                           *)
(***************************************************************************)
EXTENDS Integers

CONSTANTS
  Fibers,
  Main,       \* the fiber that runs the thread's own function
  Nobody      \* stands for the running fiber when none runs

VARIABLES
  running,    \* the fiber that runs, or Nobody
  wait,       \* what each fiber waits for; "none" if it can run
  deadline,   \* until when a sleeping fiber sleeps; 0 if it does not
  completed,  \* fibers whose awaited request is complete
  now         \* the clock

vars == <<running, wait, deadline, completed, now>>

Init ==
  /\ running = Main
  /\ wait = [f \in Fibers |-> IF f = Main THEN "none" ELSE "new"]
  /\ deadline = [f \in Fibers |-> 0]
  /\ completed = {}
  /\ now = 0

Becomes(f, w) == wait' = [wait EXCEPT ![f] = w]

\* The running fiber starts another one.
Launch(g) ==
  /\ running # Nobody
  /\ wait[g] = "new"
  /\ Becomes(g, "none")
  /\ UNCHANGED <<running, deadline, completed, now>>

\* The running fiber gives up the thread, to another runnable fiber or to none.
Leave(f, w) ==
  /\ running = f
  /\ running' = Nobody \/ \E g \in Fibers \ {f} : wait[g] = "none" /\ running' = g
  /\ Becomes(f, w)
  /\ UNCHANGED <<completed, now>>

Yield(f) == Leave(f, "none") /\ UNCHANGED deadline

Wait(f) == (\E w \in {"promise", "io", "done"} : Leave(f, w)) /\ UNCHANGED deadline

Sleep(f) ==
  /\ Leave(f, "sleep")
  /\ deadline'[f] >= now
  /\ deadline' = [deadline EXCEPT ![f] = deadline'[f]]

\* A promise is set, by a fiber or by another thread, at any time.
SetValue(g) ==
  /\ wait[g] = "promise"
  /\ Becomes(g, "none")
  /\ UNCHANGED <<running, deadline, completed, now>>

\* A request completes; its fiber can run once the event loop has seen it.
Complete(g) ==
  /\ wait[g] = "io"
  /\ completed' = completed \cup {g}
  /\ UNCHANGED <<running, wait, deadline, now>>

ReportIo(g) ==
  /\ running = Nobody
  /\ g \in completed
  /\ wait[g] = "io"
  /\ Becomes(g, "none")
  /\ completed' = completed \ {g}
  /\ UNCHANGED <<running, deadline, now>>

\* No sleeper wakes before its deadline.
WakeUp(g) ==
  /\ running = Nobody
  /\ wait[g] = "sleep"
  /\ deadline[g] <= now
  /\ Becomes(g, "none")
  /\ deadline' = [deadline EXCEPT ![g] = 0]
  /\ UNCHANGED <<running, completed, now>>

Run(g) ==
  /\ running = Nobody
  /\ wait[g] = "none"
  /\ running' = g
  /\ UNCHANGED <<wait, deadline, completed, now>>

Tick ==
  /\ now' = now + 1
  /\ UNCHANGED <<running, wait, deadline, completed>>

Next ==
  \/ \E f \in Fibers :
       \/ Launch(f) \/ SetValue(f) \/ Complete(f)
       \/ Yield(f) \/ Wait(f) \/ Sleep(f)
       \/ ReportIo(f) \/ WakeUp(f) \/ Run(f)
  \/ Tick

Spec == Init /\ [][Next]_vars

\* Every fiber that can run does run.
ReadyRuns == \A f \in Fibers : wait[f] = "none" ~> running = f

\* Every sleeper runs again.
SleeperRuns == \A f \in Fibers : wait[f] = "sleep" ~> running = f
=============================================================================
