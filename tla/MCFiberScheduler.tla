-------------------------- MODULE MCFiberScheduler --------------------------
(* FiberScheduler for TLC.  Fibers other than Main are interchangeable, and *)
(* so are the other threads.                                                *)
EXTENDS FiberScheduler, TLC

Symmetry == Permutations(Fibers \ {Main}) \cup Permutations(Threads)
=============================================================================
