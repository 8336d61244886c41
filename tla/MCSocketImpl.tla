---------------------------- MODULE MCSocketImpl ----------------------------
(* SocketImpl for TLC; the fibers that share the socket are interchangeable. *)
EXTENDS SocketReads, TLC

Symmetry == Permutations(Fibers)
=============================================================================
