------------------------- MODULE MCServerSocketImpl -------------------------
(* ServerSocketImpl for TLC; the fibers that share the socket are            *)
(* interchangeable, and so are the addresses.                                *)
EXTENDS ServerSocketImpl, TLC

Symmetry == Permutations(Fibers) \cup Permutations(Names) \cup Permutations(Addresses)
=============================================================================
