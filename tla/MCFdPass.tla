------------------------------ MODULE MCFdPass ------------------------------
(***************************************************************************)
(* Two threads, three host descriptors of which one is in the direct table *)
(* and two in the overflow vector, and a sandbox with room for three: it   *)
(* can be full, and numbers are used again after a close.                  *)
(***************************************************************************)
EXTENDS FdPass, TLC

\* No number is made from a thread or a file, and nothing is chosen by order.
Symmetry == Permutations(Threads) \cup Permutations(Files)
=============================================================================
