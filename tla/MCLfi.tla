------------------------------- MODULE MCLfi --------------------------------
(***************************************************************************)
(* Two threads, two sandboxes.  Types of four and of sixteen bytes, the    *)
(* second aligned to sixteen, and functions without spilled arguments, and *)
(* with three of them, so that every combination of padding occurs.        *)
(***************************************************************************)
EXTENDS Lfi, TLC

Types == {[size |-> 4, align |-> 4], [size |-> 16, align |-> 16]}
Sigs  == {[ints |-> 2, floats |-> 0], [ints |-> 9, floats |-> 1]}
Ctxs  == Threads \X Sandboxes

Symmetric == Permutations(Threads) \cup Permutations(Sandboxes)
               \cup Permutations(Boxes)
=============================================================================
