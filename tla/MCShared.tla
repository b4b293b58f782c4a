------------------------------ MODULE MCShared ------------------------------
(***************************************************************************)
(* What the host and the sandbox share, as three parts that have no        *)
(* variable and no lock in common: the regions with the same address in    *)
(* both (IdentityMap), the descriptors that the sandbox received (FdPass)  *)
(* and arg_storage, with what the sandbox makes of it (Marshal).  A step   *)
(* of one part neither enables, disables nor changes anything of another,  *)
(* so a behaviour is about one of them, chosen at the start.               *)
(*                                                                         *)
(* IdentityMap: two threads make regions of one or two pages in address    *)
(* spaces of four, in each of which one more page may be in other use at a *)
(* time: room for both regions, or not.  Of the candidates two start a     *)
(* free range of any length, the last one only a short one.                *)
(*                                                                         *)
(* FdPass: two threads, three host descriptors of which one is in the      *)
(* direct table and two in the overflow vector, and a sandbox with room    *)
(* for three: it can be full, and numbers are used again after a close.    *)
(*                                                                         *)
(* Marshal: the sizes of the x86-64 build, with one type of each class:    *)
(* every signature of up to ten arguments, among them those that use all   *)
(* the registers of a class and all four stack words.  arg_storage has the *)
(* least size that the static assertion allows.                            *)
(***************************************************************************)
EXTENDS IdentityMap, FdPass, Marshal, TLC

CONSTANTS UINT8, DOUBLE

SizeOfType == (UINT8 :> 1) @@ (DOUBLE :> 8)

Searched == <<2, 0, 1>>

\* No number is made from a thread or a file, and nothing is chosen by order.
Symmetry == Permutations(Threads) \cup Permutations(Files)

VARIABLE part  \* what the behaviour is about

sharedVars == <<part, vars, fdVars, marshalVars>>

\* Where a behaviour is not about it, marshalling starts only one way.
SharedInit == /\ part \in {"identity", "fds", "marshal"}
              /\ Init /\ FdInit /\ MarshalInit
              /\ part # "marshal" => sig = <<>> /\ phase = "pack"

SharedNext ==
  /\ UNCHANGED part
  /\ \/ part = "identity" /\ Next /\ UNCHANGED <<fdVars, marshalVars>>
     \/ part = "fds" /\ FdNext /\ UNCHANGED <<vars, marshalVars>>
     \/ part = "marshal" /\ MarshalNext /\ UNCHANGED <<vars, fdVars>>

SharedSpec == SharedInit /\ [][SharedNext]_sharedVars
=============================================================================
