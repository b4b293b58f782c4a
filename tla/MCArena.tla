------------------------------ MODULE MCArena ------------------------------
(***************************************************************************)
(* Two variables, of one and of three bytes, pieces of a multiple of two,  *)
(* and an arena of eight: there is room for both of them and, in a later   *)
(* call with the same context, once more for the first alone.              *)
(***************************************************************************)
EXTENDS Arena, TLC

CONSTANTS a, b

Size == (a :> 1) @@ (b :> 3)
=============================================================================
