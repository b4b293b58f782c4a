----------------------------- MODULE MCChannel -----------------------------
(***************************************************************************)
(* One call that calls back up to MaxCallbacks times with one of two       *)
(* arguments, a second call, one lookup and one closure creation, in any   *)
(* order and any number of times.                                          *)
(***************************************************************************)
EXTENDS Channel
=============================================================================
