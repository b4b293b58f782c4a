---------------------------- MODULE MCCallbacks ----------------------------
(***************************************************************************)
(* Two threads register two functions in a registry of three slots: it     *)
(* fills up, and a function may be registered more than once.              *)
(***************************************************************************)
EXTENDS Callbacks
=============================================================================
