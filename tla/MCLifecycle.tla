---------------------------- MODULE MCLifecycle ----------------------------
(***************************************************************************)
(* The creating thread and two more, which create their channels at the    *)
(* same time, call, and exit.  Two symbols stand for the eight: the loop   *)
(* over them has a first and a last turn.                                  *)
(***************************************************************************)
EXTENDS Lifecycle
=============================================================================
