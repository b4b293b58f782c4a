----------------------------- MODULE MCSandbox ------------------------------
(***************************************************************************)
(* One thread and two processes, for a callback of the first in which the  *)
(* host program calls the second and returns to the first.                 *)
(***************************************************************************)
EXTENDS Sandbox
=============================================================================
