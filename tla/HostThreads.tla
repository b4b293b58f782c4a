----------------------------- MODULE HostThreads -----------------------------
(***************************************************************************)
(* The threads of the host program, which the models that are run together *)
(* have in common.                                                         *)
(***************************************************************************)
CONSTANT Threads
=============================================================================
