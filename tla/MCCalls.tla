------------------------------- MODULE MCCalls ------------------------------
(***************************************************************************)
(* Calls, as three parts that have no variable and no lock in common: the  *)
(* calls, callbacks and copies of a thread in its sandboxes (Sandbox), the *)
(* parameters that are passed in the arena (Arena), and the registry and   *)
(* the stubs that callbacks come back through (Callbacks).  A step of one  *)
(* part neither enables, disables nor changes anything of another, so a    *)
(* behaviour is about one of them, chosen at the start.                    *)
(*                                                                         *)
(* Sandbox: two threads, a process and a passthrough sandbox, and blocks   *)
(* of one and a half pages: copies of no, of one and of two pieces, the    *)
(* last one full or not.                                                   *)
(*                                                                         *)
(* Arena: two variables, of one and of three bytes, pieces of a multiple   *)
(* of two, and an arena of eight: there is room for both of them and, in a *)
(* later call with the same context, once more for the first alone.        *)
(*                                                                         *)
(* Callbacks: two threads register two functions in a registry of three    *)
(* slots: it fills up, and a function may be registered more than once.    *)
(***************************************************************************)
EXTENDS Sandbox, Arena, Callbacks, TLC

CONSTANTS a, b

Size == (a :> 1) @@ (b :> 3)

Symmetric == Permutations(Threads)

VARIABLE part  \* what the behaviour is about

callsVars == <<part, vars, arenaVars, callbackVars>>

CallsInit == /\ part \in {"sandbox", "arena", "callbacks"}
             /\ Init /\ ArenaInit /\ CallbackInit

CallsNext ==
  /\ UNCHANGED part
  /\ \/ part = "sandbox" /\ Next /\ UNCHANGED <<arenaVars, callbackVars>>
     \/ part = "arena" /\ ArenaNext /\ UNCHANGED <<vars, callbackVars>>
     \/ part = "callbacks" /\ CallbackNext /\ UNCHANGED <<vars, arenaVars>>

CallsSpec == CallsInit /\ [][CallsNext]_callsVars
=============================================================================
