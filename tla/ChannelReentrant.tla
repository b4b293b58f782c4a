-------------------------- MODULE ChannelReentrant --------------------------
(***************************************************************************)
(* Channel with host callbacks that call into the sandbox again, on the    *)
(* same thread and hence on the same channel: nothing in pbox_call asks    *)
(* whether the worker is in the middle of a callback.  The frames of the   *)
(* interrupted host callbacks are on a stack; every other step is one of   *)
(* Channel.                                                                *)
(***************************************************************************)
EXTENDS Channel

CONSTANT MaxDepth   \* bound on the nesting of calls

VARIABLE stack      \* interrupted callbacks of the host, innermost last

InitReentrant == Init /\ stack = <<>>

\* The callback calls pbox_call: get_or_create_channel finds the channel of
\* the thread and the request is packed over whatever the page holds.
NestedBegin(r) == /\ hpc = "in_cb"
                  /\ Len(stack) < MaxDepth
                  /\ stack' = Append(stack, [req |-> hreq, cb |-> hcb,
                                             given |-> given])
                  /\ hpc' = "pack"
                  /\ hreq' = r
                  /\ hcb' = None
                  /\ given' = <<>>
                  /\ UNCHANGED <<chan, hcur, got, worker>>

\* The nested call has returned and the callback goes on.
NestedReturn == /\ hpc = "ready"
                /\ stack # <<>>
                /\ LET top == stack[Len(stack)]
                   IN  /\ hreq' = top.req
                       /\ hcb' = top.cb
                       /\ given' = top.given
                /\ stack' = SubSeq(stack, 1, Len(stack) - 1)
                /\ hpc' = "in_cb"
                /\ UNCHANGED <<chan, hcur, got, worker>>

Outermost == stack = <<>>

NextReentrant ==
  \/ \E r \in Requests : NestedBegin(r)
  \/ NestedReturn
  \/ /\ UNCHANGED stack
     /\ \/ Outermost /\ \E r \in Requests : Begin(r)
        \/ Outermost /\ BeginExit
        \/ HostStep \/ WorkerStep \/ Spurious \/ Terminated

SpecReentrant == InitReentrant /\ [][NextReentrant]_<<vars, stack>>

\* "The API for running the library with any of these backends is the same"
\* (README.md), and a callback of the passthrough backend may call into the
\* sandbox (test_passthrough_reentrant.cc): every call, nested or not, gets
\* the result of its own request, computed from the answers given to it.
NestedCallGetsOwnResult == hpc = "read" => Delivered = Ret(hreq, given)
=============================================================================
