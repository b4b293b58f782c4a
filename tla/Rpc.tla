-------------------------------- MODULE Rpc --------------------------------
(***************************************************************************)
(* What a channel promises to the host thread that owns it: one request at *)
(* a time is in the hands of the sandbox, the sandboxed function may ask   *)
(* the host back (a callback) any bounded number of times before it        *)
(* returns, and what the caller gets is the result of its own request      *)
(* computed from the answers that were given to it, in order.  Nothing     *)
(* here mentions shared memory, a state word or a futex: Channel.tla is    *)
(* shown to implement this module.                                         *)
(***************************************************************************)
EXTENDS Naturals, Sequences

CONSTANTS Calls,        \* requests that run a function, which may call back
          Lookups,      \* requests the sandbox answers itself
          CbArgs,       \* arguments of callbacks
          MaxCallbacks  \* bound on the callbacks made by one call

VARIABLES phase,   \* of the conversation, see Phases
          req,     \* the request in the hands of the sandbox
          log,     \* the answers given to its callbacks so far
          asked,   \* the argument of the callback in progress
          reply,   \* the result on its way to the caller
          got      \* the last request the caller completed, and its result

rvars == <<phase, req, log, asked, reply, got>>

Phases == {"idle", "called", "asking", "returned", "closed"}

None == <<>>

\* What the host's callback computes from its argument, and what the
\* sandboxed function computes from its request and its callbacks' answers.
Answer(c) == [answer |-> c]
Ret(r, l) == [req |-> r, log |-> l]

RInit == /\ phase = "idle"
         /\ req = None
         /\ log = <<>>
         /\ asked = None
         /\ reply = None
         /\ got = None

Call(r) == /\ phase = "idle"
           /\ phase' = "called"
           /\ req' = r
           /\ UNCHANGED <<log, asked, reply, got>>

Ask(c) == /\ phase = "called"
          /\ req \in Calls
          /\ Len(log) < MaxCallbacks
          /\ phase' = "asking"
          /\ asked' = c
          /\ UNCHANGED <<req, log, reply, got>>

GiveAnswer == /\ phase = "asking"
              /\ phase' = "called"
              /\ log' = Append(log, Answer(asked))
              /\ asked' = None
              /\ UNCHANGED <<req, reply, got>>

Return == /\ phase = "called"
          /\ phase' = "returned"
          /\ reply' = Ret(req, log)
          /\ log' = <<>>
          /\ UNCHANGED <<req, asked, got>>

Receive == /\ phase = "returned"
           /\ phase' = "idle"
           /\ got' = <<req, reply>>
           /\ req' = None
           /\ reply' = None
           /\ UNCHANGED <<log, asked>>

Close == /\ phase = "idle"
         /\ phase' = "closed"
         /\ UNCHANGED <<req, log, asked, reply, got>>

RNext == \/ \E r \in Calls \cup Lookups : Call(r)
         \/ \E c \in CbArgs : Ask(c)
         \/ GiveAnswer
         \/ Return
         \/ Receive
         \/ Close

RSpec == RInit /\ [][RNext]_rvars
=============================================================================
