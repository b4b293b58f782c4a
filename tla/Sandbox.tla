------------------------------ MODULE Sandbox -------------------------------
(***************************************************************************)
(* Sandbox<Process> and Sandbox<Passthrough> as the host program uses      *)
(* them, from several threads and with several sandboxes: calls by name,   *)
(* by handle and by pointer, callbacks that call or copy again, and copies *)
(* in and out of a sandbox.  Here meet two things that are per thread: the *)
(* current sandbox, which the thunks of callbacks hand to the callback,    *)
(* and the channel of a thread in each process, which a copy borrows in    *)
(* pieces.  What happens on a channel during one request is Channel.tla.   *)
(*                                                                         *)
(* The host program keeps to this: while a process has a call of a thread  *)
(* interrupted for a callback, that thread asks it for nothing (see        *)
(* ChannelReentrant.tla), and it copies only to and from blocks it has     *)
(* allocated, as far as they reach.  A call of an absent name, and a copy  *)
(* to a process in a callback of it, abort the program.                    *)
(***************************************************************************)
EXTENDS HostThreads, Integers, Sequences, SequencesExt, FiniteSetsExt

CONSTANTS
  Processes, Passthroughs,  \* the sandboxes, by their backend
  Names,                    \* the names of functions
  PageCells,                \* PBOX_MEM_STORAGE, in cells
  Cells,                    \* the size of a block that is allocated
  MaxWork,                  \* bound on calls, callbacks and copies under way
  Null

Sandboxes == Processes \cup Passthroughs

ASSUME SandboxAssumption ==
  /\ Processes \cap Passthroughs = {}
  /\ PageCells \in Nat \ {0} /\ Cells \in Nat
  /\ Null \notin Sandboxes

VARIABLES
  cache,  \* of a sandbox: symbol_cache_
  nest,   \* of a thread: its calls and callbacks, innermost last
  tls,    \* of a thread: tls_current_sandbox
  chan,   \* of a thread and process: the state of the channel
  block,  \* of a thread: the memory it has, in one of the sandboxes
  copy    \* of a thread: the copy under way

vars == <<cache, nest, tls, chan, block, copy>>

Init == /\ cache = [s \in Sandboxes |-> {}]
        /\ nest = [t \in Threads |-> <<>>]
        /\ tls = [t \in Threads |-> Null]
        /\ chan = [t \in Threads |-> [p \in Processes |-> "IDLE"]]
        /\ block = [t \in Threads |-> Null]
        /\ copy = [t \in Threads |-> Null]

----------------------------------------------------------------------------
(****************************** Calls **************************************)

\* A double underscore marks a deliberately wrong variant of the operator
\* that follows, which a property is validated with.

\* The host program runs in the thread, and neither a function nor a copy.
InHost(t) == /\ copy[t] = Null
             /\ nest[t] # <<>> => Last(nest[t]).kind = "callback"

Idle(t, s) == s \in Processes => chan[t][s] = "IDLE"

\* Every use of a process goes over the thread's channel.
Post(t, s, state) == chan' = IF s \in Processes
                             THEN [chan EXCEPT ![t][s] = state] ELSE chan

Blank(n) == [i \in 1..n |-> Null]

Work(t) == Len(nest[t]) + IF copy[t] = Null THEN 0 ELSE 1

Bounded == MapThenSumSet(Work, Threads) < MaxWork

\* A call or a callback; a callback has what the thunk hands to it.
Frame(kind, s, given) == [kind |-> kind, sandbox |-> s, given |-> given]

\* call_impl, call_ptr, call of a pointer.
Enter(t, s) == /\ InHost(t) /\ Idle(t, s) /\ Bounded
               /\ tls' = [tls EXCEPT ![t] = s]
               /\ nest' = [nest EXCEPT ![t] =
                             Append(@, Frame("call", s, Null))]
               /\ Post(t, s, "REQUEST")
               /\ UNCHANGED <<block, copy>>

\* lookup: a name that is not cached takes a request.  Another thread waits
\* for cache_mutex_ meanwhile.
Lookup(t, s, name) == /\ name \in cache[s] \/ Idle(t, s)
                      /\ cache' = [cache EXCEPT ![s] = @ \cup {name}]

CallByName(t, s, name) == Lookup(t, s, name) /\ Enter(t, s)

\* fn(name).
MakeHandle(t, s, name) ==
  /\ InHost(t) /\ Lookup(t, s, name)
  /\ UNCHANGED <<nest, tls, chan, block, copy>>

\* FnHandle: the name was looked up before.
CallByHandle(t, s) == cache[s] # {} /\ Enter(t, s) /\ UNCHANGED cache

\* In static mode: nothing is looked up.
CallByPointer(t, s) == s \in Passthroughs /\ Enter(t, s) /\ UNCHANGED cache

\* In static mode, with a context or over what fn gives back: a plain call.
CallPlainly(t, s) ==
  /\ InHost(t) /\ Bounded /\ s \in Passthroughs
  /\ nest' = [nest EXCEPT ![t] = Append(@, Frame("plain", s, Null))]
  /\ UNCHANGED <<cache, tls, chan, block, copy>>

\* callback_thunk_impl, for a callback that takes the sandbox.
CallsBack(t) ==
  /\ nest[t] # <<>> /\ Last(nest[t]).kind # "callback" /\ Bounded
  /\ LET call == Last(nest[t])
     IN  /\ nest' = [nest EXCEPT ![t] =
                 Append(@, Frame("callback", call.sandbox, tls[t]))]
         /\ Post(t, call.sandbox, "CALLBACK")
  /\ UNCHANGED <<cache, tls, block, copy>>

\* The function goes on after a callback, or its call returns.
Returns(t) ==
  /\ nest[t] # <<>> /\ copy[t] = Null
  /\ LET f == Last(nest[t])
     IN  Post(t, f.sandbox, IF f.kind = "callback" THEN "REQUEST" ELSE "IDLE")
  /\ nest' = [nest EXCEPT ![t] = Front(@)]
  /\ UNCHANGED <<cache, tls, block, copy>>

----------------------------------------------------------------------------
(**************************** Memory and copies ****************************)

\* alloc and calloc, a call of malloc that is no call of the program: it
\* leaves the current sandbox alone.
Alloc(t, s) ==
  /\ InHost(t) /\ Idle(t, s) /\ block[t] = Null
  /\ block' = [block EXCEPT ![t] = [sandbox |-> s, cells |-> Blank(Cells)]]
  /\ UNCHANGED <<cache, nest, tls, chan, copy>>

\* Also in the middle of a copy.
Free__Busy(t) == /\ block[t] # Null
                 /\ block' = [block EXCEPT ![t] = Null]
                 /\ UNCHANGED <<cache, nest, tls, chan, copy>>

Free(t) == /\ InHost(t) /\ block[t] # Null /\ Idle(t, block[t].sandbox)
           /\ block' = [block EXCEPT ![t] = Null]
           /\ UNCHANGED <<cache, nest, tls, chan, copy>>

\* memcpy(dst + d, src + s, k)
Copied(dst, d, src, s, k) ==
  [i \in DOMAIN dst |-> IF i \in (d + 1)..(d + k) THEN src[i - d + s]
                                                  ELSE dst[i]]

\* What a thread copies from: every cell of every thread is different.
HostData(t) == [i \in 1..Cells |-> <<t, i>>]

\* The state of the channel is not looked at.
MayCopy__Unchecked(t, s) == TRUE

\* pbox_copy_to and pbox_copy_from, which abort in a callback of the process.
MayCopy(t, s) == s \in Processes => chan[t][s] # "CALLBACK"

\* "into" is what copy_from writes to, "page" the channel's mem_storage, where
\* anything may be left, and "old" what the block holds before.
CopyBegins(t, dir, n) ==
  /\ InHost(t) /\ Bounded
  /\ block[t] # Null /\ MayCopy(t, block[t].sandbox)
  /\ copy' = [copy EXCEPT ![t] =
       [dir |-> dir, n |-> n, at |-> 0,
        stage |-> IF n = 0 THEN "done" ELSE "post",
        into |-> Blank(Cells), page |-> Blank(PageCells),
        old |-> block[t].cells]]
  /\ UNCHANGED <<cache, nest, tls, chan, block>>

Chunk(c) == IF c.n - c.at < PageCells THEN c.n - c.at ELSE PageCells

\* A rest that does not fill the page is left out.
NextStage__FullOnly(c) ==
  IF c.at + Chunk(c) + PageCells <= c.n THEN "post" ELSE "done"

\* The next piece, if there is one.
NextStage(c) == IF c.at + Chunk(c) < c.n THEN "post" ELSE "done"

\* A step of a copy to or from a sandbox of these, in the stage.
Copying(t, stage, sandboxes) == /\ copy[t] # Null /\ copy[t].stage = stage
                                /\ block[t].sandbox \in sandboxes

\* The piece is put into mem_storage, and the call of memcpy is posted.
CopyPosts(t) ==
  /\ Copying(t, "post", Processes)
  /\ copy' = [copy EXCEPT
       ![t].stage = "request",
       ![t].page = IF copy[t].dir = "from" THEN @
                   ELSE Copied(@, 0, HostData(t), copy[t].at, Chunk(copy[t]))]
  /\ Post(t, block[t].sandbox, "REQUEST")
  /\ UNCHANGED <<cache, nest, tls, block>>

\* The worker runs memcpy ...
CopyRuns(t) ==
  /\ Copying(t, "request", Processes)
  /\ LET c == copy[t]  k == Chunk(c)
     IN  /\ block' = IF c.dir = "from" THEN block
                     ELSE [block EXCEPT ![t].cells =
                             Copied(@, c.at, c.page, 0, k)]
         /\ copy' = [copy EXCEPT
              ![t].stage = "collect",
              ![t].page = IF c.dir = "to" THEN @
                          ELSE Copied(@, 0, block[t].cells, c.at, k)]
  /\ UNCHANGED <<cache, nest, tls, chan>>

\* ... and the call has returned.
CopyCollects(t) ==
  /\ Copying(t, "collect", Processes)
  /\ LET c == copy[t]  k == Chunk(c)
     IN  copy' = [copy EXCEPT
           ![t].into = IF c.dir = "to" THEN @ ELSE Copied(@, c.at, c.page, 0, k),
           ![t].at = @ + k,
           ![t].stage = NextStage(c)]
  /\ Post(t, block[t].sandbox, "IDLE")
  /\ UNCHANGED <<cache, nest, tls, block>>

\* Passthrough: one memcpy in the host.
CopyDirect(t) ==
  /\ Copying(t, "post", Passthroughs)
  /\ LET c == copy[t]
     IN  /\ block' = IF c.dir = "from" THEN block
                     ELSE [block EXCEPT ![t].cells =
                             Copied(@, 0, HostData(t), 0, c.n)]
         /\ copy' = [copy EXCEPT
              ![t].into = IF c.dir = "to" THEN @
                          ELSE Copied(@, 0, block[t].cells, 0, c.n),
              ![t].at = c.n, ![t].stage = "done"]
  /\ UNCHANGED <<cache, nest, tls, chan>>

CopyReturns(t) == /\ Copying(t, "done", Sandboxes)
                  /\ copy' = [copy EXCEPT ![t] = Null]
                  /\ UNCHANGED <<cache, nest, tls, chan, block>>

----------------------------------------------------------------------------
Next ==
  \E t \in Threads :
    \/ CallsBack(t) \/ Returns(t) \/ CopyPosts(t) \/ CopyRuns(t)
    \/ CopyCollects(t) \/ CopyDirect(t) \/ CopyReturns(t) \/ Free(t)
    \/ \E dir \in {"to", "from"}, n \in 0..Cells : CopyBegins(t, dir, n)
    \/ \E s \in Sandboxes :
         \/ \E name \in Names : CallByName(t, s, name) \/ MakeHandle(t, s, name)
         \/ CallByHandle(t, s) \/ CallByPointer(t, s) \/ CallPlainly(t, s)
         \/ Alloc(t, s)

Spec == Init /\ [][Next]_vars

----------------------------------------------------------------------------
(******************************* Properties ********************************)

Frames == [kind : {"call", "plain", "callback"}, sandbox : Sandboxes,
           given : Sandboxes \cup {Null}]

Value == {Null} \cup (Threads \X (1..Cells))

Contents(n) == [1..n -> Value]

Copies == [dir : {"to", "from"}, n : 0..Cells, at : 0..Cells,
           stage : {"post", "request", "collect", "done"},
           into : Contents(Cells), page : Contents(PageCells),
           old : Contents(Cells)]

Blocks == [sandbox : Sandboxes, cells : Contents(Cells)]

ASSUME NullAssumption == Null \notin Copies \cup Blocks

TypeOK ==
  /\ cache \in [Sandboxes -> SUBSET Names]
  /\ nest \in [Threads -> Seq(Frames)]
  /\ tls \in [Threads -> Sandboxes \cup {Null}]
  /\ chan \in [Threads -> [Processes -> {"IDLE", "REQUEST", "CALLBACK"}]]
  /\ block \in [Threads -> Blocks \cup {Null}]
  /\ copy \in [Threads -> Copies \cup {Null}]
  /\ \A t \in Threads : copy[t] # Null =>
       block[t] # Null /\ copy[t].at <= copy[t].n

\* A callback is given the sandbox that calls it, whatever the thread called
\* before, in an earlier callback of the same call for example, and however
\* the call was made.
CallbackKnowsSandbox ==
  \A t \in Threads : \A i \in DOMAIN nest[t] :
    nest[t][i].kind = "callback" => nest[t][i].given = nest[t][i].sandbox

\* A worker that waits for the answer to a callback finds its channel as it
\* left it, whatever the callback calls and copies elsewhere: neither takes
\* a request of something else for that answer.
CallsBackUndisturbed ==
  \A t \in Threads : \A i \in DOMAIN nest[t] :
    LET f == nest[t][i]
    IN  f.kind = "callback" /\ f.sandbox \in Processes
          => chan[t][f.sandbox] = "CALLBACK"

\* A copy that is done has moved exactly its cells, in however many pieces
\* and whatever other threads copy meanwhile; the rest of what it was copied
\* to is as before.
CopyExact ==
  \A t \in Threads : copy[t] # Null /\ copy[t].stage = "done" =>
    LET c == copy[t]
    IN  IF c.dir = "to"
        THEN block[t].cells = Copied(c.old, 0, HostData(t), 0, c.n)
        ELSE /\ block[t].cells = c.old
             /\ c.into = Copied(Blank(Cells), 0, c.old, 0, c.n)
=============================================================================
