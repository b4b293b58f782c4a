-------------------------------- MODULE Lfi ---------------------------------
(***************************************************************************)
(* Sandbox<LFI>: the engine all sandboxes of the process share, the ladder *)
(* of steps that creates a sandbox, and the context of the runtime each    *)
(* host thread uses for each sandbox.  get_thread_ctx finds it in a        *)
(* thread-local list by the address of the box; the thread that created    *)
(* the sandbox has the box's first context, another thread has one cloned  *)
(* at its first call.  What the threads then do with the stack of their    *)
(* contexts is LfiStack.tla.  The lfi runtime is not part of the           *)
(* repository: it hands out boxes and contexts, and runs functions.        *)
(*                                                                         *)
(* Nothing takes an entry out of a list, and the runtime may put a box     *)
(* where a freed one was.  A thread then finds the context of the sandbox  *)
(* that is gone.  What a program does with a freed context is undefined;   *)
(* here the context is as it was left, the outcome that is hardest to      *)
(* notice.                                                                 *)
(*                                                                         *)
(* A thread that fails to clone a context aborts the program: the end of   *)
(* any behaviour.                                                          *)
(***************************************************************************)
EXTENDS LfiStack, FiniteSets, FiniteSetsExt

CONSTANTS
  Threads, Sandboxes,
  Boxes,       \* the addresses of boxes
  Capacity,    \* what the program passes to LFIManager::init
  MaxNest,     \* bound on the frames all threads have open
  MaxParams,   \* bound on the parameters of a context
  Null

ASSUME LfiAssumption ==
  /\ Contexts = Threads \X Sandboxes  \* a context: its thread, its sandbox
  /\ Capacity \in Nat /\ Null \notin Contexts \cup Boxes
  /\ IsFiniteSet(Sandboxes)

VARIABLES
  engine,   \* engine_ and linux_engine_ are there
  room,     \* how many boxes it has room for
  size,     \* what it was made for
  stage,    \* of a sandbox: how far its creation got
  creator,  \* of a sandbox: main_thread_tid_
  boxAt,    \* of a sandbox: the address of its box
  live,     \* the contexts the runtime has
  entries,  \* of a thread: the contexts it finds, by the box's address
  nest      \* of a thread: sandbox and context of each frame, innermost last

managerVars == <<engine, room, size>>
vars == <<engine, room, size, stage, creator, boxAt, live, entries, nest,
          sp, frames>>

Init == /\ engine = FALSE /\ room = 0 /\ size = 0
        /\ stage = [s \in Sandboxes |-> "none"]
        /\ creator = [s \in Sandboxes |-> Null]
        /\ boxAt = [s \in Sandboxes |-> Null]
        /\ live = {}
        /\ entries = [t \in Threads |-> <<>>]
        /\ nest = [t \in Threads |-> <<>>]
        /\ StackInit

----------------------------------------------------------------------------
(******************************* LFIManager ********************************)

\* create(n), under the lock: both engines or none.
MakeEngine(n) == /\ ~engine
                 /\ engine' = TRUE /\ room' = n /\ size' = n

ManagerInit == /\ MakeEngine(Capacity)
               /\ UNCHANGED <<stage, creator, boxAt, live, entries, nest,
                              stackVars>>

\* Only when no sandbox is left and none is being created: get() hands the
\* engine out after it has given the lock back.
ManagerDestroy == /\ engine
                  /\ \A s \in Sandboxes : stage[s] \in {"none", "gone"}
                  /\ engine' = FALSE /\ room' = 0 /\ size' = 0
                  /\ UNCHANGED <<stage, creator, boxAt, live, entries, nest,
                                 stackVars>>

----------------------------------------------------------------------------
(********************* Creation and destruction ****************************)

\* A double underscore marks a deliberately wrong variant of the operator
\* that follows, which a property is validated with.

\* The thread is inside Sandbox<LFI>::create.
Creating(t) == \E s \in Sandboxes : /\ creator[s] = t
                                   /\ stage[s] \in {"proc", "load", "run"}

\* The host program runs in the thread, and no sandboxed function.
InHost(t) == /\ ~Creating(t)
             /\ nest[t] # <<>> => Top(Last(nest[t]).ctx) # "call"

\* The process is given back only with its first thread.
Destructor__NoThread(s) ==
  /\ room' = IF stage[s] \in {"run", "ready"} THEN room + 1 ELSE room
  /\ live' = {c \in live : c[2] # s}

\* ~Sandbox: lfi_thread_free and lfi_proc_free, of what there is.
Destructor(s) ==
  /\ room' = IF stage[s] \in {"load", "run", "ready"} THEN room + 1 ELSE room
  /\ live' = {c \in live : c[2] # s}

\* LFIManager::get: without an engine, one with room for one box is made.
CreateBegins(t, s) ==
  /\ InHost(t)
  /\ stage[s] = "none"
  /\ IF engine THEN UNCHANGED managerVars ELSE MakeEngine(1)
  /\ stage' = [stage EXCEPT ![s] = "proc"]
  /\ creator' = [creator EXCEPT ![s] = t]
  /\ UNCHANGED <<boxAt, live, entries, nest, stackVars>>

\* The addresses the runtime may put a box at, also those of boxes that are
\* gone.
FreeBoxes == Boxes \ {boxAt[s] : s \in {z \in Sandboxes : stage[z] # "gone"}}

\* Not told that there is no room.
CreateProc__Unchecked(s) ==
  /\ stage[s] = "proc"
  /\ room' = room - 1
  /\ \E b \in FreeBoxes : boxAt' = [boxAt EXCEPT ![s] = b]
  /\ stage' = [stage EXCEPT ![s] = "load"]
  /\ UNCHANGED <<engine, size, creator, live, entries, nest, stackVars>>

\* lfi_proc_new takes a place in the engine.
CreateProc(s) == /\ stage[s] = "proc"
                 /\ room > 0
                 /\ room' = room - 1
                 /\ \E b \in FreeBoxes : boxAt' = [boxAt EXCEPT ![s] = b]
                 /\ stage' = [stage EXCEPT ![s] = "load"]
                 /\ UNCHANGED <<engine, size, creator, live, entries, nest,
                                stackVars>>

\* The library is loaded and the first thread made, with its context ...
CreateThread(s) ==
  /\ stage[s] = "load"
  /\ stage' = [stage EXCEPT ![s] = "run"]
  /\ live' = live \cup {<<creator[s], s>>}
  /\ UNCHANGED <<engine, room, size, creator, boxAt, entries, nest, stackVars>>

\* ... which runs up to the point where functions can be called.
CreateRuns(s) ==
  /\ stage[s] = "run"
  /\ stage' = [stage EXCEPT ![s] = "ready"]
  /\ UNCHANGED <<engine, room, size, creator, boxAt, live, entries, nest,
                 stackVars>>

\* Any of these steps fails: nullptr, and the destructor runs.
CreateFails(s) ==
  /\ stage[s] \in {"proc", "load", "run"}
  /\ Destructor(s)
  /\ stage' = [stage EXCEPT ![s] = "none"]
  /\ creator' = [creator EXCEPT ![s] = Null]
  /\ boxAt' = [boxAt EXCEPT ![s] = Null]
  /\ UNCHANGED <<engine, size, entries, nest, stackVars>>

\* Nobody is in the sandbox.
Destroy(t, s) ==
  /\ InHost(t)
  /\ stage[s] = "ready"
  /\ \A u \in Threads : \A i \in DOMAIN nest[u] : nest[u][i].sandbox # s
  /\ Destructor(s)
  /\ stage' = [stage EXCEPT ![s] = "gone"]
  /\ UNCHANGED <<engine, size, creator, boxAt, entries, nest, stackVars>>

----------------------------------------------------------------------------
(************************** Contexts of threads ****************************)

\* The first context for everybody.
ThreadCtx__Main(t, s) ==
  IF boxAt[s] \in DOMAIN entries[t] THEN entries[t][boxAt[s]]
  ELSE <<creator[s], s>>

\* get_thread_ctx: Null for a thread without a context.
ThreadCtx(t, s) ==
  IF boxAt[s] \in DOMAIN entries[t] THEN entries[t][boxAt[s]]
  ELSE IF creator[s] = t THEN <<creator[s], s>> ELSE Null

\* The entry get_thread_ctx makes, and what is stored in it later.
Remember(t, s, c) ==
  entries' = [entries EXCEPT ![t] = [b \in DOMAIN @ \cup {boxAt[s]} |->
                                       IF b = boxAt[s] THEN c ELSE @[b]]]

Bounded == MapThenSumSet(LAMBDA t : Len(nest[t]), Threads) < MaxNest

CanEnter(t, s) == InHost(t) /\ Bounded /\ stage[s] = "ready"

Nested(t, s, c) ==
  nest' = [nest EXCEPT ![t] = Append(@, [sandbox |-> s, ctx |-> c])]

\* call_ptr: a thread without a context gets a clone, with a stack of its own.
BeginCall(t, s, sig) ==
  /\ CanEnter(t, s)
  /\ LET clone == IF ThreadCtx(t, s) = Null THEN {<<t, s>>} ELSE {}
         c == IF clone # {} THEN <<t, s>> ELSE ThreadCtx(t, s)
     IN  /\ Remember(t, s, c)
         /\ live' = live \cup clone
         /\ Nested(t, s, c)
         /\ Call(c, sig)
  /\ UNCHANGED <<managerVars, stage, creator, boxAt>>

\* alloc, free, idmem_alloc and the like hand the entry to the runtime; the
\* first of a thread leaves one without a context.
UseHeap(t, s) == /\ InHost(t) /\ stage[s] = "ready"
                 /\ Remember(t, s, ThreadCtx(t, s))
                 /\ UNCHANGED <<managerVars, stage, creator, boxAt, live,
                                nest, stackVars>>

\* context(): stack_save reads the registers of the thread's context, which
\* must be there.
BeginContext(t, s) ==
  /\ CanEnter(t, s)
  /\ ThreadCtx(t, s) # Null
  /\ Remember(t, s, ThreadCtx(t, s))
  /\ Nested(t, s, ThreadCtx(t, s))
  /\ OpenContext(ThreadCtx(t, s))
  /\ UNCHANGED <<managerVars, stage, creator, boxAt, live>>

\* A function calls a host function back.
BeginCallBack(t, bytes) ==
  /\ nest[t] # <<>> /\ Bounded
  /\ LET e == Last(nest[t]) IN /\ Nested(t, e.sandbox, e.ctx)
                               /\ CallBack(e.ctx, bytes)
  /\ UNCHANGED <<managerVars, stage, creator, boxAt, live, entries>>

\* A parameter of the context a thread opened last, which it finds anew.
MakeParam(t, p) ==
  /\ InHost(t) /\ nest[t] # <<>>
  /\ Push(ThreadCtx(t, Last(nest[t]).sandbox), p)
  /\ Cardinality(Last(frames[Last(nest[t]).ctx]).parts) < MaxParams
  /\ UNCHANGED <<managerVars, stage, creator, boxAt, live, entries, nest>>

\* The innermost scope of a thread ends: of a context, which finds the stack
\* anew, of a call, which kept the registers, or of a callback.
EndScope(t) ==
  /\ ~Creating(t) /\ nest[t] # <<>>
  /\ LET e == Last(nest[t])
     IN  \/ CloseContext(ThreadCtx(t, e.sandbox))
         \/ Return(e.ctx) \/ EndCallBack(e.ctx)
  /\ nest' = [nest EXCEPT ![t] = Front(@)]
  /\ UNCHANGED <<managerVars, stage, creator, boxAt, live, entries>>

\* A thread ends, and a new one gets its std::thread::id and an empty list.
\* The runtime's contexts stay; a new clone has a new stack.
ThreadEnds(t) == /\ ~Creating(t) /\ nest[t] = <<>> /\ entries[t] # <<>>
                 /\ entries' = [entries EXCEPT ![t] = <<>>]
                 /\ UNCHANGED <<managerVars, stage, creator, boxAt, live,
                                nest, stackVars>>

----------------------------------------------------------------------------
Next == \/ ManagerInit \/ ManagerDestroy
        \/ \E s \in Sandboxes : \/ CreateProc(s) \/ CreateThread(s)
                                \/ CreateRuns(s) \/ CreateFails(s)
        \/ \E t \in Threads :
             \/ \E s \in Sandboxes :
                  \/ CreateBegins(t, s) \/ Destroy(t, s)
                  \/ UseHeap(t, s) \/ BeginContext(t, s)
                  \/ \E sig \in Signatures : BeginCall(t, s, sig)
             \/ \E bytes \in CalleeSizes : BeginCallBack(t, bytes)
             \/ \E p \in ParamTypes : MakeParam(t, p)
             \/ EndScope(t) \/ ThreadEnds(t)

Spec == Init /\ [][Next]_vars

----------------------------------------------------------------------------
(******************************* Properties ********************************)

TypeOK ==
  /\ StackTypeOK
  /\ engine \in BOOLEAN /\ room \in Nat /\ size \in Nat
  /\ stage \in [Sandboxes -> {"none", "proc", "load", "run", "ready", "gone"}]
  /\ creator \in [Sandboxes -> Threads \cup {Null}]
  /\ boxAt \in [Sandboxes -> Boxes \cup {Null}]
  /\ live \subseteq Contexts
  /\ \A t \in Threads : /\ DOMAIN entries[t] \subseteq Boxes
                        /\ \A b \in DOMAIN entries[t] :
                             entries[t][b] \in Contexts \cup {Null}
  /\ nest \in [Threads -> Seq([sandbox : Sandboxes, ctx : Contexts])]

\* Whatever a thread has open in a sandbox is on a context that no other
\* thread uses, whose registers and stack have no lock.  It is one of this
\* sandbox which the runtime still has, unless the thread's list holds one
\* of a sandbox whose box was at the same address and is gone: nothing else
\* leads a thread to a wrong context.
OwnContext ==
  \A t \in Threads : \A i \in DOMAIN nest[t] :
    LET c == nest[t][i].ctx  s == nest[t][i].sandbox
    IN  /\ \A u \in Threads : \A j \in DOMAIN nest[u] :
             nest[u][j].ctx = c => u = t
        /\ \/ c \in live /\ c[2] = s
           \/ \E z \in Sandboxes : /\ stage[z] = "gone" /\ c = <<t, z>>
                                   /\ boxAt[z] = boxAt[s]

\* The context is always one of this sandbox that the runtime still has, also
\* after other sandboxes came and went, as with the other backends, which
\* keep nothing of a sandbox that is gone.
RightContext ==
  \A t \in Threads : \A i \in DOMAIN nest[t] :
    nest[t][i].ctx \in live /\ nest[t][i].ctx[2] = nest[t][i].sandbox

\* A creation that failed costs no room: the places of an engine are free or
\* those of the sandboxes that have a process.
CapacityKept ==
  room + Cardinality({s \in Sandboxes : stage[s] \in {"load", "run", "ready"}})
    = size
=============================================================================
