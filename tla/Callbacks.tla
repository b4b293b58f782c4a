----------------------------- MODULE Callbacks -----------------------------
(***************************************************************************)
(* Host functions as sandbox function pointers.  pbox_register_callback    *)
(* enters the function in a registry all threads share, publishes it by    *)
(* storing the count, and has the worker of the calling thread allocate a  *)
(* closure (dyfn_closure_alloc).  What it returns is the address of a      *)
(* stub.  The stubs are one table for the whole process, but the record a  *)
(* stub looks up when it is called, dyfn_closure_info, is thread-local.    *)
(***************************************************************************)
EXTENDS HostThreads, Naturals, Sequences, FiniteSets

CONSTANTS Functions,     \* host functions that are registered
          MaxCallbacks   \* PBOX_MAX_CALLBACKS = DYFN_MAX_CLOSURES

ASSUME MaxAssumption == MaxCallbacks \in Nat \ {0}

Nobody == "nobody"
Nothing == "nothing"

ASSUME NobodyAssumption == Nobody \notin Threads
ASSUME NothingAssumption == Nothing \notin Functions

NoPointer == [stub |-> 0, fn |-> Nothing, by |-> Nobody]

VARIABLES
  slots,   \* box->callbacks
  count,   \* box->callback_count, read by dispatch without a lock
  lock,    \* holder of callback_lock
  info,    \* worker -> callback ids in its dyfn_closure_info, by stub
  ptrs,    \* history: pointers that were returned [stub, fn, by]
  pc, fn, id, \* thread -> where it is, what it registers, the index it took
  called,  \* thread -> the pointer its sandboxed function calls back through
  ran      \* thread -> the host function that was run for it

callbackVars == <<slots, count, lock, info, ptrs, pc, fn, id, called, ran>>

Ids == 0..(MaxCallbacks - 1)

CallbackInit == /\ slots = [i \in Ids |-> Nothing]
                /\ count = 0
                /\ lock = Nobody
                /\ info = [t \in Threads |-> <<>>]
                /\ ptrs = {}
                /\ pc = [t \in Threads |-> "idle"]
                /\ fn = [t \in Threads |-> Nothing]
                /\ id = [t \in Threads |-> 0]
                /\ called = [t \in Threads |-> NoPointer]
                /\ ran = [t \in Threads |-> Nothing]

\* As in Channel, a double underscore marks a deliberately wrong variant of
\* the operator that follows, which a property is validated with.

Goto(t, l) == pc' = [pc EXCEPT ![t] = l]

----------------------------------------------------------------------------
(************************* pbox_register_callback **************************)

\* The limit is off by one.
RegisterLocks__OneMore(t, f) ==
  /\ pc[t] = "idle"
  /\ lock = Nobody
  /\ count <= MaxCallbacks
  /\ lock' = t
  /\ fn' = [fn EXCEPT ![t] = f]
  /\ id' = [id EXCEPT ![t] = count]
  /\ Goto(t, "fill")
  /\ UNCHANGED <<slots, count, info, ptrs, called, ran>>

\* The index is reserved by counting up at once, before the slot is filled.
RegisterLocks__Published(t, f) ==
  /\ pc[t] = "idle"
  /\ lock = Nobody
  /\ count < MaxCallbacks
  /\ lock' = t
  /\ fn' = [fn EXCEPT ![t] = f]
  /\ id' = [id EXCEPT ![t] = count]
  /\ count' = count + 1
  /\ Goto(t, "fill")
  /\ UNCHANGED <<slots, info, ptrs, called, ran>>

\* The registry is full: the answer is NULL and nothing changes.
RegisterRefused(t) == /\ pc[t] = "idle"
                      /\ lock = Nobody
                      /\ count >= MaxCallbacks
                      /\ UNCHANGED callbackVars

\* callback_lock is taken and the slot at the end chosen.
RegisterLocks(t, f) == /\ pc[t] = "idle"
                       /\ lock = Nobody
                       /\ count < MaxCallbacks
                       /\ lock' = t
                       /\ fn' = [fn EXCEPT ![t] = f]
                       /\ id' = [id EXCEPT ![t] = count]
                       /\ Goto(t, "fill")
                       /\ UNCHANGED <<slots, count, info, ptrs, called, ran>>

\* It is filled while nobody can see it ...
RegisterFills(t) == /\ pc[t] = "fill"
                    /\ slots' = [slots EXCEPT ![id[t]] = fn[t]]
                    /\ Goto(t, "publish")
                    /\ UNCHANGED <<count, lock, info, ptrs, fn, id, called,
                                   ran>>

\* ... and published by the count.
RegisterPublishes(t) == /\ pc[t] = "publish"
                        /\ count' = id[t] + 1
                        /\ Goto(t, "closure")
                        /\ UNCHANGED <<slots, lock, info, ptrs, fn, id, called,
                                       ran>>

\* A function that is returned to nobody.
Leave(t) == /\ lock' = Nobody
            /\ fn' = [fn EXCEPT ![t] = Nothing]
            /\ id' = [id EXCEPT ![t] = 0]
            /\ Goto(t, "idle")
            /\ UNCHANGED <<slots, called, ran>>

\* get_or_create_channel fails: the count goes back, the answer is NULL.
RegisterRollsBack(t) == /\ pc[t] = "closure"
                        /\ info[t] = <<>>   \* no channel, so no closure yet
                        /\ count' = id[t]
                        /\ Leave(t)
                        /\ UNCHANGED <<info, ptrs>>

\* dyfn_closure_alloc in the worker of t: the next stub.
RegisterAllocates__PerBox(t) ==
  /\ pc[t] = "closure"
  /\ info' = [info EXCEPT ![t] = Append(@, Len(@))]
  /\ ptrs' = ptrs \cup {[stub |-> Len(info[t]), fn |-> fn[t], by |-> t]}
  /\ Leave(t)
  /\ UNCHANGED count

\* The count is taken back where it should not be.
RegisterAllocates__Unpublishes(t) ==
  /\ pc[t] = "closure"
  /\ info' = [info EXCEPT ![t] = Append(@, id[t])]
  /\ ptrs' = ptrs \cup {[stub |-> Len(info[t]), fn |-> fn[t], by |-> t]}
  /\ count' = id[t]
  /\ Leave(t)

RegisterAllocates(t) ==
  /\ pc[t] = "closure"
  /\ Len(info[t]) < MaxCallbacks
  /\ info' = [info EXCEPT ![t] = Append(@, id[t])]
  /\ ptrs' = ptrs \cup {[stub |-> Len(info[t]), fn |-> fn[t], by |-> t]}
  /\ Leave(t)
  /\ UNCHANGED count

----------------------------------------------------------------------------
(******************************** Calling back *****************************)

\* What the worker of t finds under a stub: a slot it never filled is zero.
InfoOf(t, stub) == IF stub < Len(info[t]) THEN info[t][stub + 1] ELSE 0

\* A sandboxed function may call through any pointer it knows, on whichever
\* worker it runs: the stubs are the same for all of them.  The thread is
\* inside pbox_call; its worker sends the id it finds under the stub.
CallsThrough(t, p) == /\ pc[t] = "idle"
                      /\ called' = [called EXCEPT ![t] = p]
                      /\ id' = [id EXCEPT ![t] = InfoOf(t, p.stub)]
                      /\ Goto(t, "dispatch")
                      /\ UNCHANGED <<slots, count, lock, info, ptrs, fn, ran>>

\* pbox_dispatch_callback: an id that is not published is ignored ...
DispatchRefused(t) == /\ pc[t] = "dispatch"
                      /\ id[t] >= count
                      /\ Goto(t, "ran")
                      /\ UNCHANGED <<slots, count, lock, info, ptrs, fn, id,
                                     called, ran>>

DispatchAccepts(t) == /\ pc[t] = "dispatch"
                      /\ id[t] < count
                      /\ Goto(t, "read")
                      /\ UNCHANGED <<slots, count, lock, info, ptrs, fn, id,
                                     called, ran>>

\* ... and the slot of one that was is read after the check, without the lock.
Dispatches(t) == /\ pc[t] = "read"
                 /\ ran' = [ran EXCEPT ![t] = slots[id[t]]]
                 /\ Goto(t, "ran")
                 /\ UNCHANGED <<slots, count, lock, info, ptrs, fn, id,
                                called>>

CallbackReturns(t) == /\ pc[t] = "ran"
                      /\ called' = [called EXCEPT ![t] = NoPointer]
                      /\ ran' = [ran EXCEPT ![t] = Nothing]
                      /\ id' = [id EXCEPT ![t] = 0]
                      /\ Goto(t, "idle")
                      /\ UNCHANGED <<slots, count, lock, info, ptrs, fn>>

----------------------------------------------------------------------------
(* The thread exits while it is idle and its worker with it; a new thread  *)
(* in its place starts with an empty table (dyfn_closure_free_all).  The   *)
(* pointers it registered still are addresses of stubs.                    *)
Restarts(t) == /\ pc[t] = "idle"
               /\ info[t] # <<>>
               /\ info' = [info EXCEPT ![t] = <<>>]
               /\ ptrs' =
                    {[p EXCEPT !.by = IF p.by = t THEN Nobody ELSE p.by] :
                       p \in ptrs}
               /\ UNCHANGED <<slots, count, lock, pc, fn, id, called, ran>>

CallbackNext == \E t \in Threads :
                  \/ \E f \in Functions : RegisterLocks(t, f)
                  \/ RegisterRefused(t)
                  \/ RegisterFills(t) \/ RegisterPublishes(t)
                  \/ RegisterRollsBack(t) \/ RegisterAllocates(t)
                  \/ \E p \in ptrs : CallsThrough(t, p)
                  \/ DispatchRefused(t) \/ DispatchAccepts(t) \/ Dispatches(t)
                  \/ CallbackReturns(t)
                  \/ Restarts(t)

CallbackSpec == CallbackInit /\ [][CallbackNext]_callbackVars

----------------------------------------------------------------------------
(******************************* Properties ********************************)

Pointers == [stub : Ids, fn : Functions, by : Threads \cup {Nobody}]

CallbackTypeOK ==
  /\ slots \in [Ids -> Functions \cup {Nothing}]
  /\ count \in 0..MaxCallbacks
  /\ lock \in Threads \cup {Nobody}
  /\ info \in [Threads -> Seq(Ids)]
  /\ ptrs \subseteq Pointers
  /\ pc \in [Threads -> {"idle", "fill", "publish", "closure", "dispatch",
                         "read", "ran"}]
  /\ fn \in [Threads -> Functions \cup {Nothing}]
  /\ id \in [Threads -> Ids]
  /\ called \in [Threads -> Pointers \cup {NoPointer}]
  /\ ran \in [Threads -> Functions \cup {Nothing}]

\* What a sandboxed function runs on the worker of a thread by calling through
\* a stub is what that thread registered under it, if it has: whoever
\* registers, calls back, fails to register or exits at the same time, and
\* whatever other threads have registered under the same stub.
StubRunsOwnFunction ==
  \A t \in Threads : pc[t] = "ran" =>
    \A p \in ptrs : p.by = t /\ p.stub = called[t].stub => ran[t] = p.fn

\* "Returns a function pointer valid in the sandbox address space" (pbox.h):
\* it runs the function it was made for, on whichever worker it is called.
PointerRunsItsFunction ==
  \A t \in Threads : pc[t] = "ran" => ran[t] = called[t].fn

\* Dispatch reads the registry without callback_lock: what the count lets it
\* read is filled, and nobody is about to fill it again.
PublishedIsFilled ==
  \A i \in Ids : i < count =>
    /\ slots[i] # Nothing
    /\ \A t \in Threads : pc[t] = "fill" => id[t] # i

\* The bound of the registry is the bound of every worker's table, so a
\* registration that was accepted finds a stub free.
AcceptedFindsStub == \A t \in Threads :
                       pc[t] = "closure" => Len(info[t]) < MaxCallbacks
=============================================================================
