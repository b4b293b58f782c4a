# A verification project for sbox

sbox calls the functions of a library inside a sandbox. Its process backend,
*pbox*, forks a child process that has the library, and each host thread talks
to a worker thread of the child over a page of shared memory. Two more backends
run the library in the host's process: *passthrough*, without isolation, and
*LFI*, over a runtime that is not in the repository. This directory models pbox,
the C++ front ends and the LFI backend in TLA+, checks the models with TLC and
proves with TLAPS, for every value of the constants, each invariant that the
passing runs check. Paths below are those of the repository.

## 1. Inventory

### Components and their state

| component | source | state | operations |
|---|---|---|---|
| channel | `src/pbox/pbox.c`, `pbox_sandbox.c`, `pbox_internal.h` | a shared page: the state word, the request, `arg_storage`, `result_storage`, the answers | `pbox_call`, `pbox_dlsym`, descriptor and closure requests, callbacks, exit |
| lifecycle of a box | `pbox.c`, `pbox_sandbox.c` | `struct PBox`, the child, the watcher thread, `channels`, `channel_lock`, the TLS key, the control channel | `pbox_create`, channel creation, thread exit, `pbox_destroy` |
| descriptor passing | `pbox.c`, `recv_fd` | one socket pair, `fd_direct`, `fd_overflow`, `fd_lock` | `pbox_send_fd`, `pbox_close`, unlocked sends |
| callbacks | `pbox.c`, `pbox_sandbox.c`, `src/dyfn/dyfn.c` | `callbacks`, `callback_count`, `callback_lock`, a closure table per worker | `pbox_register_callback`, dispatch |
| marshalling | `pbox_call`, `dyfn_prep_call`, `dyfn_call`, `dyfn_closure_dispatch` | register images, stack words, offsets | loops over the signature |
| contexts and arena | `process.hh`, `pbox_idmem_*` | one arena per thread, copy-backs | `in`, `out`, `inout`, `call`, `finalize`, destructor |
| identity mappings | `pbox_mmap_identity`, `pbox_procmaps.c` | the address spaces of both processes | map, search, unmap |
| copies | `pbox_copy_to`, `pbox_copy_from` | `mem_storage` | loops of calls of `memcpy` |
| process and passthrough front ends | `process.hh`, `passthrough.hh`, `sbox.hh` | the symbol cache, `tls_current_sandbox` | calls by name, handle and pointer, thunks, memory, copies |
| LFI backend | `lfi.hh`, `src/sbox_lfi.cc` | the engine, a list of contexts per thread, a stack pointer per context | create, calls, `stack_push`, staged arguments, callbacks |
| seccomp filters | `pbox_seccomp.c` | static tables | install |

### How they interact

A host thread makes a **call** by packing it into its channel and storing
REQUEST; the worker answers with RESPONSE, or with CALLBACK when the sandboxed
function calls a host function, which the same host thread then runs. The first
call of a thread **creates a channel**: the descriptor of the page goes over the
one socket, and the sandbox is told over the one control channel to start a
worker. **Descriptors** use the socket as well, and each is received by the
worker of the thread that sent it. **Identity mappings** are made of a
descriptor and two calls (`mmap` in the sandbox), and the **arena** of a thread
is such a mapping. A **copy** is a row of calls of `memcpy` by way of the page.
A **watcher** thread waits for the child. Above this, each call through a
**front end** names its sandbox the current one of the thread, and the thunk of
a callback reads that. The **LFI** backend has no channel: the host thread
itself runs the function, on a context that it finds by the address of the
sandbox's box, and shares that context's stack with it. Every operation but
those on the arena and on a context can run in several host threads at once.

### What is hard, and what makes each part correct

* Channel: the futex protocol (lost wakeups), plain fields shared by two
  threads, one storage for a call and the callbacks inside it. Correct when
  every call returns with its own result and nothing is accessed at the same
  time from both sides.
* Lifecycle: threads come and go while the box is created and destroyed and the
  sandbox may die at any point. Correct when the list of channels is the set of
  mapped ones, nothing is used after it is freed, operations end.
* Descriptors: one socket, many receivers; a cache of numbers that are
  reused. Correct when the number a caller gets denotes its own file.
* Callbacks: a registry read without its lock; closure tables that are
  thread-local while their stubs are global. Correct when a pointer runs the
  function it was made for.
* Marshalling: mixed register classes, spilled arguments, four spill words.
  Correct when no array is overrun and no argument is lost or moved.
* Arena: alignment, the end of the arena, exceptions in the middle of building
  a call. Correct when parameters are apart, arrive, and come back.
* Identity mappings: an address is looked up, then mapped, in two processes
  whose other threads map memory meanwhile. Correct when what is returned is
  mapped on both sides and failure leaves nothing.
* Front ends: several sandboxes and backends in one thread, called from each
  other's callbacks. Correct when a callback is given its own sandbox and the
  channel of a worker that waits for it is left alone.
* Copies: pieces. Correct when exactly the bytes asked for arrive.
* LFI backend: threads, sandboxes and boxes whose addresses outlive them; one
  stack pointer moved by parameters, spilled arguments, functions and callbacks.
  Correct when every thread uses a context of its own, whoever goes on finds the
  pointer as it was left, and a failed creation gives its place back.

`PROJECT.json` lists the hazards one by one, with their lines, and the property
that covers each or the reason why none does.

## 2. Plan

In order of importance; the first nine are built.

1. `Rpc`, `Channel`, `ChannelProofs`: the protocol, the conversation it
   implements, the proof that it does. `ChannelReentrant` composes it with host
   callbacks that call again.
2. `Lifecycle`, `LifecycleProofs`: composes the control channel, the channels,
   the watcher.
3. `FdPass`, `FdPassProofs`.
4. `Callbacks`, `CallbacksProofs`.
5. `Arena`.
6. `Marshal`, `MarshalProofs`.
7. `IdentityMap`; `MemoryProofs`, whose theorems are about it and `Arena`.
   `HostThreads` declares the threads for this module, `FdPass`, `Callbacks` and
   `Sandbox`.
8. `Sandbox`, `SandboxProofs`: the front ends of two backends in one program,
   composed with copies over the channels of the threads.
9. `LfiStack`, `Lfi`, `LfiProofs`: the stack of one context, and the threads
   and sandboxes that share an engine, which extends it.
10. Left: `pbox_create` step by step with the death of the child before its
    first answer, and `pbox_alive`; `pbox_in_idmem`; the results of calls made
    without a channel; the arena that all passthrough sandboxes of a thread
    share.

Abstract specifications: `Rpc` (stated and proved to be implemented), and
`LfiStack`, whose steps are those `Lfi` takes on each context. To come: a map
from files to sandbox numbers over `FdPass`; a set of regions over
`IdentityMap`.

Theorems to come: that `FdPass` and `IdentityMap` implement these two, step by
step.

## 3. Modules and code

Every definition that stands for code is in the `map` of `PROJECT.json` with
its lines. An operator with a double underscore in its name
(`WakeWorker__Lost`) is a wrong variant of the one after it; putting it in
place of the right one must break a property, and does.

**Rpc** is what a channel promises: a request, any bounded number of questions
to the host with their answers, a result computed from the request and those
answers. **Channel** is the page. `state` is the state word, the only atomic
field; the other variables of the page are plain memory. `hpc` and `wpc` say
where the host thread and its worker are; every load, store, FUTEX_WAIT and
FUTEX_WAKE is a step. The spinning before the futex is the loop of loads with
any number of turns and no action of its own. What is packed, computed and
answered is symbolic: `Ret(request, answers)` and `Answer(argument)`, so a
result that belongs to another call is visible as such. Requests come in three
kinds because the code reads the answer after the word is back to IDLE for
calls, look-ups and descriptors, but before for closures.
**ChannelReentrant** adds a stack of interrupted callbacks.

**Lifecycle** takes a wait for a state word as one step, which `Channel`
justifies, and keeps apart every store to a word, each lock, each hand-over: the
loop of symbol look-ups in `pbox_create`, RECV_FD and SPAWN_WORKER of
`create_channel_locked`, the spin on `sandbox_channel_addr`, the insertion in
the list with its failure path, `channel_destructor` in its three parts, and
`pbox_destroy` in its four. The sandbox may die at any step.

**FdPass** has both descriptor tables, the socket as a queue of files, the
direct table and the overflow vector (an entry may fail to be made), and all
kinds of sends, which may fail for want of a channel or in sendmsg. Received
descriptors get the lowest free number, as the kernel gives them, so numbers are
reused.

**Callbacks** has registration in the order of the code (fill, publish, ask for
a closure, or roll back), the count read without the lock in dispatch, the slot
read after it, and a closure table per worker that starts empty. A sandboxed
function may call through any pointer there is, on whichever worker it runs, and
the worker looks the stub up in its own table. A pointer is history: the stub,
the function it was made for, the thread that made it.

**Arena** has the bytes of the arena, so a piece that overlaps another is seen
in the values, `size_t` arithmetic modulo `Word`, contexts as a stack, each of
which may be used for any number of calls, and exceptions that unwind some of
it. The copy backs of a context are one step: no
one else writes the arena then, so what the last one for a variable reads is
what stays in it.

**Marshal** runs the loops of `pbox_call`, `dyfn_prep_call`, `dyfn_call` and
`dyfn_closure_dispatch` one argument per step, and states the calling
convention, without loops, next to them. The x86-64 build is the one modelled.

**IdentityMap** has the pages of both address spaces with their owners, and
other threads of both programs that map and unmap pages between any two steps.
A call of `mmap` in the sandbox is one step; it may fail, and an address given
with MAP_FIXED_NOREPLACE that is taken is, on a kernel that does not know the
flag, a hint.

**Sandbox** has, for each thread, the calls and callbacks that are open,
`tls_current_sandbox`, the state of its channel in each process, one block of
memory and one copy. A call is entered as `call_impl` does it: look-up, store of
the current sandbox, request; what then happens on the channel is `Channel`'s
business, so here its state changes with the step. The callback thunk reads the
current sandbox when it begins. Calls in the static mode of the passthrough
backend that go by a context or over what `fn` gives back do not store it, and
are there as `CallPlainly`. A copy is a loop: the piece goes into the page, the
request is posted, the worker copies, the host takes the piece out; a copy of a
passthrough sandbox is one step. What a callback was `given` stays in its frame.

Modules that a run or a proof extends together have names of their own for what
each of them has: `FdSpec`, `ArenaTypeOK`, `callbackVars`.

**LfiStack** is the stack of a context with everything that moves its pointer:
`stack_push` for parameters, `stage_stack_args` for the arguments beyond the
registers, the function's frame and the callbacks below it. A frame keeps the
value the code keeps (`saved`) and, as history, the parts it took. **Lfi**
extends it with `LFIManager`, the ladder of `create` (engine, process, library,
thread, first run; each may fail, and the destructor undoes what there is),
`get_thread_ctx` with its per-thread list, and the threads. What the runtime
does is modelled from how the backend uses it: it has a bounded number of boxes,
gives addresses of boxes, which may be those of freed ones, and a context for
each thread it is asked to clone for. What a thread finds under the address of a
box that is gone is a context the runtime has freed; its registers are taken to
be as they were left, whichever memory it is.

## 4. What is checked

### Runs that pass

| run | instance | states | what it shows |
|---|---|---|---|
| `channel` | 2 calls, a look-up, a closure; 2 callback arguments, at most 2 callbacks per call | 232,337 | `NoDataRace`, `NoLostWakeup`, `OwnResult`; `ImplementsRpc` (refinement); `EveryCallReturns` (liveness) |
| `lifecycle` | the creating thread and 2 more, 2 symbols | 249,126 | `ChannelsListed`, `NoUseAfterFree`, `ControlReplyIsMine`; `OperationsEnd`, `DestroyFinishes`, `WorkerLeavesWithThread` (liveness) |
| `shared`, identity | 2 threads, regions of 1 or 2 pages, address spaces of 4, 3 candidates, 1 other page | 328,051 in all | `SameAddress`, `NothingLeft`, `OthersKept` |
| `shared`, fds | 2 threads, 4 files, 3 host numbers (1 direct, 2 overflow), 3 sandbox numbers | | `FdIsSameFile`, `CacheSound` |
| `shared`, marshal | every signature of up to 10 arguments of 2 classes | | `NoOverrun`, `ArgsArrive` |
| `calls`, sandbox | 2 threads, a process and a passthrough sandbox, blocks of 3 cells, pages of 2, 3 calls, callbacks or copies under way | 1,657,338 in all | `CallsBackUndisturbed`, `CopyExact` |
| `calls`, arena | variables of 1 and 3 bytes, pieces of 2, 8 bytes | | `ParamsApart`, `FunctionSeesInputs`, `FirstCallDelivers`, `ArenaReclaimed` |
| `calls`, callbacks | 2 threads, 2 functions, 3 slots | | `StubRunsOwnFunction`, `PublishedIsFilled`, `AcceptedFindsStub` |
| `lfi` | 2 threads, 2 sandboxes, 2 boxes, room for 2, 4 frames open, 1 parameter for each context, types of 4 and 16 bytes, 2 and 10 arguments | 327,407 | `OwnContext`, `CapacityKept`, `StackBalanced`, `PartsApart` |

All of them check the type invariants of their modules, and deadlock.

`shared` and `calls` each check three modules at once (`MCShared`, `MCCalls`).
These have no variable and no lock in common, so a step of one neither enables
nor changes anything of another, and no invariant is about two of them: a
behaviour of all three is, part by part, one of each. A behaviour of the run is
therefore about one part, chosen at the start (`part`), and the states of the
run are the sum of those of its parts and not the product. Where parts are
reduced by the symmetry of threads and files, no definition of theirs makes a
difference between two of these.

### Why the bounds are enough

* `channel`: a channel is used by one pair of threads, so there is nothing to
  have more of but requests, which follow one another for ever. Two calls make
  a stale request or result visible, two callbacks with two arguments a stale or
  swapped answer. The proofs drop the bound.
* `lifecycle`: two threads race for the locks and the list while the third
  creates or destroys; the list has up to three entries, so the one that leaves
  may be the first, the middle or the last. Of the loop over eight symbols two
  turns are a first and a last.
* `shared`, fds: both halves of the cache are used, the overflow has two entries
  (an inner one can leave), the sandbox's table can be full.
* `calls`, callbacks: two threads and three slots, so there are registrations
  that are refused and rolled back, a stub that means different functions on the
  two workers, and one that means none on one of them.
* `calls`, arena: there is room for both variables and once more for the first
  alone, so that later calls with a context fill the arena to its last byte, and
  one more parameter of either does not fit and throws with others in place; a
  value of three bytes can be torn. One context is alive at a time, which is
  what the contract allows.
* `shared`, marshal: the real register counts, spill words and argument limit;
  only the types are reduced to one for each class (a one-byte and an eight-byte
  one).
* `shared`, identity: there is room for both regions or not; a candidate may be
  free, taken, or free and too short, and may be taken between look-up and
  mapping.
* `calls`, sandbox: a callback needs a call around it and another sandbox's call
  inside, that is three things under way; copies of no cell, of less than a
  page, of a page and of one and a bit; the other thread does the same
  meanwhile. Frames are counted over both threads. The proofs drop every bound.
* `lfi`: four frames are a context, a call with spilled arguments over its
  parameter, a callback, and a context or call inside that, in one thread or
  shared by two. The engine is full with both sandboxes. The real numbers of
  registers of x86-64; types whose size is and is not a multiple of the
  stack's alignment. A second parameter would lie below the first as a first
  does below the frame around it; the proofs allow any number.

### Runs that find a violation

Each states what a document, comment or test of the repository says.

* `reentrant`: a host callback that calls into the sandbox stores its request
  where the worker waits for the callback's answer. `README.md` says that the
  backends have the same API, and `test/test_passthrough_reentrant.cc` does this
  with another one.
* `deadcall`: the watcher "to detect sandbox death" tells the control channel
  only; a call under way on a thread's own channel waits for ever, although its
  wait has a branch for DEAD.
* `fd_crossed`: `pbox_mmap_identity` and `create_channel_locked` send without
  `fd_lock`. With another send in flight the two workers may each take the
  other's descriptor.
* `callbacks_crossed`: `pbox.h` says that `pbox_register_callback` returns "a
  function pointer valid in the sandbox address space", and `README.md` that
  there is support for threads and callbacks. The records behind the stubs are
  thread-local: called on the worker of another thread, the pointer runs what
  that thread has registered under the same stub or, its record being zero, the
  box's first callback. What does hold on every worker is `StubRunsOwnFunction`.
* `arena_again`: the example of `README.md` makes a second call with one
  context. `finalize` has been done then and does nothing, so that `result` does
  not come back. What does hold is `FirstCallDelivers`, and `FunctionSeesInputs`
  for later calls too.
* `lfi_reuse`: `get_thread_ctx` never forgets a box, and nothing in the
  repository keeps the runtime from putting a box where a freed one was. The
  thread then calls the new sandbox on the context of the one that is gone. The
  other backends, for which `README.md` promises the same API, keep nothing of a
  sandbox that is gone. What does hold is `OwnContext`: no thread gets another's
  context, and this is the only way to a wrong one. That the runtime does use
  addresses again is an assumption of the model: its source is not here.
* `sandbox_thunk`: `sbox.hh` says the current sandbox is "set during sandbox
  calls so that callback thunks can inject the sandbox reference into user
  callbacks". No call restores it: after a callback that called another sandbox,
  the later callbacks of the outer call are given that one. The run has two
  processes in one thread. Calls of the static mode that never set it
  (`CallPlainly`) would violate `CallbackKnowsSandbox` as well.

### The callers' contract

The passing runs assume of the caller what the repository's own clients keep
to; a constant or a guard names each assumption.

* callbacks of a process do not call into it (`Channel`, and `Idle` of
  `Sandbox`); the run `reentrant` shows what happens otherwise;
* no second context while one is alive, whose destructor would give back the
  parameters of the first (`MaxContexts = 1` of `Arena`); no document says
  whether that is meant;
* with LFI, parameters are pushed by the context that the thread opened last
  (`MakeParam`, `Push`). The code takes any open context; what is pushed by an
  outer one is given back by the destructor of the inner one (`lfi.hh`,
  480-483), and the next push would overlap it;
* no unlocked send at the same time as another send, no `pbox_close` at the
  same time as a send, and no host `close` of a descriptor that is still cached
  (`Relaxed` of `FdPass`: "raw", "close", "reuse"); the run `fd_crossed` sees
  what the first of these hides;
* nobody is inside a call, or in a thread-exit destructor, when the box is
  destroyed (`Quiescent` of `Lifecycle`);
* a thread whose channel could not be listed tries again only when the worker it
  dismissed has left (`NeedsChannel`);
* a thread copies to and from memory it has allocated, as far as that reaches
  (`Sandbox`);
* with LFI, a thread's first use of a sandbox is not `context()`, which would
  read the registers of a context that is not there (`BeginContext`); nobody is
  in a sandbox that is destroyed (`Destroy`); the manager is destroyed when no
  sandbox is left (`ManagerDestroy`).

### Fairness

`Channel` asks weak fairness of the host thread inside a call and of the worker,
as two processes: both are runnable threads, the host's callback returns and so
does the sandboxed function. Nothing is asked of starting a call, exiting, or
spurious wakeups, and none is needed for a lock: there is none. `Lifecycle` asks
it of each thread inside an operation, of each worker, of the control loop, the
watcher and `pbox_destroy`. A thread waiting to begin a channel's creation need
not get `channel_lock`, which POSIX does not promise. `OperationsEnd` and
`WorkerLeavesWithThread` excuse waits after a `Fault` (the sandbox is dead, a
worker could not be started, the host was killed): those do wait for ever in the
code, which `deadcall` shows for one of them. `DestroyFinishes` excuses nothing.

## 5. What is proved

All proofs are for every value of the constants that satisfies the named
assumptions, and for each of the invariants below, `TypeOK` included, there is a
theorem. The inductive invariants were model-checked on the instances of the
runs before they were proved.

**ChannelProofs** (`KindsAssumption`: the three kinds of requests are disjoint;
`MaxCallbacksAssumption`). None of the properties is inductive: each says
something about one thread and depends on where the other may be. The inductive
invariant `Ind` is `TypeOK` and

* `Control`: for each value of the state word, where both threads may be;
* `Data`: what the page and the stacks hold there, such as that the arguments
  of the call are in `arg_storage` until the worker takes the request, and that
  the answers given and received agree;
* `Futex`: a thread about to sleep has loaded a word it does not wait for;
* `NoLostWakeup` itself.

`InitInd`, `HostInd` and `WorkerInd` show it inductive, an action at a time.
From it follow `TypeCorrect`, `WakeupsKept`, `RaceFree`, `ResultsMatch`, and
`Refinement`: under the mapping of `Channel` (`PhaseBar`, `ReqBar`, ...) the
initial state is `Rpc`'s and each step is one of `Rpc`'s or stutters. The bound
on callbacks is a parameter, so the results hold for any number.

**LifecycleProofs** (`MainAssumption`: the threads are finitely many and one of
them creates the box; `NoThreadAssumption`; `SymbolsAssumption`: there is a
symbol to look up). Each property says what a thread finds at one moment, and
depends on who may be where. `Ind` says that: where the creating thread is says
what there is of the box, and without one nobody is inside an operation
(`BoxWithMain`); `channel_lock` is held from the first to the last step of a
creation (`LockHeld`); a request or an answer is on the control channel only
while the holder of the lock waits for it (`RoundTrip`), whatever the watcher
stores there meanwhile; and for each thread, at each of its steps, whether the
key is set, the page mapped and the channel listed (`ChannelOf`). The list has
nobody twice (`Once`), which the swap with the last entry keeps. Hence
`ListIsExact`, `NothingFreedIsUsed`, `RepliesAreMine`, for any number of threads
and symbols.

**MarshalProofs** (`ClassesAssumption`, `SizeAssumption`, `CountsAssumption`,
and the two that the code owes: `StorageAssumption`, its static assertion, and
`SpillAssumption`, that the spill words make up for the registers of either
class). `NothingOverrun` is `NoOverrun` for any register file and signature.
`Ind` counts what `NoOverrun` does not: before argument i at most `8 * (i - 1)`
bytes are used, and of i - 1 arguments those on the stack came after one class
had used up its registers (`Placed`). `EveryArgArrives` is `ArgsArrive`, which
compares what the loops did with a convention stated by cardinalities, without
loops. `Travel` follows the bytes: in `arg_storage` argument n lies whole and
below what is in use (`Packed`), in the image it is where the count of its class
says (`InImage`), the words pushed so far are the last of the spilled ones, and
the closure finds what the caller saved. That the counts of the loops are those
of the convention (`Used`) is kept argument by argument: one more argument adds
one to the cardinality of its class and to none other (`FiniteSetTheorems`), so
no induction over the signature is needed.

**CallbacksProofs** (`MaxAssumption`; `NobodyAssumption` and
`NothingAssumption`: the names of nobody and nothing are no thread's and no
function's). A registration may still be taken back after it was published,
while others dispatch, so the count does not say which slots stay. `Kept` does:
those below the count and below the index of a registration in progress. `Ind`
says that the closures of every worker are for kept slots and no more than
these, that pointers agree with closures and slots, and where the registration
in progress stands; `CallbackTypeOK` is part of it. A pointer that a thread has
of its own has its function in a slot that stays, under the id its worker keeps
for the stub, so dispatch neither refuses nor finds anything else in it,
although it reads first the count and then the slot while others register. All
theorems, `StubsRunTheirFunction` among them, are of any use of any pointer on
any worker.

**FdPassProofs** (`FdSizesAssumption`; `FdThreadsAssumption`: the threads are
finitely many; `ClosedAssumption`: what is not open is no file; and `Relaxed =
{}`: callers keep to the contract). First the cache is shown to be a map,
`Table`, from host to sandbox descriptors, whatever the sizes of the direct
table and of the vector: `CacheFdAdds` and `UncacheRemoves` say that
pbox_cache_fd adds one entry or none and pbox_uncache_fd takes one away, so that
a descriptor never has two (`Shape`). `FdIsSameFile` speaks of threads that have
received, and `CacheSound` of entries; neither is inductive, since both depend
on what is in flight and on who may close what. `Ind` adds who may be where at
the same time, by the contract and by `fd_lock` (`Exclusion`), that what is in
flight is from the thread whose worker receives (`Socket`), and that a
descriptor somebody owns is open and is being closed at most once (`Owners`): so
the number the kernel gives to a file that arrives is in nobody's hands, and an
entry that still has it is about to be removed (`Pending`). Hence `SameFile` and
`CacheIsSound`, for any number of threads, files and descriptors. For
`TypeCorrect`, the overflow vector is no longer than the host has descriptors,
since each of its entries is another one's, and no more files are in flight than
threads wait for one.

**MemoryProofs**, of `IdentityMap` (`SizesAssumption`; `CandidatesAssumption`:
the search visits pages; `ThreadsAssumption`: what is free or the program's is
no thread's). `SameAddress` and `NothingLeft` are about the ends of an
operation. `Ind` says at each step of it which pages of the host (`HostSide`)
and of the sandbox (`SandboxSide`) are the thread's: those of one extent, at the
address that it remembers there, or none. An address that was looked up may be
taken by another before it is mapped, on either side, and the sandbox may map
elsewhere than it was told; the invariant stays true of what is undone then. A
step of one thread changes its own pages only (`Apart`), which gives
`OthersAreKept` as well as `RegionsAreIdentical` and `FailureLeavesNothing`.

**MemoryProofs**, of `Arena` (`ArenaAssumption`: types have a size, never 0, and
the arena is so much smaller than `Word` that the sum in pbox_idmem_alloc does
not wrap; `InitialAssumption`). Whatever callers do, any number of contexts at a
time included, `ArenaTypes` is inductive: copy backs stay inside the arena, and
without a context the offset is 0. So `ArenaTypeCorrect` and `ArenaIsReclaimed`
need nothing of callers. `ParametersApart`, `ParametersArrive` and
`FirstCallBringsOutputs` are proved for one context at a time (`MaxContexts =
1`), which is used for any number of calls. `ArenaInd` says why they hold: the
parameters of a call follow one another below the offset (`Placed`), so what is
stored for one leaves the others alone (`Held`, `Stored`), and until the context
is finalized the last copy back of the variable of an output is this output's
(`Registered`).

**LfiProofs**, of `LfiStack` (`StackAssumption`: sizes are positive, register
counts are numbers). `StackBalanced` says where the pointer is for the innermost
frame only, and is lost when that frame leaves. `Layout` says it for all of
them: the value each frame saved is where the one around it had left the
pointer, and each frame's parts lie between what it saved and what the frame
inside it saved. So `StackStaysBalanced` and `StackPartsApart` hold for all
sizes, alignments, signatures and depths.

**LfiProofs**, of `Lfi` (`LfiAssumption`). A thread finds its context by an
address that lives longer than the box, so `OwnContext` is about all sandboxes
there ever were: `BoxesApart` (of the sandboxes that are not gone, no two have
the same address), `EntriesOwned` (an entry holds the thread's own context of a
sandbox that has or had this address, or none) and `NestInUse` (what is open is
open on the context that the entry holds). From them, `ContextsAreOwn`, wherever
the runtime puts its boxes. The context found again is the one that was used
before, also where it is that of a sandbox which is gone, since no box is put
where one is in which a scope is open; so each step is one of `LfiStack` on one
context, which gives `StacksBalanced`. `RoomIsKept` needs `Capacities`: without
an engine nobody has a process. **SandboxProofs** (`SandboxAssumption`,
`NullAssumption`: the backends are apart, and nothing is called `Null`). Threads
share the symbol cache only, so `Ind` is said of each thread. Its calls and
callbacks take turns, and a process has at most one call of a thread (`Shape`);
the state of each channel is that of the frames and of the copy (`Channels`),
and a copy is made by the host program outside the callbacks of its process
(`Apart`). `Progress` is the loop invariant of a copy: the first `at` cells are
done, or the first `at` and a piece when the worker is ahead of the host, and
the page holds the next. Hence `WaitingWorkerIsLeftAlone` and `CopiesAreExact`,
for any depth, page and length.

Only model-checked: the liveness properties (`EveryCallReturns`,
`OperationsEnd`, `DestroyFinishes`, `WorkerLeavesWithThread`), since the prover
has no rules for fairness and `ENABLED` here, and what the seven runs that find
a violation show. The proofs of `FdPass` and three of `Arena` are for callers
that keep to the contract of section 4; what others meet is for TLC.

## 6. What is not modelled

* The contents of results and arguments, logging, formatting and the names of
  symbols: no property is about them.
* The seccomp tables: they are data for the kernel, and to the rest they are a
  reason for the sandbox to die.
* Weak memory: the code uses sequentially consistent atomics, and with
  `NoDataRace` the plain fields behave as in the model.
* `pbox_alive` and process numbers, `pbox_in_idmem`, `pbox_realloc`, `pbox_mmap`
  and `pbox_mmap_box_fd` (calls like `malloc`), `verify`, and the members of the
  C++ classes that hand their arguments on.
* The arena of the passthrough backend, which all sandboxes of a thread share.
* Of LFI: the symbol cache, `mmap`, `register_callback`, the values of arguments
  and results, and the runtime itself.
* The type traits and pointer wrappers of `sbox.hh`, which have no state and are
  the compiler's to check.
* What a sandbox that breaks the protocol would meet: the ids and offsets that
  `pbox_dispatch_callback` refuses are sent by no worker of `Channel`, where a
  dispatch always runs the function. (An id not yet published is in
  `Callbacks`.)
* The descriptors that `pbox_create` leaves open when the fork fails. That a
  failed creation of a channel dismisses its worker is in `Lifecycle`, and no
  property asks for it.
* The steps of `pbox_create` before the fork, which are one step that may fail:
  no other thread exists for the box yet.
* AArch64: register counts are constants of `Marshal`; its `dyfn_call` copies
  the stack words upwards where x86-64 pushes them.
