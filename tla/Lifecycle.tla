----------------------------- MODULE Lifecycle -----------------------------
(***************************************************************************)
(* The life of a PBox (src/src/pbox/pbox.c): pbox_create forks the sandbox *)
(* and resolves its symbols, every host thread that makes a call first     *)
(* gets a channel and a worker of its own through the one control channel, *)
(* the sandbox may die at any moment and a watcher thread notices, threads *)
(* exit, and pbox_destroy releases everything.                             *)
(*                                                                         *)
(* A wait on a state word is one step here, enabled when the word has an   *)
(* awaited value: Channel.tla shows that the futex protocol amounts to     *)
(* that.  The other writes of a word, each from its own thread, stay apart. *)
(***************************************************************************)
EXTENDS Naturals, Sequences, FiniteSets, SequencesExt

CONSTANTS Threads,     \* host threads
          Main,        \* the one that creates and destroys the box
          NumSymbols   \* symbols pbox_create resolves (8 in the code)

ASSUME MainAssumption == Main \in Threads /\ IsFiniteSet(Threads)
ASSUME SymbolsAssumption == NumSymbols \in Nat \ {0}

NoThread == "nobody"
ASSUME NoThreadAssumption == NoThread \notin Threads

VARIABLES
  box,      \* the struct PBox: "none", "live", "freed"
  proc,     \* sandbox: "none", "starting", "running", "zombie", "reaped"
  watcher,  \* watcher_thread_fn: "none", "waiting", "storing", "done"
  killed,   \* the host was killed by SIGPIPE
  lock,     \* who holds channel_lock
  ctrl,     \* state word of the control channel
  job,      \* request on the control channel: kind, and thread it is for
  fdok,     \* received_fd of the last RECV_FD is a descriptor
  nsym,     \* symbols resolved so far
  list,     \* box->channels
  tls,      \* thread -> pthread_getspecific(channel_key) is not NULL
  mapped,   \* thread -> the host maps its channel
  word,     \* thread -> state word of its channel
  worker,   \* thread -> its worker: "none", "starting", "loop", "gone",
            \* or "lost" if it could not be started
  pc        \* thread -> where it is

vars == <<box, proc, watcher, killed, lock, ctrl, job, fdok, nsym,
          list, tls, mapped, word, worker, pc>>

NoJob == [kind |-> "none", for |-> NoThread]

Init == /\ box = "none" /\ proc = "none" /\ watcher = "none"
        /\ killed = FALSE
        /\ lock = NoThread
        /\ ctrl = "IDLE" /\ job = NoJob /\ fdok = FALSE /\ nsym = 0
        /\ list = <<>>
        /\ tls = [t \in Threads |-> FALSE]
        /\ mapped = [t \in Threads |-> FALSE]
        /\ word = [t \in Threads |-> "IDLE"]
        /\ worker = [t \in Threads |-> "none"]
        /\ pc = [t \in Threads |-> IF t = Main THEN "start" ELSE "ready"]

Goto(t, l) == pc' = [pc EXCEPT ![t] = l]

unchangedBox  == UNCHANGED <<box, watcher, killed>>
unchangedCtrl == UNCHANGED <<ctrl, job, fdok, nsym>>
unchangedChan == UNCHANGED <<list, tls, mapped, word, worker>>

\* As in Channel, a double underscore marks a deliberately wrong variant of
\* the operator that follows, which a property is validated with.

----------------------------------------------------------------------------
(****************************** pbox_create ********************************)

\* A failing step of pbox_create undoes the ones before it.  (When the fork
\* fails the descriptors of the socket pair stay open, which nothing here
\* depends on.)
CreateFails == /\ pc[Main] = "start"
               /\ Goto(Main, "nobox")
               /\ UNCHANGED <<proc, lock>>
               /\ unchangedBox /\ unchangedCtrl /\ unchangedChan

\* fork, the watcher, and the lock for the symbol lookups.
CreateForks == /\ pc[Main] = "start"
               /\ box' = "live"
               /\ proc' = "starting"
               /\ watcher' = "waiting"
               /\ lock' = Main
               /\ job' = [kind |-> "dlsym", for |-> Main]
               /\ Goto(Main, "ctl_req")
               /\ UNCHANGED <<killed, ctrl, fdok, nsym>>
               /\ unchangedChan

----------------------------------------------------------------------------
(******************** A round trip on the control channel ******************)

\* job' was set when the fields were packed; nothing happens in between.
CtlRequest(t) == /\ pc[t] = "ctl_req"
                 /\ ctrl' = "REQUEST"
                 /\ Goto(t, "ctl_wait")
                 /\ UNCHANGED <<proc, lock, job, fdok, nsym>>
                 /\ unchangedBox /\ unchangedChan

\* pbox_wait_for_state(RESPONSE).
CtlWait(t) == /\ pc[t] = "ctl_wait"
              /\ ctrl = "RESPONSE"
              /\ Goto(t, "ctl_idle")
              /\ UNCHANGED <<proc, lock>>
              /\ unchangedBox /\ unchangedCtrl /\ unchangedChan

\* One symbol too many.
CtlIdle__OneMore(t) ==
  /\ pc[t] = "ctl_idle" /\ job.kind = "dlsym"
  /\ ctrl' = "IDLE"
  /\ nsym' = nsym + 1
  /\ IF nsym <= NumSymbols
     THEN Goto(t, "ctl_req") /\ UNCHANGED <<lock, job>>
     ELSE Goto(t, "ready") /\ lock' = NoThread /\ job' = NoJob
  /\ UNCHANGED <<proc, fdok, list, tls, mapped, word, worker>>
  /\ unchangedBox

\* The word goes back to IDLE and the thread goes on with what it was doing.
CtlIdle(t) ==
  /\ pc[t] = "ctl_idle"
  /\ ctrl' = "IDLE"
  /\ \/ /\ job.kind = "dlsym"
        /\ nsym' = nsym + 1
        /\ IF nsym' < NumSymbols
           THEN Goto(t, "ctl_req") /\ UNCHANGED <<lock, job>>
           ELSE Goto(t, "ready") /\ lock' = NoThread /\ job' = NoJob
        /\ UNCHANGED mapped
     \/ /\ job.kind = "recv_fd" /\ fdok
        /\ job' = [kind |-> "spawn", for |-> t]
        /\ Goto(t, "ctl_req")
        /\ UNCHANGED <<lock, nsym, mapped>>
     \/ /\ job.kind = "recv_fd" /\ ~fdok
        /\ mapped' = [mapped EXCEPT ![t] = FALSE]
        /\ Goto(t, "unlock_null")
        /\ UNCHANGED <<lock, job, nsym>>
     \/ /\ job.kind = "spawn"
        /\ Goto(t, "await_addr")
        /\ UNCHANGED <<lock, job, nsym, mapped>>
  /\ fdok' = FALSE   \* it has been read, and RECV_FD sets it again
  /\ UNCHANGED <<proc, list, tls, word, worker>>
  /\ unchangedBox

----------------------------------------------------------------------------
(************************** create_channel_locked **************************)

\* A channel made without channel_lock.
NeedsChannel__NoLock(t) ==
  /\ pc[t] = "ready" /\ box = "live"
  /\ pc[Main] \notin {"d_join", "d_clean", "d_free"}
  /\ ~tls[t]
  /\ worker[t] # "loop"
  /\ lock' = t
  /\ Goto(t, "mk_send")
  /\ UNCHANGED proc
  /\ unchangedBox /\ unchangedCtrl /\ unchangedChan

\* A call of a thread that has no channel yet: get_or_create_channel.
NeedsChannel(t) == /\ pc[t] = "ready" /\ box = "live"
                   /\ pc[Main] \notin {"d_join", "d_clean", "d_free"}
                   /\ ~tls[t]
                   /\ worker[t] # "loop"   \* see MkListFails
                   /\ lock = NoThread
                   /\ lock' = t
                   /\ Goto(t, "mk_send")
                   /\ UNCHANGED proc
                   /\ unchangedBox /\ unchangedCtrl /\ unchangedChan

SocketOpen == proc \in {"starting", "running"}

\* memfd_create, ftruncate or mmap fails.
MkFails(t) == /\ pc[t] = "mk_send"
              /\ Goto(t, "unlock_null")
              /\ UNCHANGED <<proc, lock>>
              /\ unchangedBox /\ unchangedCtrl /\ unchangedChan

\* The page is mapped and its descriptor sent to the sandbox.
MkSend(t) == /\ pc[t] = "mk_send"
             /\ SocketOpen
             /\ mapped' = [mapped EXCEPT ![t] = TRUE]
             /\ word' = [word EXCEPT ![t] = "IDLE"]
             /\ job' = [kind |-> "recv_fd", for |-> t]
             /\ Goto(t, "ctl_req")
             /\ UNCHANGED <<proc, lock, ctrl, fdok, nsym, list, tls, worker>>
             /\ unchangedBox

\* sendmsg to a sandbox that is gone fails with EPIPE and, since it does not
\* ask for MSG_NOSIGNAL, raises SIGPIPE: the host ends unless it ignores it.
MkSendBroken(t) == /\ pc[t] = "mk_send"
                   /\ ~SocketOpen
                   /\ killed' \in BOOLEAN
                   /\ Goto(t, "unlock_null")
                   /\ UNCHANGED <<box, proc, watcher, lock>>
                   /\ unchangedCtrl /\ unchangedChan

\* The spin on sandbox_channel_addr, which the worker writes as it starts.
MkAwaitAddr(t) == /\ pc[t] = "await_addr"
                  /\ worker[t] = "loop"
                  /\ Goto(t, "mk_list")
                  /\ UNCHANGED <<proc, lock>>
                  /\ unchangedBox /\ unchangedCtrl /\ unchangedChan

\* The channel enters box->channels ...
MkList(t) == /\ pc[t] = "mk_list"
             /\ list' = Append(list, t)
             /\ Goto(t, "unlock_ok")
             /\ UNCHANGED <<proc, lock, tls, mapped, word, worker>>
             /\ unchangedBox /\ unchangedCtrl

\* ... unless malloc or realloc fails: the worker is told to leave.  The
\* model lets the thread try again once it has left.
MkListFails(t) == /\ pc[t] = "mk_list"
                  /\ word' = [word EXCEPT ![t] = "EXIT"]
                  /\ mapped' = [mapped EXCEPT ![t] = FALSE]
                  /\ Goto(t, "unlock_null")
                  /\ UNCHANGED <<proc, lock, list, tls, worker>>
                  /\ unchangedBox /\ unchangedCtrl

\* The error path returns with the lock held.
MkUnlock__OnlyWhenMade(t) ==
  /\ pc[t] = "unlock_ok"
  /\ lock' = NoThread
  /\ tls' = [tls EXCEPT ![t] = TRUE]
  /\ Goto(t, "call_req")
  /\ UNCHANGED <<proc, list, mapped, word, worker>>
  /\ unchangedBox /\ unchangedCtrl

MkUnlock(t) == /\ pc[t] \in {"unlock_ok", "unlock_null"}
               /\ lock' = NoThread
               /\ IF pc[t] = "unlock_ok"
                  THEN tls' = [tls EXCEPT ![t] = TRUE] /\ Goto(t, "call_req")
                  ELSE Goto(t, "ready") /\ UNCHANGED tls
               /\ UNCHANGED <<proc, list, mapped, word, worker>>
               /\ unchangedBox /\ unchangedCtrl

----------------------------------------------------------------------------
(******************************** pbox_call ********************************)

Call(t) == /\ pc[t] = "ready" /\ box = "live"
           /\ pc[Main] \notin {"d_join", "d_clean", "d_free"}
           /\ tls[t]
           /\ Goto(t, "call_req")
           /\ UNCHANGED <<proc, lock>>
           /\ unchangedBox /\ unchangedCtrl /\ unchangedChan

CallRequest(t) == /\ pc[t] = "call_req"
                  /\ word' = [word EXCEPT ![t] = "REQUEST"]
                  /\ Goto(t, "call_wait")
                  /\ UNCHANGED <<proc, lock, list, tls, mapped, worker>>
                  /\ unchangedBox /\ unchangedCtrl

\* pbox_wait_for_response returns on DEAD as well.
CallWait(t) == /\ pc[t] = "call_wait"
               /\ word[t] \in {"RESPONSE", "DEAD"}
               /\ Goto(t, "call_idle")
               /\ UNCHANGED <<proc, lock>>
               /\ unchangedBox /\ unchangedCtrl /\ unchangedChan

CallIdle(t) == /\ pc[t] = "call_idle"
               /\ word' = [word EXCEPT ![t] = "IDLE"]
               /\ Goto(t, "ready")
               /\ UNCHANGED <<proc, lock, list, tls, mapped, worker>>
               /\ unchangedBox /\ unchangedCtrl

----------------------------------------------------------------------------
(****************** The sandbox process and its watcher ********************)

\* The program is executed and enters the control channel's dispatch loop.
SandboxStarts == /\ proc = "starting"
                 /\ proc' = "running"
                 /\ UNCHANGED <<lock, pc>>
                 /\ unchangedBox /\ unchangedCtrl /\ unchangedChan

\* execl fails, a signal, a seccomp violation, exit: from any point.
SandboxDies == /\ proc \in {"starting", "running"}
               /\ proc' = "zombie"
               /\ UNCHANGED <<lock, pc>>
               /\ unchangedBox /\ unchangedCtrl /\ unchangedChan

\* dispatch_loop on the control channel.  recv_fd may find no descriptor;
\* the result of pthread_create in pbox_spawn_worker is dropped.
ServeControl ==
  /\ proc = "running"
  /\ ctrl = "REQUEST"
  /\ ctrl' = "RESPONSE"
  /\ \/ job.kind = "dlsym" /\ UNCHANGED <<fdok, worker>>
     \/ job.kind = "recv_fd" /\ fdok' \in BOOLEAN /\ UNCHANGED worker
     \/ /\ job.kind = "spawn"
        /\ \E w \in {"starting", "lost"} :
             worker' = [worker EXCEPT ![job.for] = w]
        /\ UNCHANGED fdok
  /\ UNCHANGED <<proc, lock, job, nsym, list, tls, mapped, word, pc>>
  /\ unchangedBox

\* worker_thread_fn: maps the page, installs its filter, publishes
\* sandbox_channel_addr; if it cannot it returns and nobody is told.
WorkerStarts(t) == /\ proc = "running"
                   /\ worker[t] = "starting"
                   /\ \E w \in {"loop", "lost"} :
                        worker' = [worker EXCEPT ![t] = w]
                   /\ UNCHANGED <<proc, lock, list, tls, mapped, word, pc>>
                   /\ unchangedBox /\ unchangedCtrl

ServeCall(t) == /\ proc = "running"
                /\ worker[t] = "loop"
                /\ word[t] = "REQUEST"
                /\ word' = [word EXCEPT ![t] = "RESPONSE"]
                /\ UNCHANGED <<proc, lock, list, tls, mapped, worker, pc>>
                /\ unchangedBox /\ unchangedCtrl

WorkerLeaves(t) == /\ proc = "running"
                   /\ worker[t] = "loop"
                   /\ word[t] = "EXIT"
                   /\ worker' = [worker EXCEPT ![t] = "gone"]
                   /\ UNCHANGED <<proc, lock, list, tls, mapped, word, pc>>
                   /\ unchangedBox /\ unchangedCtrl

\* A watcher that gives up once the box is being destroyed.
WatcherReaps__NotDestroying == /\ watcher = "waiting"
                               /\ proc = "zombie"
                               /\ pc[Main] # "d_join"
                               /\ proc' = "reaped"
                               /\ watcher' = "storing"
                               /\ UNCHANGED <<box, killed, lock, pc>>
                               /\ unchangedCtrl /\ unchangedChan

\* watcher_thread_fn: waitpid ...
WatcherReaps == /\ watcher = "waiting"
                /\ proc = "zombie"
                /\ proc' = "reaped"
                /\ watcher' = "storing"
                /\ UNCHANGED <<box, killed, lock, pc>>
                /\ unchangedCtrl /\ unchangedChan

\* ... then DEAD on the control channel, the only one it knows.
WatcherStores == /\ watcher = "storing"
                 /\ ctrl' = "DEAD"
                 /\ watcher' = "done"
                 /\ UNCHANGED <<box, proc, killed, lock, job, fdok,
                                nsym, pc>>
                 /\ unchangedChan

----------------------------------------------------------------------------
(****************** A thread exits: channel_destructor *********************)

\* The key's destructor runs only for a thread that has a channel, and no
\* more once pbox_destroy has deleted the key.
ThreadExits(t) == /\ t # Main /\ pc[t] = "ready"
                  /\ pc[Main] \notin {"d_join", "d_clean", "d_free"}
                  /\ Goto(t, IF tls[t] THEN "x_exit" ELSE "gone")
                  /\ UNCHANGED <<proc, lock>>
                  /\ unchangedBox /\ unchangedCtrl /\ unchangedChan

\* Only the host's side is taken down.
ExitStores__Silent(t) == /\ pc[t] = "x_exit"
                         /\ Goto(t, "x_unmap")
                         /\ UNCHANGED <<proc, lock>>
                         /\ unchangedBox /\ unchangedCtrl /\ unchangedChan

ExitStores(t) == /\ pc[t] = "x_exit"
                 /\ word' = [word EXCEPT ![t] = "EXIT"]
                 /\ Goto(t, "x_unmap")
                 /\ UNCHANGED <<proc, lock, list, tls, mapped, worker>>
                 /\ unchangedBox /\ unchangedCtrl

ExitUnmaps(t) == /\ pc[t] = "x_unmap"
                 /\ mapped' = [mapped EXCEPT ![t] = FALSE]
                 /\ Goto(t, "x_unlist")
                 /\ UNCHANGED <<proc, lock, list, tls, word, worker>>
                 /\ unchangedBox /\ unchangedCtrl

\* The last channel is dropped instead of the one that leaves.
SwapRemove__Last(l, t) == SubSeq(l, 1, Len(l) - 1)

\* The last channel takes the place of the one that leaves.
SwapRemove(l, t) ==
  LET i == CHOOSE j \in DOMAIN l : l[j] = t
  IN  [j \in 1..(Len(l) - 1) |-> IF j = i THEN l[Len(l)] ELSE l[j]]

\* The search, the removal and the unlock, in one critical section.
ExitUnlists(t) == /\ pc[t] = "x_unlist"
                  /\ lock = NoThread
                  /\ list' = SwapRemove(list, t)
                  /\ tls' = [tls EXCEPT ![t] = FALSE]
                  /\ Goto(t, "gone")
                  /\ UNCHANGED <<proc, lock, mapped, word, worker>>
                  /\ unchangedBox /\ unchangedCtrl

----------------------------------------------------------------------------
(****************************** pbox_destroy *******************************)

\* The caller's side of the contract: nobody is inside a call, and nobody
\* who has a channel is on its way out.  Idle threads may keep theirs.
Quiescent == \A t \in Threads : pc[t] \in {"ready", "gone"}

DestroyKills == /\ pc[Main] = "ready" /\ box = "live"
                /\ Quiescent
                /\ proc' = IF proc = "reaped" THEN "reaped" ELSE "zombie"
                /\ Goto(Main, "d_join")
                /\ UNCHANGED lock
                /\ unchangedBox /\ unchangedCtrl /\ unchangedChan

DestroyJoins == /\ pc[Main] = "d_join"
                /\ watcher = "done"
                /\ Goto(Main, "d_clean")
                /\ UNCHANGED <<proc, lock>>
                /\ unchangedBox /\ unchangedCtrl /\ unchangedChan

\* Under channel_lock every listed channel is unmapped and freed.
DestroyCleans == /\ pc[Main] = "d_clean"
                 /\ lock = NoThread
                 /\ mapped' = [t \in Threads |->
                                 mapped[t] /\ t \notin ToSet(list)]
                 /\ list' = <<>>
                 /\ Goto(Main, "d_free")
                 /\ UNCHANGED <<proc, lock, tls, word, worker>>
                 /\ unchangedBox /\ unchangedCtrl

\* The key survives the box.
DestroyFrees__KeyKept == /\ pc[Main] = "d_free"
                         /\ box' = "freed"
                         /\ Goto(Main, "gone")
                         /\ UNCHANGED <<proc, watcher, killed, lock, list,
                                        tls, mapped, word, worker>>
                         /\ unchangedCtrl

\* pthread_key_delete forgets the key in every thread, and the box is freed.
DestroyFrees == /\ pc[Main] = "d_free"
                /\ tls' = [t \in Threads |-> FALSE]
                /\ box' = "freed"
                /\ Goto(Main, "gone")
                /\ UNCHANGED <<proc, watcher, killed, lock, list,
                               mapped, word, worker>>
                /\ unchangedCtrl

----------------------------------------------------------------------------
\* The steps a host thread takes by itself once it is inside an operation.
ThreadStep(t) ==
  \/ CtlRequest(t) \/ CtlWait(t) \/ CtlIdle(t)
  \/ MkFails(t) \/ MkSend(t) \/ MkSendBroken(t) \/ MkAwaitAddr(t)
  \/ MkList(t) \/ MkListFails(t) \/ MkUnlock(t)
  \/ CallRequest(t) \/ CallWait(t) \/ CallIdle(t)
  \/ ExitStores(t) \/ ExitUnmaps(t) \/ ExitUnlists(t)

DestroyStep == DestroyJoins \/ DestroyCleans \/ DestroyFrees

\* The threads of the sandbox: the main one, and a worker per channel.
ControlStep == SandboxStarts \/ ServeControl

WorkerStep(t) == WorkerStarts(t) \/ ServeCall(t) \/ WorkerLeaves(t)

WatcherStep == WatcherReaps \/ WatcherStores

\* What may go wrong in the environment and ends in a wait nobody answers.
Fault == \/ proc \in {"zombie", "reaped"}
         \/ killed
         \/ \E t \in Threads : worker[t] = "lost"

\* Without a fault the only place to stop is the end; with one a thread may
\* be left waiting, which the liveness properties are about.
Finished == /\ Fault \/ \A t \in Threads : pc[t] \in {"ready", "gone", "nobox"}
            /\ UNCHANGED vars

Next == \/ /\ ~killed
           /\ \/ CreateFails \/ CreateForks
              \/ \E t \in Threads : \/ ThreadStep(t) \/ NeedsChannel(t)
                                    \/ Call(t) \/ ThreadExits(t)
                                    \/ WorkerStep(t)
              \/ DestroyKills \/ DestroyStep
              \/ ControlStep \/ SandboxDies \/ WatcherStep
        \/ Finished

Spec == Init /\ [][Next]_vars

\* Every thread of the two processes is scheduled once it is inside an
\* operation.  A waiting thread need not get channel_lock (a mutex is not
\* fair), nobody need make a call, exit or destroy, and nothing need fail.
Fairness == /\ \A t \in Threads : /\ WF_vars(~killed /\ ThreadStep(t))
                                  /\ WF_vars(WorkerStep(t))
            /\ WF_vars(~killed /\ DestroyStep)
            /\ WF_vars(ControlStep)
            /\ WF_vars(~killed /\ WatcherStep)

FairSpec == Spec /\ Fairness

----------------------------------------------------------------------------
(******************************* Properties ********************************)

ControlPcs == {"ctl_req", "ctl_wait", "ctl_idle"}
CreatePcs  == {"mk_send", "await_addr", "mk_list", "unlock_ok", "unlock_null"}
CallPcs    == {"call_req", "call_wait", "call_idle"}

TypeOK ==
  /\ box \in {"none", "live", "freed"}
  /\ proc \in {"none", "starting", "running", "zombie", "reaped"}
  /\ watcher \in {"none", "waiting", "storing", "done"}
  /\ killed \in BOOLEAN
  /\ lock \in Threads \cup {NoThread}
  /\ ctrl \in {"IDLE", "REQUEST", "RESPONSE", "DEAD"}
  /\ job \in [kind : {"none", "dlsym", "recv_fd", "spawn"},
              for : Threads \cup {NoThread}]
  /\ fdok \in BOOLEAN /\ nsym \in 0..NumSymbols
  /\ list \in Seq(Threads) /\ Len(list) <= Cardinality(Threads)
  /\ tls \in [Threads -> BOOLEAN] /\ mapped \in [Threads -> BOOLEAN]
  /\ word \in [Threads -> {"IDLE", "REQUEST", "RESPONSE", "EXIT"}]
  /\ worker \in [Threads -> {"none", "starting", "loop", "gone", "lost"}]
  /\ pc \in [Threads -> ControlPcs \cup CreatePcs \cup CallPcs \cup
                        {"start", "nobox", "ready", "x_exit", "x_unmap",
                         "x_unlist", "gone", "d_join", "d_clean", "d_free"}]

\* The list of channels, which several threads grow and shrink, is exactly
\* the set of mapped channels outside their creation and their destructor,
\* each once; so when the box is gone, no channel is left mapped.
ChannelsListed ==
  /\ \A i, j \in DOMAIN list : list[i] = list[j] => i = j
  /\ \A t \in Threads :
       \/ mapped[t] = (t \in ToSet(list))
       \/ lock = t /\ pc[t] \in ControlPcs \cup CreatePcs
       \/ pc[t] = "x_unlist"
       \/ pc[Main] = "d_free"
  /\ box = "freed" => \A t \in Threads : ~mapped[t]

\* A thread that works on its channel, the lock or the list finds the
\* memory there: destroying the box takes the key from the idle threads, so
\* their destructors do not run on what it freed.
NoUseAfterFree ==
  \A t \in Threads :
    /\ pc[t] \in CallPcs \cup {"x_exit", "x_unmap"} => mapped[t]
    /\ pc[t] \in {"x_exit", "x_unmap", "x_unlist"} \/ lock = t
         => box = "live"

\* Host threads share the control channel, and each reads the answer to its
\* own request from it.
ControlReplyIsMine ==
  \A t \in Threads :
    pc[t] \in ControlPcs => /\ lock = t
                            /\ job.for = t
                            /\ ctrl = "RESPONSE" => pc[t] # "ctl_req"

\* An operation that has channel_lock or a channel gives it up, or returns,
\* unless something failed for good.
Inside(t) == lock = t \/ pc[t] \in CallPcs

OperationsEnd == \A t \in Threads : Inside(t) ~> ~Inside(t) \/ Fault

\* Destroying works whatever has happened to the sandbox before.
DestroyFinishes == pc[Main] = "d_join" ~> box = "freed"

\* The worker of a thread that exits does not stay behind in the sandbox.
WorkerLeavesWithThread ==
  \A t \in Threads : pc[t] = "x_exit" ~> worker[t] = "gone" \/ Fault

\* Meant by the watcher thread ("to detect sandbox death") and by the DEAD
\* branch of pbox_wait_for_response: a call under way when the sandbox dies
\* returns.
CallReturnsWhenSandboxDies ==
  \A t \in Threads : pc[t] = "call_wait" ~> pc[t] # "call_wait"
=============================================================================
