------------------------------ MODULE Channel ------------------------------
(***************************************************************************)
(* One PBoxChannel: the page of memory a host thread shares with its       *)
(* worker thread in the sandbox, and the protocol the two run over its     *)
(* state word.  Every atomic load, store, FUTEX_WAIT and FUTEX_WAKE of the *)
(* code is a step of its own, and so is every access to the unprotected    *)
(* fields, so all the interleavings of the two threads are here.           *)
(*                                                                         *)
(* The host thread runs pbox_call, pbox_dlsym, pbox_send_fd_on_channel and *)
(* pbox_register_callback (src/src/pbox/pbox.c), the worker dispatch_loop  *)
(* and dyfn_closure_dispatch (src/src/pbox/pbox_sandbox.c).  This module   *)
(* takes the callback of the host to be a plain function that does not     *)
(* call into the sandbox again; ChannelReentrant.tla lets it.              *)
(***************************************************************************)
EXTENDS Naturals, Sequences

CONSTANTS Calls,        \* PBOX_REQ_CALL requests
          Lookups,      \* requests whose answer is read after the word is
                        \* back to IDLE: DLSYM, RECV_FD
          Closures,     \* requests whose answer is read before: CREATE_CLOSURE
          CbArgs,       \* arguments a sandboxed function gives a callback
          MaxCallbacks  \* bound on the callbacks made by one call

Requests == Calls \cup Lookups \cup Closures

ASSUME KindsAssumption ==
         /\ Calls \cap (Lookups \cup Closures) = {}
         /\ Lookups \cap Closures = {}

ASSUME MaxCallbacksAssumption == MaxCallbacks \in Nat

VARIABLES
  state,           \* the state word, the only field accessed atomically
  request,         \* request_type and the fields that say what is requested
  arg_storage,     \* arguments of the call, or of the callback
  result_storage,  \* result of the call, or of the callback
  response,        \* symbol_addr, received_fd, closure_addr
  hpc, hcur,       \* host thread: where it is, the word it last loaded
  hreq, hcb,       \* its request, the argument of the callback it runs
  given, got,      \* history: answers it gave, last request it completed
  wpc, wcur,       \* worker thread: where it is, the word it last loaded
  wreq, wcb,       \* the request it executes, the argument of its callback
  wlog             \* the answers its callbacks got

chan  == <<state, request, arg_storage, result_storage, response>>
host  == <<hpc, hcur, hreq, hcb, given, got>>
worker == <<wpc, wcur, wreq, wcb, wlog>>
vars  == <<chan, host, worker>>

None == <<>>

Answer(c) == [answer |-> c]          \* what the host's callback computes
Ret(r, l) == [req |-> r, log |-> l]  \* what the sandboxed function computes

States == {"IDLE", "REQUEST", "RESPONSE", "CALLBACK", "EXIT"}

HostPcs == {"ready", "pack", "store_req", "wake_req", "poll", "futex",
            "asleep", "dispatch", "in_cb", "release", "read",
            "store_exit", "wake_exit", "gone"}

WorkerPcs == {"poll", "futex", "asleep", "run", "exec", "pack_cb",
              "store_cb", "wake_cb", "cbpoll", "cbfutex", "cbasleep",
              "cbread", "store_resp", "wake_resp", "done"}

\* create_channel_locked leaves the word IDLE and the page zeroed, and
\* returns once the worker has published sandbox_channel_addr, that is just
\* before it enters dispatch_loop.
Init == /\ state = "IDLE"
        /\ request = None /\ arg_storage = None
        /\ result_storage = None /\ response = None
        /\ hpc = "ready" /\ hcur = "IDLE"
        /\ hreq = None /\ hcb = None
        /\ given = <<>> /\ got = None
        /\ wpc = "poll" /\ wcur = "IDLE"
        /\ wreq = None /\ wcb = None /\ wlog = <<>>

\* An operator with a double underscore in its name is a deliberately wrong
\* variant of the one that follows it, a mistake this code could contain: the
\* properties are validated by putting it in the place of the right one.

----------------------------------------------------------------------------
(***************************** The host thread *****************************)

Begin(r) == /\ hpc = "ready"
            /\ hpc' = "pack"
            /\ hreq' = r
            /\ given' = <<>>
            /\ UNCHANGED <<chan, hcur, hcb, got, worker>>

\* The request and, for a call, its arguments are written in place.
HostPack == /\ hpc = "pack"
            /\ hpc' = "store_req"
            /\ request' = hreq
            /\ arg_storage' = IF hreq \in Calls THEN hreq ELSE arg_storage
            /\ UNCHANGED <<state, result_storage, response, hcur, hreq, hcb,
                           given, got, worker>>

\* pbox_set_state(REQUEST): a new request, or a callback that is answered.
HostStoreRequest == /\ hpc = "store_req"
                    /\ state' = "REQUEST"
                    /\ hpc' = "wake_req"
                    /\ UNCHANGED <<request, arg_storage, result_storage,
                                   response, hcur, hreq, hcb, given, got,
                                   worker>>

\* FUTEX_WAKE reaches the worker if it is in the kernel's queue.
WakeWorker == /\ wpc' = IF wpc = "asleep" THEN "poll"
                        ELSE IF wpc = "cbasleep" THEN "cbpoll" ELSE wpc
              /\ UNCHANGED <<wcur, wreq, wcb, wlog>>

HostWakeRequest == /\ hpc = "wake_req"
                   /\ hpc' = "poll"
                   /\ WakeWorker
                   /\ UNCHANGED <<chan, hcur, hreq, hcb, given, got>>

\* One turn of pbox_wait_for_response (a call) or of pbox_wait_for_state
\* with RESPONSE (the other requests, which know nothing of CALLBACK).
HostPoll == /\ hpc = "poll"
            /\ \/ /\ state = "RESPONSE"
                  /\ hpc' = IF hreq \in Closures THEN "read" ELSE "release"
                  /\ UNCHANGED hcur
               \/ /\ state = "CALLBACK" /\ hreq \in Calls
                  /\ hpc' = "dispatch"
                  /\ UNCHANGED hcur
               \/ /\ state # "RESPONSE"
                  /\ ~(state = "CALLBACK" /\ hreq \in Calls)
                  /\ hpc' = "futex"
                  /\ hcur' = state
            /\ UNCHANGED <<chan, hreq, hcb, given, got, worker>>

HostFutexWait__NoCompare ==
  /\ hpc = "futex"
  /\ hpc' = "asleep"
  /\ UNCHANGED <<chan, hcur, hreq, hcb, given, got, worker>>

\* FUTEX_WAIT: the kernel compares the word with the value that was loaded.
HostFutexWait == /\ hpc = "futex"
                 /\ hpc' = IF state = hcur THEN "asleep" ELSE "poll"
                 /\ UNCHANGED <<chan, hcur, hreq, hcb, given, got, worker>>

HostSpurious == /\ hpc = "asleep"
                /\ hpc' = "poll"
                /\ UNCHANGED <<chan, hcur, hreq, hcb, given, got, worker>>

\* The two storages of the page confused.
HostDispatch__WrongStorage ==
  /\ hpc = "dispatch"
  /\ hpc' = "in_cb"
  /\ hcb' = result_storage
  /\ UNCHANGED <<chan, hcur, hreq, given, got, worker>>

\* pbox_dispatch_callback: the arguments are read from the page ...
HostDispatch == /\ hpc = "dispatch"
                /\ hpc' = "in_cb"
                /\ hcb' = arg_storage
                /\ UNCHANGED <<chan, hcur, hreq, given, got, worker>>

HostAnswer__NotStored ==
  /\ hpc = "in_cb"
  /\ hpc' = "store_req"
  /\ given' = Append(given, Answer(hcb))
  /\ hcb' = None
  /\ UNCHANGED <<chan, hcur, hreq, got, worker>>

\* ... and what the host function returned is written there.
HostAnswer == /\ hpc = "in_cb"
              /\ hpc' = "store_req"
              /\ result_storage' = Answer(hcb)
              /\ given' = Append(given, Answer(hcb))
              /\ hcb' = None
              /\ UNCHANGED <<state, request, arg_storage, response, hcur,
                             hreq, got, worker>>

\* The word goes back to IDLE, with no wake: nobody waits for it.
HostRelease == /\ hpc = "release"
               /\ state' = "IDLE"
               /\ hpc' = IF hreq \in Closures THEN "ready" ELSE "read"
               /\ UNCHANGED <<request, arg_storage, result_storage, response,
                              hcur, hreq, hcb, given, got, worker>>

Delivered == IF hreq \in Calls THEN result_storage ELSE response

HostRead == /\ hpc = "read"
            /\ got' = <<hreq, Delivered>>
            /\ hpc' = IF hreq \in Closures THEN "release" ELSE "ready"
            /\ UNCHANGED <<chan, hcur, hreq, hcb, given, worker>>

\* The thread exits: channel_destructor tells the worker and unmaps.
BeginExit == /\ hpc = "ready"
             /\ hpc' = "store_exit"
             /\ UNCHANGED <<chan, hcur, hreq, hcb, given, got, worker>>

HostStoreExit == /\ hpc = "store_exit"
                 /\ state' = "EXIT"
                 /\ hpc' = "wake_exit"
                 /\ UNCHANGED <<request, arg_storage, result_storage,
                                response, hcur, hreq, hcb, given, got, worker>>

HostWakeExit == /\ hpc = "wake_exit"
                /\ hpc' = "gone"
                /\ WakeWorker
                /\ UNCHANGED <<chan, hcur, hreq, hcb, given, got>>

----------------------------------------------------------------------------
(**************************** The worker thread ****************************)

WakeHost__Lost == UNCHANGED host

WakeHost == /\ hpc' = IF hpc = "asleep" THEN "poll" ELSE hpc
            /\ UNCHANGED <<hcur, hreq, hcb, given, got>>

\* The wait at the head of dispatch_loop.
WorkerPoll == /\ wpc = "poll"
              /\ \/ state = "REQUEST" /\ wpc' = "run" /\ UNCHANGED wcur
                 \/ state = "EXIT" /\ wpc' = "done" /\ UNCHANGED wcur
                 \/ /\ state \notin {"REQUEST", "EXIT"}
                    /\ wpc' = "futex"
                    /\ wcur' = state
              /\ UNCHANGED <<chan, host, wreq, wcb, wlog>>

WorkerFutexWait ==
  /\ \/ /\ wpc = "futex"
        /\ wpc' = IF state = wcur THEN "asleep" ELSE "poll"
     \/ /\ wpc = "cbfutex"
        /\ wpc' = IF state = wcur THEN "cbasleep" ELSE "cbpoll"
  /\ UNCHANGED <<chan, host, wcur, wreq, wcb, wlog>>

\* The wait of a callback taken for over when the futex returns.
WorkerSpurious__NoRecheck ==
  /\ \/ wpc = "asleep" /\ wpc' = "poll"
     \/ wpc = "cbasleep" /\ wpc' = "cbread"
  /\ UNCHANGED <<chan, host, wcur, wreq, wcb, wlog>>

WorkerSpurious == /\ \/ wpc = "asleep" /\ wpc' = "poll"
                     \/ wpc = "cbasleep" /\ wpc' = "cbpoll"
                  /\ UNCHANGED <<chan, host, wcur, wreq, wcb, wlog>>

\* The request is dispatched on its type.  The arguments of a call are
\* loaded into registers here, so callbacks may reuse arg_storage.
WorkerRun == /\ wpc = "run"
             /\ \/ /\ request \in Calls
                   /\ wpc' = "exec"
                   /\ wreq' = arg_storage
                   /\ UNCHANGED response
                \/ /\ request \notin Calls
                   /\ wpc' = "store_resp"
                   /\ wreq' = request
                   /\ response' = Ret(request, <<>>)
             /\ UNCHANGED <<state, request, arg_storage, result_storage,
                            host, wcur, wcb, wlog>>

\* The function calls back: dyfn_closure_dispatch.
WorkerCallback(c) == /\ wpc = "exec"
                     /\ Len(wlog) < MaxCallbacks
                     /\ wpc' = "pack_cb"
                     /\ wcb' = c
                     /\ UNCHANGED <<chan, host, wcur, wreq, wlog>>

WorkerPackCallback == /\ wpc = "pack_cb"
                      /\ wpc' = "store_cb"
                      /\ arg_storage' = wcb
                      /\ UNCHANGED <<state, request, result_storage, response,
                                     host, wcur, wreq, wcb, wlog>>

WorkerStoreCallback == /\ wpc = "store_cb"
                       /\ state' = "CALLBACK"
                       /\ wpc' = "wake_cb"
                       /\ UNCHANGED <<request, arg_storage, result_storage,
                                      response, host, wcur, wreq, wcb, wlog>>

WorkerWakeCallback == /\ wpc = "wake_cb"
                      /\ wpc' = "cbpoll"
                      /\ WakeHost
                      /\ UNCHANGED <<chan, wcur, wreq, wcb, wlog>>

\* pbox_wait_for_state(REQUEST): the callback has been answered.
WorkerPollCallback == /\ wpc = "cbpoll"
                      /\ \/ state = "REQUEST" /\ wpc' = "cbread"
                            /\ UNCHANGED wcur
                         \/ /\ state # "REQUEST"
                            /\ wpc' = "cbfutex"
                            /\ wcur' = state
                      /\ UNCHANGED <<chan, host, wreq, wcb, wlog>>

WorkerReadAnswer == /\ wpc = "cbread"
                    /\ wpc' = "exec"
                    /\ wlog' = Append(wlog, result_storage)
                    /\ wcb' = None
                    /\ UNCHANGED <<chan, host, wcur, wreq>>

\* Arguments used in place instead of copied: a callback overwrites them.
WorkerFinish__ArgsInPlace ==
  /\ wpc = "exec"
  /\ wpc' = "store_resp"
  /\ result_storage' = Ret(arg_storage, wlog)
  /\ UNCHANGED <<state, request, arg_storage, response,
                 host, wcur, wreq, wcb, wlog>>

\* The function returns and dyfn_store_result stores its value.
WorkerFinish == /\ wpc = "exec"
                /\ wpc' = "store_resp"
                /\ result_storage' = Ret(wreq, wlog)
                /\ UNCHANGED <<state, request, arg_storage, response,
                               host, wcur, wreq, wcb, wlog>>

WorkerStoreResponse == /\ wpc = "store_resp"
                       /\ state' = "RESPONSE"
                       /\ wpc' = "wake_resp"
                       /\ wreq' = None
                       /\ wlog' = <<>>
                       /\ UNCHANGED <<request, arg_storage, result_storage,
                                      response, host, wcur, wcb>>

WorkerWakeResponse == /\ wpc = "wake_resp"
                      /\ wpc' = "poll"
                      /\ WakeHost
                      /\ UNCHANGED <<chan, wcur, wreq, wcb, wlog>>

----------------------------------------------------------------------------
\* What a thread does by itself once it is inside a call: fairness is asked
\* of these steps only.  A thread need not make a request, need not exit,
\* and nothing makes a spurious wakeup happen.
HostStep == \/ HostPack \/ HostStoreRequest \/ HostWakeRequest \/ HostPoll
            \/ HostFutexWait \/ HostDispatch \/ HostAnswer \/ HostRelease
            \/ HostRead \/ HostStoreExit \/ HostWakeExit

WorkerStep == \/ WorkerPoll \/ WorkerFutexWait \/ WorkerRun
              \/ \E c \in CbArgs : WorkerCallback(c)
              \/ WorkerPackCallback \/ WorkerStoreCallback
              \/ WorkerWakeCallback \/ WorkerPollCallback \/ WorkerReadAnswer
              \/ WorkerFinish \/ WorkerStoreResponse \/ WorkerWakeResponse

Spurious == HostSpurious \/ WorkerSpurious

\* Both threads are gone; any other state in which nothing moves is a
\* deadlock, which TLC looks for.
Terminated == hpc = "gone" /\ wpc = "done" /\ UNCHANGED vars

Next == \/ \E r \in Requests : Begin(r)
        \/ BeginExit
        \/ HostStep
        \/ WorkerStep
        \/ Spurious
        \/ Terminated

Spec == Init /\ [][Next]_vars

\* Both threads are scheduled, the host's callback returns, and so does the
\* sandboxed function (it makes at most MaxCallbacks callbacks).
FairSpec == Spec /\ WF_vars(HostStep) /\ WF_vars(WorkerStep)

----------------------------------------------------------------------------
(******************************* Properties ********************************)

Answers    == [answer : CbArgs]
AnswerSeqs == {l \in Seq(Answers) : Len(l) <= MaxCallbacks}
Results    == [req : Requests, log : AnswerSeqs]

\* Every variable is in its type; a log is at most MaxCallbacks answers.
TypeOK ==
  /\ state \in States
  /\ request \in Requests \cup {None}
  /\ arg_storage \in Calls \cup CbArgs \cup {None}
  /\ result_storage \in Results \cup Answers \cup {None}
  /\ response \in Results \cup {None}
  /\ hpc \in HostPcs /\ hcur \in States
  /\ hreq \in Requests \cup {None}
  /\ hcb \in CbArgs \cup {None}
  /\ given \in AnswerSeqs
  /\ got \in (Requests \X Results) \cup {None}
  /\ wpc \in WorkerPcs /\ wcur \in States
  /\ wreq \in Requests \cup {None}
  /\ wcb \in CbArgs \cup {None}
  /\ wlog \in AnswerSeqs

\* The fields other than the state word are plain memory.  Nothing but the
\* protocol keeps the two threads from accessing them at the same time.
HostAccess   == {"pack", "dispatch", "in_cb", "read"}
WorkerAccess == {"run", "exec", "pack_cb", "cbread"}

NoDataRace == ~(hpc \in HostAccess /\ wpc \in WorkerAccess)

\* What the host thread leaves its wait for.
Awaited == IF hreq \in Calls THEN {"RESPONSE", "CALLBACK"} ELSE {"RESPONSE"}

\* FUTEX_WAKE(1) is enough and none is lost: at most one of the two threads
\* is in the kernel's queue, and if the word already says what a sleeping
\* thread waits for, the other is about to wake it.
NoLostWakeup ==
  /\ ~(hpc = "asleep" /\ wpc \in {"asleep", "cbasleep"})
  /\ hpc = "asleep" /\ state \in Awaited => wpc \in {"wake_resp", "wake_cb"}
  /\ wpc = "asleep" /\ state \in {"REQUEST", "EXIT"}
       => hpc \in {"wake_req", "wake_exit"}
  /\ wpc = "cbasleep" /\ state = "REQUEST" => hpc = "wake_req"

\* The caller reads the result of its own request, computed from the answers
\* it gave during this very call; a callback runs on the argument its worker
\* passed, and the worker reads the answer to that callback.  The call and
\* its callbacks share arg_storage and result_storage, and a request finds
\* in them what the one before left.
OwnResult ==
  /\ hpc = "read" => Delivered = Ret(hreq, given)
  /\ hpc = "in_cb" => hcb = wcb /\ given = wlog
  /\ wpc = "cbread" => /\ result_storage = Answer(wcb)
                       /\ given = Append(wlog, Answer(wcb))

\* The host thread is inside a call.
InCall == hpc \notin {"ready", "store_exit", "wake_exit", "gone"}

\* A call that has begun returns.
EveryCallReturns == InCall ~> ~InCall

----------------------------------------------------------------------------
(***************** The channel implements the abstract one *****************)

\* The worker is between the CALLBACK it stored and the answer it reads.
Asking == wpc \in {"wake_cb", "cbpoll", "cbfutex", "cbasleep", "cbread"}

\* The worker has a request on its stack.
InFrame == \/ Asking
           \/ wpc \in {"exec", "pack_cb", "store_cb", "store_resp"}

\* For a closure the answer is read while the word is still RESPONSE, for
\* the other requests once it is IDLE again.
Undelivered == \/ state = "RESPONSE" /\ ~(hpc = "release" /\ hreq \in Closures)
               \/ hpc = "read"

PhaseBar == IF state = "EXIT" THEN "closed"
            ELSE IF Undelivered THEN "returned"
            ELSE IF Asking THEN "asking"
            ELSE IF state = "REQUEST" THEN "called"
            ELSE "idle"

ReqBar   == IF PhaseBar \in {"idle", "closed"} THEN None ELSE hreq
LogBar   == IF InFrame THEN wlog ELSE <<>>
AskedBar == IF Asking THEN wcb ELSE None
ReplyBar == IF Undelivered THEN Delivered ELSE None

Abstract == INSTANCE Rpc WITH
              Lookups <- Lookups \cup Closures,
              phase <- PhaseBar, req <- ReqBar, log <- LogBar,
              asked <- AskedBar, reply <- ReplyBar

\* The shared page, its state word and its futex are an implementation of
\* the conversation of Rpc.
ImplementsRpc == Abstract!RSpec
=============================================================================
