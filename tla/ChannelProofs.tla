--------------------------- MODULE ChannelProofs ---------------------------
(***************************************************************************)
(* Proofs about Channel, for every set of requests and callback arguments  *)
(* and every bound on callbacks.  None of the properties is inductive by   *)
(* itself: each depends on where the *other* thread may be for each value  *)
(* of the state word.  Ind says that (Control), what the page holds at     *)
(* each of those points (Data), and that a thread about to sleep in the    *)
(* futex loaded a value it does not react to (Futex).                      *)
(***************************************************************************)
EXTENDS Channel, TLAPS

\* Waiting at the head of the dispatch loop, or on the way there.
AtHead == wpc \in {"poll", "futex", "asleep", "wake_resp"}

HostWaiting == hpc \in {"wake_req", "poll", "futex", "asleep"}

\* For each value of the state word, where the two threads may be.
Control ==
  /\ state = "IDLE" =>
       /\ hpc \in {"ready", "pack", "store_req", "read", "store_exit"}
       /\ hpc = "read" => hreq \notin Closures
       /\ AtHead
  /\ state = "REQUEST" => HostWaiting /\ wpc # "done"
  /\ state = "CALLBACK" =>
       /\ HostWaiting \/ hpc \in {"dispatch", "in_cb", "store_req"}
       /\ Asking /\ wpc # "cbread"
  /\ state = "RESPONSE" =>
       /\ HostWaiting \/ hpc \in {"release", "read"}
       /\ hpc = "read" => hreq \in Closures
       /\ AtHead
  /\ state = "EXIT" =>
       /\ hpc \in {"wake_exit", "gone"}
       /\ AtHead \/ wpc = "done"

\* The request is on the page and no worker has taken it yet.
Posted == state = "REQUEST" /\ (AtHead \/ wpc = "run")

\* The callback in progress has been answered.
Answered == \/ state = "CALLBACK" /\ hpc = "store_req"
            \/ state = "REQUEST" /\ Asking

\* What the page and the two stacks hold.
Data ==
  /\ InCall => hreq \in Requests
  /\ InCall /\ hpc # "pack" => request = hreq
  /\ hpc = "pack" => given = <<>>
  /\ Posted \/ (state = "IDLE" /\ hpc = "store_req") =>
       /\ given = <<>>
       /\ hreq \in Calls => arg_storage = hreq
  /\ InFrame => wreq = hreq
  /\ InFrame /\ wpc # "store_resp" => hreq \in Calls
  /\ wpc \in {"exec", "pack_cb", "store_cb"} => given = wlog
  /\ ~InFrame => wlog = <<>>
  /\ Asking \/ wpc \in {"pack_cb", "store_cb"} =>
       wcb \in CbArgs /\ Len(wlog) < MaxCallbacks
  /\ wpc = "store_cb" => arg_storage = wcb
  /\ state = "CALLBACK" => arg_storage = wcb
  /\ state = "CALLBACK" /\ hpc # "store_req" => given = wlog
  /\ hpc = "in_cb" => hcb = wcb
  /\ hpc # "in_cb" => hcb = None
  /\ wpc \in {"poll", "futex", "asleep", "wake_resp", "done",
              "run", "exec", "store_resp"} => wcb = None
  /\ Answered => /\ result_storage = Answer(wcb)
                 /\ given = Append(wlog, Answer(wcb))
  /\ wpc = "store_resp" => Delivered = Ret(hreq, given) /\ given = wlog
  /\ state = "RESPONSE" \/ hpc = "read" => Delivered = Ret(hreq, given)

Futex ==
  /\ hpc = "futex" => hcur \notin Awaited
  /\ wpc = "futex" => wcur \notin {"REQUEST", "EXIT"}
  /\ wpc = "cbfutex" => wcur # "REQUEST"

Ind == TypeOK /\ Control /\ Data /\ Futex /\ NoLostWakeup

----------------------------------------------------------------------------
(************************ Ind is an inductive invariant ********************)

\* Ind holds when the worker of a new channel enters dispatch_loop.
LEMMA InitInd == Init => Ind
BY MaxCallbacksAssumption
   DEF Init, Ind, TypeOK, Control, Data, Futex, NoLostWakeup, States, HostPcs,
       WorkerPcs, AnswerSeqs, AtHead, HostWaiting, Posted, Answered, Asking,
       InFrame, InCall, None

\* The host thread's steps keep Ind.
LEMMA HostInd ==
  ASSUME Ind,
         \/ \E r \in Requests : Begin(r)
         \/ BeginExit \/ HostStep \/ HostSpurious
  PROVE  Ind'
<1> USE KindsAssumption, MaxCallbacksAssumption
    DEF Ind, TypeOK, Control, Data, Futex, NoLostWakeup, States, HostPcs,
        WorkerPcs, Requests, Results, Answers, AnswerSeqs, AtHead,
        HostWaiting, Posted, Answered, Asking, InFrame, InCall, Awaited,
        Delivered, Answer, Ret, None, chan, host, worker
<1>1. CASE \E r \in Requests : Begin(r)
  <2>1. PICK r \in Requests : Begin(r)
    BY <1>1
  <2> QED
    BY <2>1 DEF Begin
<1>2. CASE BeginExit
  BY <1>2 DEF BeginExit
<1>3. CASE HostPack
  BY <1>3 DEF HostPack
<1>4. CASE HostStoreRequest
  BY <1>4 DEF HostStoreRequest
<1>5. CASE HostWakeRequest
  BY <1>5 DEF HostWakeRequest, WakeWorker
<1>6. CASE HostPoll
  BY <1>6 DEF HostPoll
<1>7. CASE HostFutexWait
  BY <1>7 DEF HostFutexWait
<1>8. CASE HostDispatch
  BY <1>8 DEF HostDispatch
<1>9. CASE HostAnswer
  BY <1>9 DEF HostAnswer
<1>10. CASE HostRelease
  BY <1>10 DEF HostRelease
<1>11. CASE HostRead
  BY <1>11 DEF HostRead
<1>12. CASE HostStoreExit
  BY <1>12 DEF HostStoreExit
<1>13. CASE HostWakeExit
  BY <1>13 DEF HostWakeExit, WakeWorker
<1>14. CASE HostSpurious
  BY <1>14 DEF HostSpurious
<1> QED
  BY <1>1, <1>2, <1>3, <1>4, <1>5, <1>6, <1>7, <1>8, <1>9, <1>10, <1>11, <1>12, <1>13, <1>14
     DEF HostStep

\* The worker's steps keep Ind.
LEMMA WorkerInd ==
  ASSUME Ind, WorkerStep \/ WorkerSpurious
  PROVE  Ind'
<1> USE KindsAssumption, MaxCallbacksAssumption
    DEF Ind, TypeOK, Control, Data, Futex, NoLostWakeup, States, HostPcs,
        WorkerPcs, Requests, Results, Answers, AnswerSeqs, AtHead,
        HostWaiting, Posted, Answered, Asking, InFrame, InCall, Awaited,
        Delivered, Answer, Ret, None, chan, host, worker
<1>1. CASE WorkerPoll
  BY <1>1 DEF WorkerPoll
<1>2. CASE WorkerFutexWait
  BY <1>2 DEF WorkerFutexWait
<1>3. CASE WorkerRun
  BY <1>3 DEF WorkerRun
<1>4. CASE \E c \in CbArgs : WorkerCallback(c)
  <2>1. PICK c \in CbArgs : WorkerCallback(c)
    BY <1>4
  <2> QED
    BY <2>1 DEF WorkerCallback
<1>5. CASE WorkerPackCallback
  BY <1>5 DEF WorkerPackCallback
<1>6. CASE WorkerStoreCallback
  BY <1>6 DEF WorkerStoreCallback
<1>7. CASE WorkerWakeCallback
  BY <1>7 DEF WorkerWakeCallback, WakeHost
<1>8. CASE WorkerPollCallback
  BY <1>8 DEF WorkerPollCallback
<1>9. CASE WorkerReadAnswer
  BY <1>9 DEF WorkerReadAnswer
<1>10. CASE WorkerFinish
  BY <1>10 DEF WorkerFinish
<1>11. CASE WorkerStoreResponse
  BY <1>11 DEF WorkerStoreResponse
<1>12. CASE WorkerWakeResponse
  BY <1>12 DEF WorkerWakeResponse, WakeHost
<1>13. CASE WorkerSpurious
  BY <1>13 DEF WorkerSpurious
<1> QED
  BY <1>1, <1>2, <1>3, <1>4, <1>5, <1>6, <1>7, <1>8, <1>9, <1>10, <1>11, <1>12, <1>13
     DEF WorkerStep

\* A state in which neither thread moves keeps Ind.
LEMMA StutterInd == ASSUME Ind, UNCHANGED vars PROVE Ind'
BY DEF Ind, TypeOK, Control, Data, Futex, NoLostWakeup, AtHead, HostWaiting,
       Posted, Answered, Asking, InFrame, InCall, Awaited, Delivered,
       vars, chan, host, worker

\* Ind is an invariant of the channel.
THEOREM Invariance == Spec => []Ind
<1>1. Ind /\ [Next]_vars => Ind'
  <2> SUFFICES ASSUME Ind, [Next]_vars PROVE Ind'
    OBVIOUS
  <2>1. CASE \/ \E r \in Requests : Begin(r)
             \/ BeginExit \/ HostStep \/ HostSpurious
    BY <2>1, HostInd
  <2>2. CASE WorkerStep \/ WorkerSpurious
    BY <2>2, WorkerInd
  <2>3. CASE Terminated \/ UNCHANGED vars
    BY <2>3, StutterInd DEF Terminated
  <2> QED
    BY <2>1, <2>2, <2>3 DEF Next, Spurious
<1> QED
  BY <1>1, InitInd, PTL DEF Spec

----------------------------------------------------------------------------
(***************************** What it implies *****************************)

\* Every variable stays in its type, and a call makes at most MaxCallbacks
\* callbacks.
THEOREM TypeCorrect == Spec => []TypeOK
BY Invariance, PTL DEF Ind

\* No wakeup is lost and the two threads never both sleep.
THEOREM WakeupsKept == Spec => []NoLostWakeup
BY Invariance, PTL DEF Ind

\* The threads never access the plain fields of the page at the same time.
THEOREM RaceFree == Spec => []NoDataRace
<1>1. Ind => NoDataRace
  BY DEF Ind, TypeOK, Control, NoDataRace, HostAccess, WorkerAccess, AtHead,
         HostWaiting, Asking, States
<1> QED
  BY <1>1, Invariance, PTL

\* A caller gets its own result, a callback its own argument, the function
\* its own answer.
THEOREM ResultsMatch == Spec => []OwnResult
<1>1. Ind => OwnResult
  <2> SUFFICES ASSUME Ind PROVE OwnResult
    OBVIOUS
  <2>1. hpc = "in_cb" => state = "CALLBACK"
    BY DEF Ind, TypeOK, Control, States, HostWaiting
  <2>2. wpc = "cbread" => state = "REQUEST"
    BY DEF Ind, TypeOK, Control, States, AtHead
  <2> QED
    BY <2>1, <2>2 DEF Ind, Data, OwnResult, Answered, Asking
<1> QED
  BY <1>1, Invariance, PTL

----------------------------------------------------------------------------
(*********************** The channel implements Rpc ************************)

\* A host step is a step of the conversation, or invisible to it: storing
\* REQUEST on an IDLE word is Call, reading the result is Receive, storing
\* EXIT is Close.
LEMMA HostRefines ==
  ASSUME Ind,
         \/ \E r \in Requests : Begin(r)
         \/ BeginExit \/ HostStep \/ HostSpurious
  PROVE  [Abstract!RNext]_(Abstract!rvars)
<1> USE KindsAssumption
    DEF Ind, TypeOK, Control, Data, States, Requests, AtHead, HostWaiting,
        Posted, Answered, Asking, InFrame, InCall, Undelivered, Delivered,
        PhaseBar, ReqBar, LogBar, AskedBar, ReplyBar, None, Abstract!None,
        Abstract!rvars, chan, host, worker
<1>1. CASE \E r \in Requests : Begin(r)
  BY <1>1 DEF Begin
<1>2. CASE BeginExit
  BY <1>2 DEF BeginExit
<1>3. CASE HostPack
  BY <1>3 DEF HostPack
<1>4. CASE HostStoreRequest
  BY <1>4 DEF HostStoreRequest, Abstract!RNext, Abstract!Call
<1>5. CASE HostWakeRequest
  BY <1>5 DEF HostWakeRequest, WakeWorker
<1>6. CASE HostPoll
  BY <1>6 DEF HostPoll
<1>7. CASE HostFutexWait
  BY <1>7 DEF HostFutexWait
<1>8. CASE HostDispatch
  BY <1>8 DEF HostDispatch
<1>9. CASE HostAnswer
  BY <1>9 DEF HostAnswer
<1>10. CASE HostRelease
  BY <1>10 DEF HostRelease
<1>11. CASE HostRead
  BY <1>11 DEF HostRead, Abstract!RNext, Abstract!Receive
<1>12. CASE HostStoreExit
  BY <1>12 DEF HostStoreExit, Abstract!RNext, Abstract!Close
<1>13. CASE HostWakeExit
  BY <1>13 DEF HostWakeExit, WakeWorker
<1>14. CASE HostSpurious
  BY <1>14 DEF HostSpurious
<1> QED
  BY <1>1, <1>2, <1>3, <1>4, <1>5, <1>6, <1>7, <1>8, <1>9, <1>10, <1>11, <1>12, <1>13, <1>14
     DEF HostStep

\* A worker step likewise: storing CALLBACK is Ask, reading the answer is
\* GiveAnswer, storing RESPONSE is Return.
LEMMA WorkerRefines ==
  ASSUME Ind, WorkerStep \/ WorkerSpurious
  PROVE  [Abstract!RNext]_(Abstract!rvars)
<1> USE KindsAssumption
    DEF Ind, TypeOK, Control, Data, States, Requests, AtHead, HostWaiting,
        Posted, Answered, Asking, InFrame, InCall, Undelivered, Delivered,
        PhaseBar, ReqBar, LogBar, AskedBar, ReplyBar, None, Abstract!None,
        Abstract!rvars, chan, host, worker
<1>1. CASE WorkerPoll
  BY <1>1 DEF WorkerPoll
<1>2. CASE WorkerFutexWait
  BY <1>2 DEF WorkerFutexWait
<1>3. CASE WorkerRun
  BY <1>3 DEF WorkerRun
<1>4. CASE \E c \in CbArgs : WorkerCallback(c)
  BY <1>4 DEF WorkerCallback
<1>5. CASE WorkerPackCallback
  BY <1>5 DEF WorkerPackCallback
<1>6. CASE WorkerStoreCallback
  BY <1>6 DEF WorkerStoreCallback, Abstract!RNext, Abstract!Ask
<1>7. CASE WorkerWakeCallback
  BY <1>7 DEF WorkerWakeCallback, WakeHost
<1>8. CASE WorkerPollCallback
  BY <1>8 DEF WorkerPollCallback
<1>9. CASE WorkerReadAnswer
  BY <1>9 DEF WorkerReadAnswer, Abstract!RNext,
     Abstract!GiveAnswer, Abstract!Answer, Answer
<1>10. CASE WorkerFinish
  BY <1>10 DEF WorkerFinish
<1>11. CASE WorkerStoreResponse
  BY <1>11 DEF WorkerStoreResponse, Abstract!RNext,
     Abstract!Return, Abstract!Ret, Ret
<1>12. CASE WorkerWakeResponse
  BY <1>12 DEF WorkerWakeResponse, WakeHost
<1>13. CASE WorkerSpurious
  BY <1>13 DEF WorkerSpurious
<1> QED
  BY <1>1, <1>2, <1>3, <1>4, <1>5, <1>6, <1>7, <1>8, <1>9, <1>10, <1>11, <1>12, <1>13
     DEF WorkerStep

\* Every behaviour of the channel is one of the conversation.
THEOREM Refinement == Spec => ImplementsRpc
<1>1. Init => Abstract!RInit
  BY DEF Init, Abstract!RInit, PhaseBar, ReqBar, LogBar, AskedBar, ReplyBar,
         Undelivered, Asking, InFrame, None, Abstract!None
<1>2. Ind /\ [Next]_vars => [Abstract!RNext]_(Abstract!rvars)
  <2> SUFFICES ASSUME Ind, [Next]_vars
               PROVE  [Abstract!RNext]_(Abstract!rvars)
    OBVIOUS
  <2>1. CASE \/ \E r \in Requests : Begin(r)
             \/ BeginExit \/ HostStep \/ HostSpurious
    BY <2>1, HostRefines
  <2>2. CASE WorkerStep \/ WorkerSpurious
    BY <2>2, WorkerRefines
  <2>3. CASE Terminated \/ UNCHANGED vars
    BY <2>3 DEF Terminated, vars, chan, host, worker, Abstract!rvars,
       PhaseBar, ReqBar, LogBar, AskedBar, ReplyBar, Undelivered, Delivered,
       Asking, InFrame
  <2> QED
    BY <2>1, <2>2, <2>3 DEF Next, Spurious
<1> QED
  BY <1>1, <1>2, Invariance, PTL DEF Spec, ImplementsRpc, Abstract!RSpec
=============================================================================
