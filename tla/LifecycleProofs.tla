-------------------------- MODULE LifecycleProofs --------------------------
(***************************************************************************)
(* For any host threads and any number of symbols: whoever works on a      *)
(* channel, the lock or the list finds them there, the list holds exactly  *)
(* the channels it should, and every answer on the control channel is read *)
(* by the thread that asked.                                               *)
(*                                                                         *)
(* What the properties leave out is who may be where: only the holder of   *)
(* channel_lock is between its first and its last step of a creation, and  *)
(* once the box is being destroyed nobody is inside an operation.          *)
(***************************************************************************)
EXTENDS Lifecycle, FiniteSetTheorems, SequenceTheorems, TLAPS

ExitPcs    == {"x_exit", "x_unmap", "x_unlist"}
DestroyPcs == {"d_join", "d_clean", "d_free"}
MainPcs    == {"start", "nobox"} \cup DestroyPcs

Types ==
  /\ box \in {"none", "live", "freed"}
  /\ proc \in {"none", "starting", "running", "zombie", "reaped"}
  /\ watcher \in {"none", "waiting", "storing", "done"}
  /\ killed \in BOOLEAN
  /\ lock \in Threads \cup {NoThread}
  /\ ctrl \in {"IDLE", "REQUEST", "RESPONSE", "DEAD"}
  /\ job \in [kind : {"none", "dlsym", "recv_fd", "spawn"},
              for : Threads \cup {NoThread}]
  /\ fdok \in BOOLEAN /\ nsym \in 0..NumSymbols
  /\ list \in Seq(Threads)
  /\ tls \in [Threads -> BOOLEAN] /\ mapped \in [Threads -> BOOLEAN]
  /\ word \in [Threads -> {"IDLE", "REQUEST", "RESPONSE", "EXIT"}]
  /\ worker \in [Threads -> {"none", "starting", "loop", "gone", "lost"}]
  /\ pc \in [Threads -> ControlPcs \cup CreatePcs \cup CallPcs \cup ExitPcs
                        \cup MainPcs \cup {"ready", "gone"}]

\* Where the main thread is says what there is of the box, and without a box,
\* or one that stays, nobody is inside an operation.
BoxWithMain ==
  /\ box = "none" <=> pc[Main] \in {"start", "nobox"}
  /\ box = "freed" <=> pc[Main] = "gone"
  /\ \A t \in Threads \ {Main} :
       /\ pc[t] \notin MainPcs
       /\ box # "live" \/ pc[Main] \in DestroyPcs =>
            pc[t] \in {"ready", "gone"}
  /\ pc[Main] \notin ExitPcs
  /\ box # "live" => \A t \in Threads : ~tls[t]

\* channel_lock is held from the first to the last step of a creation.
LockHeld == \A t \in Threads : lock = t <=> pc[t] \in ControlPcs \cup CreatePcs

\* A request or an answer is on the control channel only while the holder of
\* the lock waits for it.
RoundTrip ==
  /\ pc[Main] = "start" => nsym < NumSymbols
  /\ \A t \in Threads : pc[t] \in ControlPcs =>
       /\ job.for = t /\ job.kind # "none"
       /\ job.kind = "dlsym" => nsym < NumSymbols
  /\ ctrl = "REQUEST" => lock \in Threads /\ pc[lock] = "ctl_wait"
  /\ ctrl = "RESPONSE" =>
       lock \in Threads /\ pc[lock] \in {"ctl_wait", "ctl_idle"}

\* A channel is being made, and its page is mapped.
Making(t) == \/ pc[t] \in {"await_addr", "mk_list", "unlock_ok"}
             \/ pc[t] \in ControlPcs /\ job.kind # "dlsym"

\* The key, the list and the mapping of a thread agree, but for the steps
\* that are under way.
ChannelOf(t) ==
  /\ pc[t] \in CallPcs \cup ExitPcs => tls[t]
  /\ pc[t] \in ControlPcs \cup CreatePcs \cup {"gone"} => ~tls[t]
  /\ t \in ToSet(list) <=> /\ pc[Main] # "d_free"
                           /\ tls[t] \/ pc[t] = "unlock_ok"
  /\ mapped[t] <=> /\ pc[Main] # "d_free" /\ pc[t] # "x_unlist"
                   /\ tls[t] \/ Making(t)

Once(l) == \A i, j \in DOMAIN l : l[i] = l[j] => i = j

Ind == /\ Types /\ BoxWithMain /\ LockHeld /\ RoundTrip
       /\ \A t \in Threads : ChannelOf(t)
       /\ Once(list)

----------------------------------------------------------------------------
\* A member more at the end of the list.
LEMMA AppendOnce ==
  ASSUME NEW l \in Seq(Threads), Once(l), NEW t \in Threads, t \notin ToSet(l)
  PROVE  /\ Append(l, t) \in Seq(Threads) /\ Once(Append(l, t))
         /\ ToSet(Append(l, t)) = ToSet(l) \cup {t}
<1> DEFINE h == Append(l, t)
<1>1. /\ Len(l) \in Nat /\ DOMAIN l = 1..Len(l) /\ DOMAIN h = 1..(Len(l) + 1)
      /\ h[Len(l) + 1] = t /\ \A i \in 1..Len(l) : h[i] = l[i]
      /\ h \in Seq(Threads)
  OBVIOUS
<1> HIDE DEF h
<1>2. \A i \in 1..Len(l) : l[i] # t
  BY <1>1 DEF ToSet
<1>3. Once(h)
  BY <1>1, <1>2 DEF Once
<1>4. ToSet(h) = ToSet(l) \cup {t}
  BY <1>1 DEF ToSet
<1> QED BY <1>1, <1>3, <1>4 DEF h

\* The last one takes the place of the one that leaves.
LEMMA SwapRemoveOnce ==
  ASSUME NEW l \in Seq(Threads), Once(l), NEW t \in ToSet(l)
  PROVE  /\ SwapRemove(l, t) \in Seq(Threads) /\ Once(SwapRemove(l, t))
         /\ ToSet(SwapRemove(l, t)) = ToSet(l) \ {t}
<1>1. /\ Len(l) \in Nat /\ DOMAIN l = 1..Len(l)
      /\ \A i \in 1..Len(l) : l[i] \in Threads
  OBVIOUS
<1> DEFINE k == CHOOSE j \in DOMAIN l : l[j] = t
           h == SwapRemove(l, t)  n == Len(l)
<1>2. k \in 1..n /\ l[k] = t
  BY <1>1 DEF ToSet
<1>3. h = [j \in 1..(n - 1) |-> IF j = k THEN l[n] ELSE l[j]]
  BY DEF SwapRemove
<1> HIDE DEF k, h
<1>4. n - 1 \in Nat /\ n \in 1..n
  BY <1>1, <1>2
<1>5. h \in Seq(Threads) /\ DOMAIN h = 1..(n - 1)
  BY <1>1, <1>3, <1>4
<1>6. \A i, j \in 1..n : l[i] = l[j] => i = j
  BY <1>1 DEF Once
<1>7. Once(h)
  BY <1>1, <1>2, <1>3, <1>4, <1>5, <1>6 DEF Once
<1>8. ToSet(h) = ToSet(l) \ {t}
  <2>1. ASSUME NEW u \in ToSet(h) PROVE u \in ToSet(l) \ {t}
    BY <1>1, <1>2, <1>3, <1>4, <1>5, <1>6, <2>1 DEF ToSet
  <2>2. ASSUME NEW u \in ToSet(l), u # t PROVE u \in ToSet(h)
    <3>1. PICK i \in 1..n : l[i] = u
      BY <1>1 DEF ToSet
    <3>2. CASE i = n
      <4>1. k \in 1..(n - 1) /\ h[k] = u
        BY <1>1, <1>2, <1>3, <2>2, <3>1, <3>2
      <4> QED BY <1>5, <4>1 DEF ToSet
    <3>3. CASE i # n
      <4>1. i \in 1..(n - 1) /\ h[i] = u
        <5>1. i \in 1..(n - 1)
          BY <1>4, <3>3
        <5>2. i # k
          BY <1>2, <2>2, <3>1
        <5> QED BY <1>3, <3>1, <5>1, <5>2
      <4> QED BY <1>5, <4>1 DEF ToSet
    <3> QED BY <3>2, <3>3
  <2> QED BY <2>1, <2>2
<1> QED BY <1>5, <1>7, <1>8 DEF h

----------------------------------------------------------------------------
\* A round trip on the control channel: the word is that of the holder of the
\* lock, who goes on with what it was doing.
LEMMA RoundTripsKeep ==
  ASSUME Ind, NEW t \in Threads, CtlRequest(t) \/ CtlWait(t) \/ CtlIdle(t)
  PROVE  Ind'
<1> USE MainAssumption, NoThreadAssumption, SymbolsAssumption
    DEF Ind, ControlPcs, CreatePcs, CallPcs, ExitPcs, DestroyPcs, MainPcs,
        Goto, unchangedBox, unchangedCtrl, unchangedChan
<1>1. Types'
  <2>1. CASE CtlRequest(t) \/ CtlWait(t)
    BY <2>1 DEF Types, CtlRequest, CtlWait
  <2>2. CASE CtlIdle(t)
    <3>1. nsym' \in 0..NumSymbols
      BY <2>2 DEF Types, RoundTrip, CtlIdle
    <3>2. job' \in [kind : {"none", "dlsym", "recv_fd", "spawn"},
                    for : Threads \cup {NoThread}]
      BY <2>2 DEF Types, CtlIdle, NoJob
    <3>3. lock' \in Threads \cup {NoThread} /\ mapped' \in [Threads -> BOOLEAN]
      BY <2>2 DEF Types, CtlIdle
    <3>4. pc' \in [Threads -> ControlPcs \cup CreatePcs \cup CallPcs
                             \cup ExitPcs \cup MainPcs \cup {"ready", "gone"}]
      BY <2>2 DEF Types, CtlIdle
    <3>5. /\ ctrl' = "IDLE" /\ fdok' = FALSE
          /\ UNCHANGED <<box, proc, watcher, killed, list, tls, word, worker>>
      BY <2>2 DEF CtlIdle
    <3> QED BY <3>1, <3>2, <3>3, <3>4, <3>5 DEF Types
  <2> QED BY <2>1, <2>2
<1>2. BoxWithMain'
  BY DEF Types, BoxWithMain, CtlRequest, CtlWait, CtlIdle
<1>3. LockHeld'
  BY DEF Types, LockHeld, BoxWithMain, CtlRequest, CtlWait, CtlIdle
<1>4. RoundTrip'
  BY DEF Types, RoundTrip, LockHeld, BoxWithMain, CtlRequest, CtlWait, CtlIdle
<1>5. \A u \in Threads : ChannelOf(u)'
  BY DEF Types, ChannelOf, Making, LockHeld, RoundTrip, BoxWithMain,
     CtlRequest, CtlWait, CtlIdle
<1>6. Once(list)'
  BY DEF CtlRequest, CtlWait, CtlIdle
<1> QED BY <1>1, <1>2, <1>3, <1>4, <1>5, <1>6

\* The creation of a channel, but for its entry into the list.
LEMMA MakingKeeps ==
  ASSUME Ind, NEW t \in Threads,
         \/ NeedsChannel(t) \/ MkFails(t) \/ MkSend(t) \/ MkSendBroken(t)
         \/ MkAwaitAddr(t) \/ MkListFails(t) \/ MkUnlock(t)
  PROVE  Ind'
<1> USE MainAssumption, NoThreadAssumption, SymbolsAssumption
    DEF Ind, ControlPcs, CreatePcs, CallPcs, ExitPcs, DestroyPcs, MainPcs,
        Goto, unchangedBox, unchangedCtrl, unchangedChan
<1>1. Types'
  <2>1. CASE NeedsChannel(t) \/ MkFails(t) \/ MkSendBroken(t) \/ MkAwaitAddr(t)
    BY <2>1 DEF Types, NeedsChannel, MkFails, MkSendBroken, MkAwaitAddr
  <2>2. CASE MkSend(t)
    BY <2>2 DEF Types, MkSend
  <2>4. CASE MkListFails(t)
    BY <2>4 DEF Types, MkListFails
  <2>3. CASE MkUnlock(t)
    <3>1. tls' \in [Threads -> BOOLEAN] /\ lock' = NoThread
      BY <2>3 DEF Types, MkUnlock
    <3>2. \/ pc' = [pc EXCEPT ![t] = "call_req"]
          \/ pc' = [pc EXCEPT ![t] = "ready"]
      BY <2>3 DEF MkUnlock
    <3> QED BY <2>3, <3>1, <3>2 DEF Types, MkUnlock
  <2> QED BY <2>1, <2>2, <2>3, <2>4
<1>2. BoxWithMain'
  BY DEF Types, BoxWithMain, NeedsChannel, MkFails, MkSend, MkSendBroken,
     MkAwaitAddr, MkListFails, MkUnlock
<1>3. LockHeld'
  BY DEF Types, LockHeld, BoxWithMain, NeedsChannel, MkFails, MkSend,
     MkSendBroken, MkAwaitAddr, MkListFails, MkUnlock
<1>4. RoundTrip'
  BY DEF Types, RoundTrip, LockHeld, NeedsChannel, MkFails, MkSend,
     MkSendBroken, MkAwaitAddr, MkListFails, MkUnlock
<1>5. \A u \in Threads : ChannelOf(u)'
  BY DEF Types, ChannelOf, Making, LockHeld, RoundTrip, BoxWithMain,
     NeedsChannel, MkFails, MkSend, MkSendBroken, MkAwaitAddr, MkListFails,
     MkUnlock
<1>6. Once(list)'
  BY DEF NeedsChannel, MkFails, MkSend, MkSendBroken, MkAwaitAddr, MkListFails,
     MkUnlock
<1> QED BY <1>1, <1>2, <1>3, <1>4, <1>5, <1>6

\* A channel enters the list when its thread has none in it.
LEMMA ListingKeeps ==
  ASSUME Ind, NEW t \in Threads, MkList(t)
  PROVE  Ind'
<1> USE MainAssumption, NoThreadAssumption, SymbolsAssumption
    DEF Ind, ControlPcs, CreatePcs, CallPcs, ExitPcs, DestroyPcs, MainPcs,
        Goto, unchangedBox, unchangedCtrl, unchangedChan
<1>0. t \in ToSet(list) <=> FALSE
  BY DEF Types, ChannelOf, BoxWithMain, MkList
<1>7. /\ list' \in Seq(Threads) /\ Once(list')
      /\ ToSet(list') = ToSet(list) \cup {t}
  BY <1>0, AppendOnce DEF Types, MkList
<1>1. Types'
  BY <1>7 DEF Types, MkList
<1>2. BoxWithMain'
  BY <1>7 DEF Types, BoxWithMain, MkList
<1>3. LockHeld'
  BY <1>7 DEF Types, LockHeld, BoxWithMain, MkList
<1>4. RoundTrip'
  BY <1>7 DEF Types, RoundTrip, LockHeld, MkList
<1>5. \A u \in Threads : ChannelOf(u)'
  BY <1>7 DEF Types, ChannelOf, Making, LockHeld, RoundTrip, BoxWithMain,
     MkList
<1>6. Once(list)'
  BY <1>7 DEF MkList
<1> QED BY <1>1, <1>2, <1>3, <1>4, <1>5, <1>6

\* A call on a channel that is there.
LEMMA CallsKeep ==
  ASSUME Ind, NEW t \in Threads,
         Call(t) \/ CallRequest(t) \/ CallWait(t) \/ CallIdle(t)
  PROVE  Ind'
<1> USE MainAssumption, NoThreadAssumption, SymbolsAssumption
    DEF Ind, ControlPcs, CreatePcs, CallPcs, ExitPcs, DestroyPcs, MainPcs,
        Goto, unchangedBox, unchangedCtrl, unchangedChan
<1>1. Types'
  BY DEF Types, Call, CallRequest, CallWait, CallIdle
<1>2. BoxWithMain'
  BY DEF Types, BoxWithMain, Call, CallRequest, CallWait, CallIdle
<1>3. LockHeld'
  BY DEF Types, LockHeld, BoxWithMain, Call, CallRequest, CallWait, CallIdle
<1>4. RoundTrip'
  BY DEF Types, RoundTrip, LockHeld, Call, CallRequest, CallWait, CallIdle
<1>5. \A u \in Threads : ChannelOf(u)'
  BY DEF Types, ChannelOf, Making, LockHeld, RoundTrip, BoxWithMain, Call,
     CallRequest, CallWait, CallIdle
<1>6. Once(list)'
  BY DEF Call, CallRequest, CallWait, CallIdle
<1> QED BY <1>1, <1>2, <1>3, <1>4, <1>5, <1>6

\* A thread exits, as long as its channel is listed.
LEMMA ExitsKeep ==
  ASSUME Ind, NEW t \in Threads,
         ThreadExits(t) \/ ExitStores(t) \/ ExitUnmaps(t)
  PROVE  Ind'
<1> USE MainAssumption, NoThreadAssumption, SymbolsAssumption
    DEF Ind, ControlPcs, CreatePcs, CallPcs, ExitPcs, DestroyPcs, MainPcs,
        Goto, unchangedBox, unchangedCtrl, unchangedChan
<1>1. Types'
  <2>1. CASE ThreadExits(t)
    BY <2>1 DEF Types, ThreadExits
  <2>2. CASE ExitStores(t)
    BY <2>2 DEF Types, ExitStores
  <2>3. CASE ExitUnmaps(t)
    BY <2>3 DEF Types, ExitUnmaps
  <2> QED BY <2>1, <2>2, <2>3
<1>2. BoxWithMain'
  BY DEF Types, BoxWithMain, ThreadExits, ExitStores, ExitUnmaps
<1>3. LockHeld'
  BY DEF Types, LockHeld, BoxWithMain, ThreadExits, ExitStores, ExitUnmaps
<1>4. RoundTrip'
  BY DEF Types, RoundTrip, LockHeld, ThreadExits, ExitStores, ExitUnmaps
<1>5. \A u \in Threads : ChannelOf(u)'
  BY DEF Types, ChannelOf, Making, LockHeld, RoundTrip, BoxWithMain,
     ThreadExits, ExitStores, ExitUnmaps
<1>6. Once(list)'
  BY DEF ThreadExits, ExitStores, ExitUnmaps
<1> QED BY <1>1, <1>2, <1>3, <1>4, <1>5, <1>6

\* The channel of a thread that exits leaves the list.
LEMMA UnlistingKeeps ==
  ASSUME Ind, NEW t \in Threads, ExitUnlists(t)
  PROVE  Ind'
<1> USE MainAssumption, NoThreadAssumption, SymbolsAssumption
    DEF Ind, ControlPcs, CreatePcs, CallPcs, ExitPcs, DestroyPcs, MainPcs,
        Goto, unchangedBox, unchangedCtrl, unchangedChan
<1>0. t \in ToSet(list) <=> TRUE
  BY DEF Types, ChannelOf, BoxWithMain, ExitUnlists
<1>7. /\ list' \in Seq(Threads) /\ Once(list')
      /\ ToSet(list') = ToSet(list) \ {t}
  BY <1>0, SwapRemoveOnce DEF Types, ExitUnlists
<1>1. Types'
  BY <1>7 DEF Types, ExitUnlists
<1>2. BoxWithMain'
  <2>1. tls' = [tls EXCEPT ![t] = FALSE] /\ pc' = [pc EXCEPT ![t] = "gone"]
        /\ pc[t] = "x_unlist" /\ box' = box
    BY DEF ExitUnlists
  <2>2. t # Main /\ box = "live"
    BY <2>1 DEF Types, BoxWithMain, ChannelOf
  <2> QED BY <2>1, <2>2 DEF Types, BoxWithMain
<1>3. LockHeld'
  BY <1>7 DEF Types, LockHeld, BoxWithMain, ExitUnlists
<1>4. RoundTrip'
  BY <1>7 DEF Types, RoundTrip, LockHeld, ExitUnlists
<1>5. \A u \in Threads : ChannelOf(u)'
  BY <1>7 DEF Types, ChannelOf, Making, LockHeld, RoundTrip, BoxWithMain,
     ExitUnlists
<1>6. Once(list)'
  BY <1>7 DEF ExitUnlists
<1> QED BY <1>1, <1>2, <1>3, <1>4, <1>5, <1>6

\* pbox_create, and pbox_destroy but for its work on the list: nobody else is
\* inside an operation.
LEMMA BoxKeeps ==
  ASSUME Ind, \/ CreateFails \/ CreateForks
              \/ DestroyKills \/ DestroyJoins \/ DestroyFrees
  PROVE  Ind'
<1> USE MainAssumption, NoThreadAssumption, SymbolsAssumption
    DEF Ind, ControlPcs, CreatePcs, CallPcs, ExitPcs, DestroyPcs, MainPcs,
        Goto, unchangedBox, unchangedCtrl, unchangedChan
<1>1. Types'
  <2>1. CASE CreateFails \/ CreateForks
    BY <2>1 DEF Types, CreateFails, CreateForks
  <2>2. CASE DestroyKills \/ DestroyJoins
    BY <2>2 DEF Types, DestroyKills, DestroyJoins
  <2>3. CASE DestroyFrees
    BY <2>3 DEF Types, DestroyFrees
  <2> QED BY <2>1, <2>2, <2>3
<1>2. BoxWithMain'
  <2>1. CASE CreateFails \/ CreateForks
    BY <2>1 DEF Types, BoxWithMain, CreateFails, CreateForks
  <2>2. CASE DestroyKills
    <3>1. pc' = [pc EXCEPT ![Main] = "d_join"] /\ pc[Main] = "ready"
          /\ box = "live" /\ UNCHANGED <<box, tls>>
      BY <2>2 DEF DestroyKills
    <3>2. \A u \in Threads : pc[u] \in {"ready", "gone"}
      BY <2>2 DEF DestroyKills, Quiescent
    <3> QED BY <3>1, <3>2 DEF Types, BoxWithMain
  <2>3. CASE DestroyJoins \/ DestroyFrees
    BY <2>3 DEF Types, BoxWithMain, DestroyJoins, DestroyFrees
  <2> QED BY <2>1, <2>2, <2>3
<1>3. LockHeld'
  BY DEF Types, LockHeld, BoxWithMain, CreateFails, CreateForks, DestroyKills,
     DestroyJoins, DestroyFrees
<1>4. RoundTrip'
  <2>1. CASE CreateForks
    <3>1. /\ pc' = [pc EXCEPT ![Main] = "ctl_req"] /\ pc[Main] = "start"
          /\ job' = [kind |-> "dlsym", for |-> Main]
          /\ UNCHANGED <<ctrl, nsym>>
      BY <2>1 DEF CreateForks
    <3>2. /\ \A u \in Threads \ {Main} : pc[u] \in {"ready", "gone"}
          /\ ctrl \notin {"REQUEST", "RESPONSE"}
      BY <3>1 DEF Types, BoxWithMain, LockHeld, RoundTrip
    <3> QED BY <3>1, <3>2 DEF Types, RoundTrip
  <2>2. CASE CreateFails \/ DestroyKills \/ DestroyJoins \/ DestroyFrees
    BY <2>2 DEF Types, RoundTrip, LockHeld, CreateFails, DestroyKills,
       DestroyJoins, DestroyFrees
  <2> QED BY <2>1, <2>2
<1>5. \A u \in Threads : ChannelOf(u)'
  BY DEF Types, ChannelOf, Making, LockHeld, RoundTrip, BoxWithMain,
     CreateFails, CreateForks, DestroyKills, DestroyJoins, DestroyFrees
<1>6. Once(list)'
  BY DEF CreateFails, CreateForks, DestroyKills, DestroyJoins, DestroyFrees
<1> QED BY <1>1, <1>2, <1>3, <1>4, <1>5, <1>6

\* All the channels that are listed are unmapped, which are all there are.
LEMMA CleaningKeeps ==
  ASSUME Ind, DestroyCleans
  PROVE  Ind'
<1> USE MainAssumption, NoThreadAssumption, SymbolsAssumption
    DEF Ind, ControlPcs, CreatePcs, CallPcs, ExitPcs, DestroyPcs, MainPcs,
        Goto, unchangedBox, unchangedCtrl, unchangedChan
<1>7. list' = <<>> /\ list' \in Seq(Threads) /\ Once(list')
      /\ ToSet(list') = {}
  BY DEF DestroyCleans, ToSet, Once
<1>1. Types'
  BY <1>7 DEF Types, DestroyCleans
<1>2. BoxWithMain'
  BY <1>7 DEF Types, BoxWithMain, DestroyCleans
<1>3. LockHeld'
  BY <1>7 DEF Types, LockHeld, BoxWithMain, DestroyCleans
<1>4. RoundTrip'
  BY <1>7 DEF Types, RoundTrip, LockHeld, DestroyCleans
<1>5. \A u \in Threads : ChannelOf(u)'
  <2>1. /\ pc[Main] = "d_clean" /\ pc' = [pc EXCEPT ![Main] = "d_free"]
        /\ \A u \in Threads : mapped'[u] = (mapped[u] /\ u \notin ToSet(list))
        /\ UNCHANGED <<tls, job>>
    BY DEF Types, DestroyCleans
  <2>2. \A u \in Threads \ {Main} : pc[u] \in {"ready", "gone"}
    BY <2>1 DEF BoxWithMain
  <2>3. ASSUME NEW u \in Threads PROVE ~mapped'[u]
    BY <2>1, <2>2 DEF Types, ChannelOf, Making
  <2> QED BY <1>7, <2>1, <2>2, <2>3 DEF Types, ChannelOf, Making
<1>6. Once(list)'
  BY <1>7 DEF DestroyCleans
<1> QED BY <1>1, <1>2, <1>3, <1>4, <1>5, <1>6

\* The sandbox answers a request, and may die; the watcher only writes DEAD.
LEMMA SandboxKeeps ==
  ASSUME Ind, \/ SandboxStarts \/ SandboxDies \/ ServeControl
              \/ WatcherReaps \/ WatcherStores
  PROVE  Ind'
<1> USE MainAssumption, NoThreadAssumption, SymbolsAssumption
    DEF Ind, ControlPcs, CreatePcs, CallPcs, ExitPcs, DestroyPcs, MainPcs,
        Goto, unchangedBox, unchangedCtrl, unchangedChan
<1>1. Types'
  BY DEF Types, SandboxStarts, SandboxDies, ServeControl, WatcherReaps,
     WatcherStores
<1>2. BoxWithMain'
  BY DEF Types, BoxWithMain, SandboxStarts, SandboxDies, ServeControl,
     WatcherReaps, WatcherStores
<1>3. LockHeld'
  BY DEF Types, LockHeld, BoxWithMain, SandboxStarts, SandboxDies,
     ServeControl, WatcherReaps, WatcherStores
<1>4. RoundTrip'
  BY DEF Types, RoundTrip, LockHeld, SandboxStarts, SandboxDies, ServeControl,
     WatcherReaps, WatcherStores
<1>5. \A u \in Threads : ChannelOf(u)'
  BY DEF Types, ChannelOf, Making, LockHeld, RoundTrip, BoxWithMain,
     SandboxStarts, SandboxDies, ServeControl, WatcherReaps, WatcherStores
<1>6. Once(list)'
  BY DEF SandboxStarts, SandboxDies, ServeControl, WatcherReaps, WatcherStores
<1> QED BY <1>1, <1>2, <1>3, <1>4, <1>5, <1>6

\* The workers change nothing but their words and themselves.
LEMMA WorkersKeep ==
  ASSUME Ind, NEW t \in Threads,
         WorkerStarts(t) \/ ServeCall(t) \/ WorkerLeaves(t)
  PROVE  Ind'
<1> USE MainAssumption, NoThreadAssumption, SymbolsAssumption
    DEF Ind, ControlPcs, CreatePcs, CallPcs, ExitPcs, DestroyPcs, MainPcs,
        Goto, unchangedBox, unchangedCtrl, unchangedChan
<1>1. Types'
  BY DEF Types, WorkerStarts, ServeCall, WorkerLeaves
<1>2. BoxWithMain'
  BY DEF Types, BoxWithMain, WorkerStarts, ServeCall, WorkerLeaves
<1>3. LockHeld'
  BY DEF Types, LockHeld, BoxWithMain, WorkerStarts, ServeCall, WorkerLeaves
<1>4. RoundTrip'
  BY DEF Types, RoundTrip, LockHeld, WorkerStarts, ServeCall, WorkerLeaves
<1>5. \A u \in Threads : ChannelOf(u)'
  BY DEF Types, ChannelOf, Making, LockHeld, RoundTrip, BoxWithMain,
     WorkerStarts, ServeCall, WorkerLeaves
<1>6. Once(list)'
  BY DEF WorkerStarts, ServeCall, WorkerLeaves
<1> QED BY <1>1, <1>2, <1>3, <1>4, <1>5, <1>6

----------------------------------------------------------------------------
LEMMA IndInit == Init => Ind
<1> SUFFICES ASSUME Init PROVE Ind
  OBVIOUS
<1> USE MainAssumption, NoThreadAssumption, SymbolsAssumption
    DEF Init, ControlPcs, CreatePcs, CallPcs, ExitPcs, DestroyPcs, MainPcs
<1>1. Types
  <2>1. list \in Seq(Threads) /\ nsym \in 0..NumSymbols
    OBVIOUS
  <2>2. job \in [kind : {"none", "dlsym", "recv_fd", "spawn"},
                for : Threads \cup {NoThread}]
    BY DEF NoJob
  <2>3. pc \in [Threads -> ControlPcs \cup CreatePcs \cup CallPcs
                          \cup ExitPcs \cup MainPcs \cup {"ready", "gone"}]
    OBVIOUS
  <2> QED BY <2>1, <2>2, <2>3 DEF Types
<1>2. BoxWithMain /\ LockHeld /\ RoundTrip
  BY DEF BoxWithMain, LockHeld, RoundTrip
<1>3. ToSet(list) = {} /\ Once(list)
  BY DEF ToSet, Once
<1>4. \A t \in Threads : ChannelOf(t)
  BY <1>3 DEF ChannelOf, Making
<1> QED BY <1>1, <1>2, <1>3, <1>4 DEF Ind

LEMMA IndNext == Ind /\ [Next]_vars => Ind'
<1> SUFFICES ASSUME Ind, [Next]_vars PROVE Ind'
  OBVIOUS
<1>1. CASE UNCHANGED vars
  BY <1>1 DEF vars, Ind, Types, BoxWithMain, LockHeld, RoundTrip, ChannelOf,
     Making, Once
<1>2. ASSUME NEW t \in Threads, ThreadStep(t) PROVE Ind'
  BY <1>2, RoundTripsKeep, MakingKeeps, ListingKeeps, CallsKeep, ExitsKeep,
     UnlistingKeeps DEF ThreadStep
<1>3. ASSUME NEW t \in Threads,
             \/ NeedsChannel(t) \/ Call(t) \/ ThreadExits(t) \/ WorkerStep(t)
      PROVE  Ind'
  BY <1>3, MakingKeeps, CallsKeep, ExitsKeep, WorkersKeep DEF WorkerStep
<1>4. CASE CreateFails \/ CreateForks \/ DestroyKills \/ DestroyStep
  BY <1>4, BoxKeeps, CleaningKeeps DEF DestroyStep
<1>5. CASE ControlStep \/ SandboxDies \/ WatcherStep
  BY <1>5, SandboxKeeps DEF ControlStep, WatcherStep
<1> QED BY <1>1, <1>2, <1>3, <1>4, <1>5 DEF Next, Finished

LEMMA Invariance == Spec => []Ind
BY IndInit, IndNext, PTL DEF Spec

\* A list of threads in which none is twice is no longer than they are many.
LEMMA OnceIsShort ==
  ASSUME NEW l \in Seq(Threads), Once(l)
  PROVE  Len(l) <= Cardinality(Threads)
<1>1. l \in Injection(1..Len(l), Threads)
  BY DEF Once, Injection, IsInjective
<1>2. Len(l) \in Nat /\ 1 \in Int
  OBVIOUS
<1>3. IsFiniteSet(1..Len(l)) /\ Cardinality(1..Len(l)) = Len(l)
  <2>1. /\ IsFiniteSet(1..Len(l))
        /\ Cardinality(1..Len(l)) = IF 1 > Len(l) THEN 0 ELSE Len(l) - 1 + 1
    BY <1>2, FS_Interval
  <2> QED BY <1>2, <2>1
<1>4. IsFiniteSet(Threads)
  BY MainAssumption
<1> QED BY <1>1, <1>3, <1>4, FS_Injection

----------------------------------------------------------------------------
\* The type invariant: the list is never longer than the threads are many.
THEOREM TypeCorrect == Spec => []TypeOK
<1>1. Ind => TypeOK
  <2> SUFFICES ASSUME Ind PROVE TypeOK
    OBVIOUS
  <2>1. Len(list) <= Cardinality(Threads)
    BY OnceIsShort DEF Ind, Types
  <2>2. pc \in [Threads -> ControlPcs \cup CreatePcs \cup CallPcs \cup
                        {"start", "nobox", "ready", "x_exit", "x_unmap",
                         "x_unlist", "gone", "d_join", "d_clean", "d_free"}]
    BY DEF Ind, Types, ExitPcs, MainPcs, DestroyPcs
  <2> QED BY <2>1, <2>2 DEF Ind, Types, TypeOK
<1> QED BY <1>1, Invariance, PTL

\* However many threads create, use and give up channels at a time, the list
\* holds those that are mapped, each once, and pbox_destroy leaves none.
THEOREM ListIsExact == Spec => []ChannelsListed
<1>1. Ind => ChannelsListed
  <2> SUFFICES ASSUME Ind PROVE ChannelsListed
    OBVIOUS
  <2>1. ASSUME NEW t \in Threads
        PROVE  \/ mapped[t] = (t \in ToSet(list))
               \/ lock = t /\ pc[t] \in ControlPcs \cup CreatePcs
               \/ pc[t] = "x_unlist"
               \/ pc[Main] = "d_free"
    BY DEF Ind, Types, LockHeld, ChannelOf, Making, CreatePcs
  <2>2. ASSUME box = "freed", NEW t \in Threads PROVE ~mapped[t]
    BY <2>2 DEF Ind, BoxWithMain, ChannelOf, Making, ControlPcs
  <2> QED BY <2>1, <2>2 DEF Ind, Once, ChannelsListed
<1> QED BY <1>1, Invariance, PTL

\* No interleaving of exits, calls and pbox_destroy has a thread work on a
\* channel that is unmapped, or on a list or lock that is freed.
THEOREM NothingFreedIsUsed == Spec => []NoUseAfterFree
<1>1. Ind => NoUseAfterFree
  BY MainAssumption DEF Ind, Types, BoxWithMain, LockHeld, ChannelOf,
     NoUseAfterFree, ControlPcs, CreatePcs, CallPcs, ExitPcs, DestroyPcs,
     MainPcs
<1> QED BY <1>1, Invariance, PTL

\* Whoever waits on the control channel has the lock, and the answer there is
\* to its own request.
THEOREM RepliesAreMine == Spec => []ControlReplyIsMine
<1>1. Ind => ControlReplyIsMine
  BY NoThreadAssumption DEF Ind, Types, LockHeld, RoundTrip,
     ControlReplyIsMine, ControlPcs
<1> QED BY <1>1, Invariance, PTL
=============================================================================
