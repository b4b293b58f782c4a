-------------------------- MODULE CallbacksProofs --------------------------
(***************************************************************************)
(* Proofs about Callbacks, for every number of threads and functions and   *)
(* every limit.  Dispatch reads the registry while another thread is in    *)
(* any phase of a registration, which may still be taken back: what counts *)
(* are the slots that will stay, those below Kept.                         *)
(***************************************************************************)
EXTENDS Callbacks, TLAPS

Registering == {"fill", "publish", "closure"}

\* callback_lock is held by the thread that registers, and by no other.
Exclusive == \A t \in Threads : pc[t] \in Registering <=> lock = t

\* The registration in progress, at each of its points.
Progress ==
  \A t \in Threads :
    /\ pc[t] \in Registering => fn[t] \in Functions
    /\ pc[t] \in {"fill", "publish"} => id[t] = count /\ count < MaxCallbacks
    /\ pc[t] = "closure" => count = id[t] + 1
    /\ pc[t] \in {"publish", "closure"} => slots[id[t]] = fn[t]

\* The slot at i will not be taken back, and is not written any more.
Kept(i) == i < count /\ \A t \in Threads : pc[t] = "closure" => i < id[t]

\* A worker has closures for slots that are kept only, and no more of them.
Closures ==
  \A t \in Threads :
    /\ \A k \in 1..Len(info[t]) : Kept(info[t][k])
    /\ Len(info[t]) <= count
    /\ \A u \in Threads : pc[u] = "closure" => Len(info[t]) <= id[u]

\* A pointer whose thread is there has a closure for its function.
PointersSound ==
  \A p \in ptrs : p.by \in Threads =>
    /\ p.stub < Len(info[p.by])
    /\ slots[info[p.by][p.stub + 1]] = p.fn

\* The callback in progress, if its stub is one the worker has a closure for.
CallSound ==
  \A t \in Threads : called[t].stub < Len(info[t]) =>
    LET slot == info[t][called[t].stub + 1]
    IN  /\ pc[t] \in {"dispatch", "read"} => id[t] = slot
        /\ pc[t] = "ran" => ran[t] = slots[slot]

\* What the count covers is filled.
Filled == \A i \in Ids : i < count => slots[i] # Nothing

Ind == /\ CallbackTypeOK /\ Filled
       /\ Exclusive /\ Progress /\ Closures
       /\ PointersSound
       /\ CallSound
----------------------------------------------------------------------------
\* Nothing is registered at first.
LEMMA InitInd == CallbackInit => Ind
BY MaxAssumption, NobodyAssumption
   DEF CallbackInit, Ind, CallbackTypeOK, Filled, Exclusive, Progress,
       Closures, PointersSound, CallSound, Ids, Pointers, NoPointer,
       Registering, Kept

\* Every action of every thread keeps each part of Ind.
LEMMA StepInd == Ind /\ [CallbackNext]_callbackVars => Ind'
<1> SUFFICES ASSUME Ind, [CallbackNext]_callbackVars PROVE Ind'
  OBVIOUS
<1> USE MaxAssumption, NobodyAssumption, NothingAssumption DEF Ind
<1>1. ASSUME NEW t \in Threads, RegisterRefused(t) PROVE Ind'
  BY <1>1
     DEF RegisterRefused, callbackVars, CallbackTypeOK, Filled, Exclusive,
         Progress, Closures, PointersSound, CallSound, Kept
<1>2. ASSUME NEW t \in Threads, \E f \in Functions : RegisterLocks(t, f)
      PROVE  Ind'
  <2>1. CallbackTypeOK'
    BY <1>2 DEF CallbackTypeOK, Goto, Ids, RegisterLocks
  <2>2. Filled'
    BY <1>2 DEF RegisterLocks, Filled
  <2>3. Exclusive'
    BY <1>2 DEF CallbackTypeOK, Exclusive, Registering, Goto, RegisterLocks
  <2>4. Progress'
    BY <1>2 DEF CallbackTypeOK, Progress, Goto, RegisterLocks
  <2>5. Closures'
    BY <1>2 DEF Goto, RegisterLocks, Closures, Kept
  <2>6. PointersSound'
    BY <1>2 DEF RegisterLocks, PointersSound
  <2>7. CallSound'
    BY <1>2 DEF Goto, RegisterLocks, Kept, CallSound
  <2> QED BY <2>1, <2>2, <2>3, <2>4, <2>5, <2>6, <2>7
<1>3. ASSUME NEW t \in Threads, RegisterFills(t) PROVE Ind'
  <2>1. CallbackTypeOK'
    BY <1>3 DEF CallbackTypeOK, Goto, RegisterFills
  <2>2. Filled'
    BY <1>3 DEF Progress, Ids, RegisterFills, Filled
  <2>3. Exclusive'
    BY <1>3 DEF Exclusive, Registering, Goto, RegisterFills
  <2>4. Progress'
    BY <1>3
       DEF CallbackTypeOK, Exclusive, Progress, Registering, Goto,
           RegisterFills
  <2>5. Closures'
    BY <1>3 DEF Goto, RegisterFills, Closures, Kept
  <2>6. PointersSound'
    <3> SUFFICES ASSUME NEW q \in ptrs, q.by \in Threads
                 PROVE  /\ q.stub < Len(info[q.by])
                        /\ slots'[info[q.by][q.stub + 1]] = q.fn
      BY <1>3 DEF RegisterFills, PointersSound
    <3>1. /\ q.stub < Len(info[q.by]) /\ q.stub \in Nat
          /\ slots[info[q.by][q.stub + 1]] = q.fn
          /\ info[q.by] \in Seq(Ids)
      BY DEF PointersSound, CallbackTypeOK, Pointers, Ids
    <3>2. q.stub + 1 \in 1..Len(info[q.by])
      BY <3>1
    <3>3. /\ info[q.by][q.stub + 1] < count
          /\ info[q.by][q.stub + 1] \in Ids
      BY <3>1, <3>2 DEF Closures, Kept
    <3>4. slots' = [slots EXCEPT ![count] = fn[t]]
      BY <1>3 DEF RegisterFills, Progress
    <3> QED
      BY <3>1, <3>3, <3>4 DEF CallbackTypeOK, Ids
  <2>7. CallSound'
    <3> SUFFICES ASSUME NEW u \in Threads, called[u].stub < Len(info[u])
                 PROVE  LET slot == info[u][called[u].stub + 1]
                        IN  /\ pc'[u] \in {"dispatch", "read"} => id[u] = slot
                            /\ pc'[u] = "ran" => ran[u] = slots'[slot]
      BY <1>3 DEF RegisterFills, CallSound
    <3>1. info[u] \in Seq(Ids) /\ called[u].stub \in Nat
      BY DEF CallbackTypeOK, Pointers, NoPointer, Ids
    <3>2. called[u].stub + 1 \in 1..Len(info[u])
      BY <3>1
    <3>3. info[u][called[u].stub + 1] \in Ids
      BY <3>1, <3>2
    <3>4. info[u][called[u].stub + 1] < count
      BY <3>2 DEF Closures, Kept
    <3>5. slots' = [slots EXCEPT ![count] = fn[t]]
      BY <1>3 DEF RegisterFills, Progress
    <3>6. slots'[info[u][called[u].stub + 1]] =
            slots[info[u][called[u].stub + 1]]
      BY <3>3, <3>4, <3>5 DEF CallbackTypeOK, Ids
    <3>7. pc'[u] # pc[u] => pc'[u] = "publish"
      BY <1>3 DEF RegisterFills, Goto, CallbackTypeOK
    <3> QED
      BY <3>6, <3>7 DEF CallSound
  <2> QED BY <2>1, <2>2, <2>3, <2>4, <2>5, <2>6, <2>7
<1>4. ASSUME NEW t \in Threads, RegisterPublishes(t) PROVE Ind'
  <2>1. CallbackTypeOK'
    BY <1>4 DEF CallbackTypeOK, Goto, Ids, RegisterPublishes
  <2>2. Filled'
    BY <1>4
       DEF CallbackTypeOK, Progress, Registering, Ids, RegisterPublishes,
           Filled
  <2>3. Exclusive'
    BY <1>4 DEF Exclusive, Registering, Goto, RegisterPublishes
  <2>4. Progress'
    BY <1>4
       DEF CallbackTypeOK, Exclusive, Progress, Registering, Goto,
           RegisterPublishes
  <2>5. Closures'
    BY <1>4
       DEF CallbackTypeOK, Progress, Goto, Ids, RegisterPublishes, Closures,
           Kept
  <2>6. PointersSound'
    BY <1>4 DEF RegisterPublishes, PointersSound
  <2>7. CallSound'
    BY <1>4
       DEF CallbackTypeOK, Progress, Goto, Ids, RegisterPublishes, Kept,
           CallSound
  <2> QED BY <2>1, <2>2, <2>3, <2>4, <2>5, <2>6, <2>7
<1>5. ASSUME NEW t \in Threads, RegisterRollsBack(t) PROVE Ind'
  <2>1. CallbackTypeOK'
    <3>1. count' \in 0..MaxCallbacks /\ 0 \in Ids
      BY <1>5 DEF RegisterRollsBack, CallbackTypeOK, Ids
    <3>2. fn' \in [Threads -> Functions \cup {Nothing}]
      BY <1>5 DEF RegisterRollsBack, Leave, CallbackTypeOK
    <3>3. id' \in [Threads -> Ids]
      BY <1>5, <3>1 DEF RegisterRollsBack, Leave, CallbackTypeOK
    <3>4. lock' \in Threads \cup {Nobody}
      BY <1>5 DEF RegisterRollsBack, Leave
    <3>5. pc' \in [Threads -> {"idle", "fill", "publish", "closure",
                               "dispatch", "read", "ran"}]
      BY <1>5 DEF RegisterRollsBack, Leave, Goto, CallbackTypeOK
    <3> QED
      BY <1>5, <3>1, <3>2, <3>3, <3>4, <3>5
         DEF RegisterRollsBack, Leave, CallbackTypeOK
  <2>2. Filled'
    BY <1>5 DEF CallbackTypeOK, Progress, Ids, RegisterRollsBack, Leave, Filled
  <2>3. Exclusive'
    BY <1>5
       DEF CallbackTypeOK, Exclusive, Registering, Goto, RegisterRollsBack,
           Leave
  <2>4. Progress'
    BY <1>5
       DEF CallbackTypeOK, Exclusive, Progress, Registering, Goto,
           RegisterRollsBack, Leave
  <2>5. Closures'
    BY <1>5 DEF CallbackTypeOK, Goto, RegisterRollsBack, Leave, Closures, Kept
  <2>6. PointersSound'
    BY <1>5 DEF RegisterRollsBack, Leave, PointersSound
  <2>7. CallSound'
    BY <1>5 DEF CallbackTypeOK, Goto, RegisterRollsBack, Leave, Kept, CallSound
  <2> QED BY <2>1, <2>2, <2>3, <2>4, <2>5, <2>6, <2>7
<1>6. ASSUME NEW t \in Threads, RegisterAllocates(t) PROVE Ind'
  <2>1. CallbackTypeOK'
    BY <1>6
       DEF CallbackTypeOK, Progress, Registering, Goto, Ids,
           RegisterAllocates, Leave, Pointers
  <2>2. Filled'
    BY <1>6 DEF RegisterAllocates, Leave, Filled
  <2>3. Exclusive'
    BY <1>6
       DEF CallbackTypeOK, Exclusive, Registering, Goto, RegisterAllocates,
           Leave
  <2>4. Progress'
    BY <1>6
       DEF CallbackTypeOK, Progress, Registering, Goto, RegisterAllocates,
           Leave
  <2>5. Closures'
    BY <1>6
       DEF CallbackTypeOK, Exclusive, Progress, Registering, Goto, Ids,
           RegisterAllocates, Leave, Closures, Kept
  <2>6. PointersSound'
    <3> SUFFICES ASSUME NEW q \in ptrs', q.by \in Threads
                 PROVE  /\ q.stub < Len(info'[q.by])
                        /\ slots'[info'[q.by][q.stub + 1]] = q.fn
      BY DEF PointersSound
    <3>1. /\ info' = [info EXCEPT ![t] = Append(info[t], id[t])]
          /\ slots' = slots /\ slots[id[t]] = fn[t]
          /\ info[t] \in Seq(Ids) /\ id[t] \in Ids
      BY <1>6 DEF RegisterAllocates, Leave, Progress, CallbackTypeOK
    <3>2. CASE q \in ptrs
      <4>1. /\ q.stub < Len(info[q.by])
            /\ slots[info[q.by][q.stub + 1]] = q.fn
            /\ q.stub \in Nat
        BY <3>2 DEF PointersSound, CallbackTypeOK, Pointers, Ids
      <4>2. CASE q.by = t
        BY <3>1, <4>1, <4>2 DEF CallbackTypeOK
      <4>3. CASE q.by # t
        BY <3>1, <4>1, <4>3 DEF CallbackTypeOK
      <4> QED BY <4>2, <4>3
    <3>3. CASE q = [stub |-> Len(info[t]), fn |-> fn[t], by |-> t]
      BY <3>1, <3>3 DEF CallbackTypeOK
    <3> QED
      BY <1>6, <3>2, <3>3 DEF RegisterAllocates
  <2>7. CallSound'
    BY <1>6 DEF CallbackTypeOK, Goto, RegisterAllocates, Leave, Kept, CallSound
  <2> QED BY <2>1, <2>2, <2>3, <2>4, <2>5, <2>6, <2>7
<1>7. ASSUME NEW t \in Threads, \E p \in ptrs : CallsThrough(t, p) PROVE Ind'
  <2>1. CallbackTypeOK'
    BY <1>7
       DEF CallbackTypeOK, Goto, Ids, CallsThrough, InfoOf, Pointers, NoPointer
  <2>2. Filled'
    BY <1>7 DEF CallsThrough, Filled
  <2>3. Exclusive'
    BY <1>7 DEF Exclusive, Registering, Goto, CallsThrough
  <2>4. Progress'
    BY <1>7 DEF Progress, Registering, Goto, CallsThrough
  <2>5. Closures'
    BY <1>7 DEF Goto, CallsThrough, Closures, Kept
  <2>6. PointersSound'
    BY <1>7 DEF CallsThrough, PointersSound
  <2>7. CallSound'
    BY <1>7
       DEF CallbackTypeOK, Goto, Ids, CallsThrough, InfoOf, Closures, Kept,
           CallSound, PointersSound, Pointers
  <2> QED BY <2>1, <2>2, <2>3, <2>4, <2>5, <2>6, <2>7
<1>8. ASSUME NEW t \in Threads, Dispatches(t) PROVE Ind'
  <2>1. CallbackTypeOK'
    BY <1>8 DEF CallbackTypeOK, Goto, Dispatches
  <2>2. Filled'
    BY <1>8 DEF Dispatches, Filled
  <2>3. Exclusive'
    BY <1>8 DEF Exclusive, Registering, Goto, Dispatches
  <2>4. Progress'
    BY <1>8 DEF Progress, Registering, Goto, Dispatches
  <2>5. Closures'
    BY <1>8 DEF Goto, Dispatches, Closures, Kept
  <2>6. PointersSound'
    BY <1>8 DEF Dispatches, PointersSound
  <2>7. CallSound'
    BY <1>8 DEF CallbackTypeOK, Goto, Dispatches, Kept, CallSound
  <2> QED BY <2>1, <2>2, <2>3, <2>4, <2>5, <2>6, <2>7
<1>9. ASSUME NEW t \in Threads, DispatchRefused(t) PROVE Ind'
  <2>1. CallbackTypeOK'
    BY <1>9 DEF CallbackTypeOK, Goto, DispatchRefused
  <2>2. Filled'
    BY <1>9 DEF DispatchRefused, Filled
  <2>3. Exclusive'
    BY <1>9 DEF Exclusive, Registering, Goto, DispatchRefused
  <2>4. Progress'
    BY <1>9 DEF Progress, Registering, Goto, DispatchRefused
  <2>5. Closures'
    BY <1>9 DEF Goto, DispatchRefused, Closures, Kept
  <2>6. PointersSound'
    BY <1>9 DEF DispatchRefused, PointersSound
  <2>7. CallSound'
    <3> SUFFICES ASSUME NEW u \in Threads, called[u].stub < Len(info[u])
                 PROVE  LET slot == info[u][called[u].stub + 1]
                        IN  /\ pc'[u] \in {"dispatch", "read"} => id[u] = slot
                            /\ pc'[u] = "ran" => ran[u] = slots[slot]
      BY <1>9 DEF DispatchRefused, CallSound
    <3>1. info[u] \in Seq(Ids) /\ called[u].stub \in Nat
      BY DEF CallbackTypeOK, Pointers, NoPointer, Ids
    <3>2. called[u].stub + 1 \in 1..Len(info[u])
      BY <3>1
    <3>3. info[u][called[u].stub + 1] < count /\ count \in Nat
      BY <3>2 DEF Closures, Kept, CallbackTypeOK
    <3>4. u # t
      <4>1. SUFFICES ASSUME u = t PROVE FALSE
        OBVIOUS
      <4>2. id[t] = info[t][called[t].stub + 1] /\ id[t] >= count
        BY <1>9, <4>1 DEF DispatchRefused, CallSound
      <4>3. id[t] \in Ids
        BY DEF CallbackTypeOK
      <4> QED
        BY <3>3, <4>1, <4>2, <4>3 DEF Ids
    <3> QED
      BY <1>9, <3>4 DEF DispatchRefused, Goto, CallSound, CallbackTypeOK
  <2> QED BY <2>1, <2>2, <2>3, <2>4, <2>5, <2>6, <2>7
<1>10. ASSUME NEW t \in Threads, DispatchAccepts(t) PROVE Ind'
  <2>1. CallbackTypeOK'
    BY <1>10 DEF CallbackTypeOK, Goto, DispatchAccepts
  <2>2. Filled'
    BY <1>10 DEF DispatchAccepts, Filled
  <2>3. Exclusive'
    BY <1>10 DEF Exclusive, Registering, Goto, DispatchAccepts
  <2>4. Progress'
    BY <1>10 DEF Progress, Registering, Goto, DispatchAccepts
  <2>5. Closures'
    BY <1>10 DEF Goto, DispatchAccepts, Closures, Kept
  <2>6. PointersSound'
    BY <1>10 DEF DispatchAccepts, PointersSound
  <2>7. CallSound'
    BY <1>10 DEF CallbackTypeOK, Goto, DispatchAccepts, Kept, CallSound
  <2> QED BY <2>1, <2>2, <2>3, <2>4, <2>5, <2>6, <2>7
<1>11. ASSUME NEW t \in Threads, CallbackReturns(t) PROVE Ind'
  <2>1. CallbackTypeOK'
    BY <1>11 DEF CallbackTypeOK, Goto, Ids, CallbackReturns
  <2>2. Filled'
    BY <1>11 DEF CallbackReturns, Filled
  <2>3. Exclusive'
    BY <1>11 DEF Exclusive, Registering, Goto, CallbackReturns
  <2>4. Progress'
    BY <1>11 DEF Progress, Registering, Goto, CallbackReturns
  <2>5. Closures'
    BY <1>11 DEF Goto, CallbackReturns, Closures, Kept
  <2>6. PointersSound'
    BY <1>11 DEF CallbackReturns, PointersSound
  <2>7. CallSound'
    BY <1>11 DEF CallbackTypeOK, Goto, CallbackReturns, Kept, CallSound
  <2> QED BY <2>1, <2>2, <2>3, <2>4, <2>5, <2>6, <2>7
<1>12. ASSUME NEW t \in Threads, Restarts(t) PROVE Ind'
  <2>1. CallbackTypeOK'
    <3>1. ptrs' \subseteq Pointers
      <4> SUFFICES ASSUME NEW p \in ptrs
                   PROVE  [p EXCEPT !.by = IF p.by = t THEN Nobody ELSE p.by]
                            \in Pointers
        BY <1>12 DEF Restarts
      <4>1. p \in Pointers
        BY DEF CallbackTypeOK
      <4>2. CASE p.by = t
        BY <4>1, <4>2 DEF Pointers
      <4>3. CASE p.by # t
        BY <4>1, <4>3 DEF Pointers
      <4> QED
        BY <4>2, <4>3
    <3>2. info' \in [Threads -> Seq(Ids)]
      BY <1>12 DEF Restarts, CallbackTypeOK
    <3> QED
      BY <1>12, <3>1, <3>2 DEF Restarts, CallbackTypeOK
  <2>2. Filled'
    BY <1>12 DEF Restarts, Filled
  <2>3. Exclusive'
    BY <1>12 DEF Exclusive, Restarts
  <2>4. Progress'
    BY <1>12 DEF Progress, Restarts
  <2>5. Closures'
    BY <1>12 DEF CallbackTypeOK, Ids, Restarts, Closures, Kept
  <2>6. PointersSound'
    <3> SUFFICES ASSUME NEW q \in ptrs', q.by \in Threads
                 PROVE  /\ q.stub < Len(info'[q.by])
                        /\ slots'[info'[q.by][q.stub + 1]] = q.fn
      BY DEF PointersSound
    <3>1. PICK p \in ptrs :
            q = [p EXCEPT !.by = IF p.by = t THEN Nobody ELSE p.by]
      BY <1>12 DEF Restarts
    <3>2. p \in Pointers
      BY DEF CallbackTypeOK
    <3>3. p.by # t /\ q = p
      BY <3>1, <3>2 DEF Pointers
    <3>4. info'[q.by] = info[q.by] /\ slots' = slots
      BY <1>12, <3>3 DEF Restarts, CallbackTypeOK
    <3> QED
      BY <3>3, <3>4 DEF PointersSound
  <2>7. CallSound'
    BY <1>12 DEF Restarts, Kept, CallSound
  <2> QED BY <2>1, <2>2, <2>3, <2>4, <2>5, <2>6, <2>7
<1>13. CASE UNCHANGED callbackVars
  BY <1>13 DEF callbackVars, CallbackTypeOK, Filled, Exclusive, Progress,
     Closures, PointersSound, CallSound, Kept
<1> QED
  BY <1>1, <1>2, <1>3, <1>4, <1>5, <1>6, <1>7, <1>8, <1>9, <1>10,
     <1>11, <1>12, <1>13
     DEF CallbackNext

\* Whoever registers, fails to register, calls back or exits.
THEOREM Invariance == CallbackSpec => []Ind
BY InitInd, StepInd, PTL DEF CallbackSpec

\* The type invariant: the registry keeps to its limit, and whatever is used
\* as the index of a slot is one.
THEOREM TypeCorrect == CallbackSpec => []CallbackTypeOK
BY Invariance, PTL DEF Ind

\* A slot that dispatch may read without callback_lock is filled, and is not
\* written meanwhile.
THEOREM ReadsAreSafe == CallbackSpec => []PublishedIsFilled
<1>1. Ind => PublishedIsFilled
  BY DEF Ind, PublishedIsFilled, Filled, Progress, CallbackTypeOK, Ids
<1> QED
  BY Invariance, <1>1, PTL

\* A registration that passed the limit of the registry finds a closure free
\* in its worker: it has no more of them than there are slots below its own.
THEOREM ClosuresSuffice == CallbackSpec => []AcceptedFindsStub
<1>1. Ind => AcceptedFindsStub
  BY MaxAssumption DEF Ind, AcceptedFindsStub, Closures, CallbackTypeOK, Ids
<1> QED
  BY Invariance, <1>1, PTL

\* A pointer that a sandboxed function calls on the worker of the thread that
\* made it runs the function it was made for, and so does every pointer with
\* the same stub there, wherever it is from.
THEOREM StubsRunTheirFunction == CallbackSpec => []StubRunsOwnFunction
<1>1. Ind => StubRunsOwnFunction
  BY DEF Ind, StubRunsOwnFunction, CallSound, PointersSound
<1> QED
  BY Invariance, <1>1, PTL
=============================================================================
