--------------------------- MODULE SandboxProofs ---------------------------
(***************************************************************************)
(* For any threads and sandboxes, however deep they call each other: no    *)
(* channel is used while its worker waits for the answer to a callback,    *)
(* and copies are exact.                                                   *)
(*                                                                         *)
(* A thread changes nothing that belongs to another one, so the invariant  *)
(* is one of each thread: what its calls and callbacks, innermost last,    *)
(* say of its channels and of the copy under way.                          *)
(***************************************************************************)
EXTENDS Sandbox, SequenceTheorems, TLAPS

States == {"IDLE", "REQUEST", "CALLBACK"}

\* Calls and callbacks take turns, and plain calls are those of passthrough
\* sandboxes.
Turns(f, i) ==
  /\ IF i = 1 THEN f[i].kind # "callback"
     ELSE f[i].kind = "callback" <=> f[i - 1].kind # "callback"
  /\ f[i].kind = "callback" => f[i].sandbox = f[i - 1].sandbox
  /\ f[i].kind = "plain" => f[i].sandbox \in Passthroughs

\* A process has one call of a thread at a time.
OneCall(f) ==
  \A i, j \in 1..Len(f) :
    (/\ f[i].kind # "callback" /\ f[j].kind # "callback"
     /\ f[i].sandbox = f[j].sandbox /\ f[i].sandbox \in Processes) => i = j

Shape(f) == OneCall(f) /\ \A i \in 1..Len(f) : Turns(f, i)

InCallback(f, p) ==
  \E i \in 1..Len(f) : f[i].kind = "callback" /\ f[i].sandbox = p

Runs(f, p) ==
  f # <<>> /\ f[Len(f)].kind # "callback" /\ f[Len(f)].sandbox = p

CopiesAt(b, c, p) ==
  c # Null /\ c.stage \in {"request", "collect"} /\ b.sandbox = p

\* What the channel of each process is waiting for.
Channels(f, ch, b, c) ==
  \A p \in Processes :
    ch[p] = IF InCallback(f, p) THEN "CALLBACK"
            ELSE IF Runs(f, p) \/ CopiesAt(b, c, p) THEN "REQUEST" ELSE "IDLE"

\* A copy is made by the host program, and not in a callback of the process.
Apart(f, b, c) ==
  c # Null => /\ f # <<>> => f[Len(f)].kind = "callback"
              /\ c.stage # "done" => ~InCallback(f, b.sandbox)
                                     \/ b.sandbox \in Passthroughs

\* How much of a copy is done, and what is in the page.
Progress(t, b, c) ==
  c # Null =>
    /\ b # Null /\ c.at <= c.n
    /\ c.stage \in {"request", "collect"} => b.sandbox \in Processes
    /\ c.stage # "done" => c.at < c.n
    /\ c.stage = "done" => c.at = c.n
    /\ LET moved == IF c.stage = "collect" THEN c.at + Chunk(c) ELSE c.at
       IN  IF c.dir = "to"
           THEN b.cells = Copied(c.old, 0, HostData(t), 0, moved)
           ELSE /\ b.cells = c.old
                /\ c.into = Copied(Blank(Cells), 0, c.old, 0, c.at)
    /\ c.dir = "to" /\ c.stage = "request" =>
         \A k \in 1..Chunk(c) : c.page[k] = HostData(t)[c.at + k]
    /\ c.dir = "from" /\ c.stage = "collect" =>
         \A k \in 1..Chunk(c) : c.page[k] = c.old[c.at + k]

Types ==
  /\ cache \in [Sandboxes -> SUBSET Names]
  /\ nest \in [Threads -> Seq(Frames)]
  /\ tls \in [Threads -> Sandboxes \cup {Null}]
  /\ chan \in [Threads -> [Processes -> States]]
  /\ block \in [Threads -> Blocks \cup {Null}]
  /\ copy \in [Threads -> Copies \cup {Null}]

Calling(t) == /\ Shape(nest[t])
             
              /\ Channels(nest[t], chan[t], block[t], copy[t])
              /\ Apart(nest[t], block[t], copy[t])

Ind == Types /\ \A t \in Threads : /\ Calling(t)
                                   /\ Progress(t, block[t], copy[t])

----------------------------------------------------------------------------
(********************* Calls and callbacks in a row ************************)

\* One frame more.
LEMMA AppendShape ==
  ASSUME NEW f \in Seq(Frames), NEW e \in Frames, Shape(f),
         IF f = <<>> THEN e.kind # "callback"
         ELSE /\ e.kind = "callback" <=> f[Len(f)].kind # "callback"
              /\ e.kind = "callback" => e.sandbox = f[Len(f)].sandbox,
         e.kind = "plain" => e.sandbox \in Passthroughs,
         e.kind # "callback" /\ e.sandbox \in Processes =>
           ~\E i \in 1..Len(f) :
              f[i].kind # "callback" /\ f[i].sandbox = e.sandbox
  PROVE  /\ Append(f, e) \in Seq(Frames) /\ Shape(Append(f, e))
         /\ \A p : InCallback(Append(f, e), p) <=>
              InCallback(f, p) \/ (e.kind = "callback" /\ e.sandbox = p)
         /\ \A p : Runs(Append(f, e), p) <=>
              e.kind # "callback" /\ e.sandbox = p
<1> DEFINE n == Len(f)  g == Append(f, e)
<1>1. /\ n \in Nat /\ (f = <<>> <=> n = 0)
      /\ g \in Seq(Frames) /\ Len(g) = n + 1 /\ g[n + 1] = e /\ g # <<>>
      /\ \A i \in 1..n : g[i] = f[i]
  OBVIOUS
<1>2. \A i \in 1..n : g[i].kind = f[i].kind /\ g[i].sandbox = f[i].sandbox
  BY <1>1
<1> HIDE DEF g
<1>3. ASSUME NEW i \in 1..(n + 1) PROVE Turns(g, i)
  <2>1. CASE i = n + 1
    <3>1. i = 1 <=> f = <<>>
      BY <1>1, <2>1
    <3>2. f # <<>> => /\ g[i - 1].kind = f[n].kind
                      /\ g[i - 1].sandbox = f[n].sandbox
      BY <1>1, <1>2, <2>1
    <3> QED BY <1>1, <2>1, <3>1, <3>2 DEF Turns
  <2>2. CASE i # n + 1
    <3>1. i \in 1..n /\ (i # 1 => i - 1 \in 1..n)
      BY <1>1, <2>2
    <3>2. Turns(f, i)
      BY <3>1 DEF Shape
    <3>3. /\ g[i].kind = f[i].kind /\ g[i].sandbox = f[i].sandbox
          /\ i # 1 => /\ g[i - 1].kind = f[i - 1].kind
                      /\ g[i - 1].sandbox = f[i - 1].sandbox
      BY <1>2, <3>1
    <3>4. g[i].kind = "callback" => i # 1
      BY <3>2, <3>3 DEF Turns
    <3> QED BY <3>2, <3>3, <3>4 DEF Turns
  <2> QED BY <2>1, <2>2
<1>4. Shape(g)
  <2>1. \A i \in 1..(n + 1) : i \in 1..n \/ i = n + 1
    BY <1>1
  <2>2. OneCall(f)
    BY DEF Shape
  <2>3. OneCall(g)
    BY <1>1, <1>2, <2>1, <2>2 DEF OneCall
  <2> QED BY <1>1, <1>3, <2>3 DEF Shape
<1>5. ASSUME NEW p
      PROVE  InCallback(g, p) <=>
               InCallback(f, p) \/ (e.kind = "callback" /\ e.sandbox = p)
  <2>1. \A i : i \in 1..(n + 1) <=> i \in 1..n \/ i = n + 1
    BY <1>1
  <2> QED BY <1>1, <1>2, <2>1 DEF InCallback
<1>6. \A p : Runs(g, p) <=> e.kind # "callback" /\ e.sandbox = p
  BY <1>1 DEF Runs
<1> QED BY <1>1, <1>4, <1>5, <1>6 DEF g

\* The innermost frame goes.
LEMMA FrontShape ==
  ASSUME NEW f \in Seq(Frames), f # <<>>, Shape(f)
  PROVE  /\ Front(f) \in Seq(Frames) /\ Shape(Front(f))
         /\ Len(Front(f)) = Len(f) - 1 /\ Len(f) \in Nat \ {0}
         /\ \A i \in 1..(Len(f) - 1) : Front(f)[i] = f[i]
<1> DEFINE n == Len(f)  h == Front(f)
<1>1. n \in Nat \ {0} /\ \A i \in 1..n : f[i] \in Frames
  OBVIOUS
<1>2. h \in Seq(Frames) /\ Len(h) = n - 1 /\ \A i \in 1..(n - 1) : h[i] = f[i]
  <2>1. h = SubSeq(f, 1, n - 1)
    BY DEF Front
  <2>2. \A i \in 1..(n - 1) : f[i] \in Frames
    BY <1>1
  <2> HIDE DEF h, n
  <2>3. /\ SubSeq(f, 1, n - 1) \in Seq(Frames)
        /\ Len(SubSeq(f, 1, n - 1)) = IF 1 <= n - 1 THEN n - 1 - 1 + 1 ELSE 0
        /\ \A i \in 1..(n - 1 - 1 + 1) : SubSeq(f, 1, n - 1)[i] = f[1 + i - 1]
    BY <1>1, <2>2, SubSeqProperties
  <2> QED BY <1>1, <2>1, <2>3
<1> HIDE DEF h
<1>3. \A i \in 1..(n - 1) : i \in 1..n /\ (i # 1 => i - 1 \in 1..(n - 1))
  BY <1>1
<1>4. Shape(h)
  <2>1. OneCall(h)
    BY <1>1, <1>2, <1>3 DEF Shape, OneCall
  <2>2. ASSUME NEW i \in 1..(n - 1) PROVE Turns(h, i)
    <3>1. Turns(f, i) /\ h[i] = f[i] /\ (i # 1 => h[i - 1] = f[i - 1])
      BY <1>2, <1>3 DEF Shape
    <3>2. h[i].kind = "callback" => i # 1
      BY <3>1 DEF Turns
    <3> QED BY <3>1, <3>2 DEF Turns
  <2> QED BY <1>1, <1>2, <2>1, <2>2 DEF Shape
<1> QED BY <1>1, <1>2, <1>4 DEF h

\* A process whose channel is idle has no call of the thread.
LEMMA IdleMeansNone ==
  ASSUME NEW f \in Seq(Frames), Shape(f), NEW ch, NEW b, NEW c,
         Channels(f, ch, b, c), NEW s \in Processes, ch[s] = "IDLE"
  PROVE  ~\E i \in 1..Len(f) : f[i].kind # "callback" /\ f[i].sandbox = s
<1>1. SUFFICES ASSUME NEW i \in 1..Len(f), f[i].kind # "callback",
                      f[i].sandbox = s
               PROVE  FALSE
  OBVIOUS
<1>2. ~InCallback(f, s) /\ ~Runs(f, s)
  BY DEF Channels
<1>3. Len(f) \in Nat /\ f # <<>> /\ i # Len(f)
  BY <1>1, <1>2 DEF Runs
<1>4. i + 1 \in 1..Len(f) /\ i + 1 # 1 /\ i + 1 - 1 = i
  BY <1>1, <1>3
<1>5. Turns(f, i + 1)
  BY <1>4 DEF Shape
<1>6. f[i + 1].kind = "callback" /\ f[i + 1].sandbox = s
  BY <1>1, <1>4, <1>5 DEF Turns
<1> QED BY <1>2, <1>4, <1>6 DEF InCallback

\* call_impl, call_ptr, call of a pointer.
LEMMA EnterKeeps ==
  ASSUME Ind, NEW t \in Threads, NEW s \in Sandboxes, Enter(t, s)
  PROVE  nest' \in [Threads -> Seq(Frames)] /\ Calling(t)'
<1> DEFINE f == nest[t]
           e == Frame("call", s, Null)
           g == Append(f, e)
<1>1. /\ f \in Seq(Frames) /\ chan[t] \in [Processes -> States]
      /\ nest \in [Threads -> Seq(Frames)]
      /\ chan \in [Threads -> [Processes -> States]]
  BY DEF Ind, Types
<1>2. /\ Shape(f) /\ copy[t] = Null
      /\ Channels(f, chan[t], block[t], Null)
      /\ f # <<>> => f[Len(f)].kind = "callback"
  BY DEF Ind, Calling, Enter, InHost, Last
<1>3. nest' = [nest EXCEPT ![t] = g] /\ UNCHANGED <<block, copy>>
  BY DEF Enter
<1>4. /\ s \in Processes => chan[t][s] = "IDLE"
      /\ chan' = IF s \in Processes THEN [chan EXCEPT ![t][s] = "REQUEST"]
                 ELSE chan
  BY DEF Enter, Idle, Post
<1>5. e \in Frames /\ e.kind = "call" /\ e.sandbox = s
  BY DEF Frame, Frames
<1> HIDE DEF f, e
<1>6. s \in Processes =>
        ~\E i \in 1..Len(f) : f[i].kind # "callback" /\ f[i].sandbox = s
  BY <1>1, <1>2, <1>4, IdleMeansNone
<1>7. /\ g \in Seq(Frames) /\ Shape(g)
      /\ \A p : InCallback(g, p) <=> InCallback(f, p)
      /\ \A p : Runs(g, p) <=> s = p
  BY <1>1, <1>2, <1>5, <1>6, AppendShape
<1> HIDE DEF g
<1>8. nest' \in [Threads -> Seq(Frames)] /\ nest'[t] = g
  BY <1>1, <1>3, <1>7
<1>9. \A p \in Processes : chan'[t][p] = IF p = s THEN "REQUEST" ELSE chan[t][p]
  BY <1>1, <1>4
<1>10. Channels(g, chan'[t], block[t], Null)
  BY <1>2, <1>4, <1>7, <1>9 DEF Channels, CopiesAt, Runs
<1>11. Apart(g, block[t], Null)
  BY DEF Apart
<1> QED BY <1>2, <1>3, <1>7, <1>8, <1>10, <1>11 DEF Calling

\* In static mode, a plain call.
LEMMA CallPlainlyKeeps ==
  ASSUME Ind, NEW t \in Threads, NEW s \in Sandboxes, CallPlainly(t, s)
  PROVE  nest' \in [Threads -> Seq(Frames)] /\ Calling(t)'
<1> DEFINE f == nest[t]
           e == Frame("plain", s, Null)
           g == Append(f, e)
<1>1. f \in Seq(Frames) /\ nest \in [Threads -> Seq(Frames)]
  BY DEF Ind, Types
<1>2. /\ Shape(f) /\ copy[t] = Null
      /\ Channels(f, chan[t], block[t], Null)
      /\ f # <<>> => f[Len(f)].kind = "callback"
  BY DEF Ind, Calling, CallPlainly, InHost, Last
<1>3. /\ nest' = [nest EXCEPT ![t] = g] /\ s \in Passthroughs
      /\ UNCHANGED <<tls, chan, block, copy>>
  BY DEF CallPlainly
<1>4. e \in Frames /\ e.kind = "plain" /\ e.sandbox = s
  BY DEF Frame, Frames
<1> HIDE DEF f, e
<1>5. s \notin Processes
  BY <1>3, SandboxAssumption
<1>6. /\ g \in Seq(Frames) /\ Shape(g)
      /\ \A p : InCallback(g, p) <=> InCallback(f, p)
      /\ \A p : Runs(g, p) <=> s = p
  BY <1>1, <1>2, <1>3, <1>4, <1>5, AppendShape
<1> HIDE DEF g
<1>8. nest' \in [Threads -> Seq(Frames)] /\ nest'[t] = g
  BY <1>1, <1>3, <1>6
<1>9. Channels(g, chan[t], block[t], Null)
  BY <1>2, <1>5, <1>6 DEF Channels, CopiesAt, Runs
<1>10. Apart(g, block[t], Null)
  BY DEF Apart
<1> QED BY <1>2, <1>3, <1>6, <1>8, <1>9, <1>10 DEF Calling

\* callback_thunk_impl.
LEMMA CallsBackKeeps ==
  ASSUME Ind, NEW t \in Threads, CallsBack(t)
  PROVE  nest' \in [Threads -> Seq(Frames)] /\ Calling(t)'
<1> DEFINE f == nest[t]  n == Len(f)  l == f[n]  s == l.sandbox
           e == Frame("callback", s, tls[t])
           g == Append(f, e)
<1>1. /\ f \in Seq(Frames) /\ nest \in [Threads -> Seq(Frames)]
      /\ chan[t] \in [Processes -> States]
      /\ chan \in [Threads -> [Processes -> States]]
      /\ tls[t] \in Sandboxes \cup {Null}
  BY DEF Ind, Types
<1>2. /\ Shape(f) /\ Channels(f, chan[t], block[t], copy[t])
      /\ Apart(f, block[t], copy[t])
      /\ f # <<>> /\ l.kind # "callback"
  BY DEF Ind, Calling, CallsBack, Last
<1>3. /\ nest' = [nest EXCEPT ![t] = g]
      /\ chan' = IF s \in Processes THEN [chan EXCEPT ![t][s] = "CALLBACK"]
                 ELSE chan
      /\ UNCHANGED <<tls, block, copy>>
  BY DEF CallsBack, Post, Last
<1>4. n \in Nat \ {0} /\ l \in Frames
  BY <1>1, <1>2
<1>5. /\ e \in Frames /\ e.kind = "callback" /\ e.sandbox = s
      /\ s \in Sandboxes
  BY <1>1, <1>4 DEF Frame, Frames
<1>6. copy[t] = Null
  BY <1>2 DEF Apart
<1> HIDE DEF f, e, n
<1>7. /\ g \in Seq(Frames) /\ Shape(g)
      /\ \A p : InCallback(g, p) <=> InCallback(f, p) \/ s = p
      /\ \A p : ~Runs(g, p)
  BY <1>1, <1>2, <1>5, AppendShape DEF n
<1> HIDE DEF g, l, s
<1>9. nest' \in [Threads -> Seq(Frames)] /\ nest'[t] = g
  BY <1>1, <1>3, <1>7
<1>10. \A p \in Processes : chan'[t][p] = IF p = s THEN "CALLBACK" ELSE chan[t][p]
  BY <1>1, <1>3
<1>11. \A p : p # s => ~Runs(f, p)
  BY DEF Runs, s, l, n
<1>12. Channels(g, chan'[t], block[t], Null)
  BY <1>2, <1>6, <1>7, <1>10, <1>11 DEF Channels, CopiesAt
<1>13. Apart(g, block[t], Null)
  BY DEF Apart
<1> QED BY <1>3, <1>6, <1>7, <1>9, <1>12, <1>13 DEF Calling

\* A callback or a call returns.
LEMMA ReturnsKeeps ==
  ASSUME Ind, NEW t \in Threads, Returns(t)
  PROVE  nest' \in [Threads -> Seq(Frames)] /\ Calling(t)'
<1> DEFINE f == nest[t]  n == Len(f)  l == f[n]  s == l.sandbox
           h == Front(f)
           post == IF l.kind = "callback" THEN "REQUEST" ELSE "IDLE"
<1>1. /\ f \in Seq(Frames) /\ nest \in [Threads -> Seq(Frames)]
      /\ chan[t] \in [Processes -> States]
      /\ chan \in [Threads -> [Processes -> States]]
  BY DEF Ind, Types
<1>2. /\ Shape(f) /\ Channels(f, chan[t], block[t], Null)
      /\ f # <<>> /\ copy[t] = Null
  BY DEF Ind, Calling, Returns
<1>3. /\ nest' = [nest EXCEPT ![t] = h]
      /\ chan' = IF s \in Processes THEN [chan EXCEPT ![t][s] = post] ELSE chan
      /\ UNCHANGED <<tls, block, copy>>
  BY DEF Returns, Post, Last
<1> HIDE DEF f
<1>4. /\ h \in Seq(Frames) /\ Shape(h)
      /\ Len(h) = n - 1 /\ n \in Nat \ {0}
      /\ \A i \in 1..(n - 1) : h[i] = f[i]
  BY <1>1, <1>2, FrontShape
<1> HIDE DEF h, n, l, s, post
<1>5. nest' \in [Threads -> Seq(Frames)] /\ nest'[t] = h
  BY <1>1, <1>3, <1>4
<1>6. \A p \in Processes : chan'[t][p] = IF p = s THEN post ELSE chan[t][p]
  BY <1>1, <1>3
<1>7. /\ OneCall(f) /\ \A i \in 1..n : Turns(f, i)
      /\ n \in 1..n /\ \A i \in 1..n : i # n => i \in 1..(n - 1)
      /\ h = <<>> <=> n = 1
  BY <1>2, <1>4 DEF Shape, n
<1>8. ASSUME NEW p
      PROVE  InCallback(f, p) <=>
               InCallback(h, p) \/ (l.kind = "callback" /\ s = p)
  BY <1>4, <1>7 DEF InCallback, n, l, s
<1>9. Channels(h, chan'[t], block[t], Null)
  <2>1. ASSUME s \in Processes, NEW i \in 1..(n - 1),
               f[i].kind = "callback", f[i].sandbox = s
        PROVE  /\ i - 1 \in 1..n /\ i - 1 # n /\ i - 1 # n - 1
               /\ f[i - 1].kind # "callback" /\ f[i - 1].sandbox = s
    <3>1. i \in 1..n /\ Turns(f, i)
      BY <1>4, <1>7
    <3>2. i # 1
      BY <2>1, <3>1 DEF Turns
    <3> QED BY <1>4, <2>1, <3>1, <3>2 DEF Turns
  <2>2. CASE l.kind = "callback"
    <3>1. n # 1
      BY <1>7, <2>2 DEF Turns, l
    <3>2. /\ n - 1 \in 1..(n - 1) /\ n - 1 \in 1..n
          /\ f[n - 1].kind # "callback" /\ f[n - 1].sandbox = s
      BY <1>4, <1>7, <2>2, <3>1 DEF Turns, l, s
    <3>3. \A p : Runs(h, p) <=> s = p
      BY <1>4, <1>7, <3>1, <3>2 DEF Runs
    <3>4. \A p : ~Runs(f, p)
      BY <2>2 DEF Runs, l, n
    <3>5. s \in Processes => ~InCallback(h, s)
      <4>1. SUFFICES ASSUME s \in Processes, InCallback(h, s) PROVE FALSE
        OBVIOUS
      <4>2. PICK i \in 1..(n - 1) : f[i].kind = "callback" /\ f[i].sandbox = s
        BY <1>4, <4>1 DEF InCallback
      <4>3. /\ i - 1 \in 1..n /\ i - 1 # n - 1
            /\ f[i - 1].kind # "callback" /\ f[i - 1].sandbox = s
        BY <2>1, <4>1, <4>2
      <4> QED BY <1>7, <3>2, <4>1, <4>3 DEF OneCall, n
    <3> QED BY <1>2, <1>6, <1>8, <2>2, <3>3, <3>4, <3>5
            DEF Channels, CopiesAt, post
  <2>3. CASE l.kind # "callback"
    <3>1. n # 1 => f[n - 1].kind = "callback" /\ n - 1 \in 1..(n - 1)
      BY <1>4, <1>7, <2>3 DEF Turns, l
    <3>2. \A p : ~Runs(h, p)
      BY <1>4, <1>7, <3>1 DEF Runs
    <3>3. \A p : Runs(f, p) <=> s = p
      BY <1>2, <2>3 DEF Runs, l, n, s
    <3>4. s \in Processes => ~InCallback(h, s)
      <4>1. SUFFICES ASSUME s \in Processes, InCallback(h, s) PROVE FALSE
        OBVIOUS
      <4>2. PICK i \in 1..(n - 1) : f[i].kind = "callback" /\ f[i].sandbox = s
        BY <1>4, <4>1 DEF InCallback
      <4>3. /\ i - 1 \in 1..n /\ i - 1 # n
            /\ f[i - 1].kind # "callback" /\ f[i - 1].sandbox = s
        BY <2>1, <4>1, <4>2
      <4> QED BY <1>7, <2>3, <4>1, <4>3 DEF OneCall, n, l, s
    <3> QED BY <1>2, <1>6, <1>8, <2>3, <3>2, <3>3, <3>4
            DEF Channels, CopiesAt, post
  <2> QED BY <2>2, <2>3
<1>10. Apart(h, block[t], Null)
  BY DEF Apart
<1> QED BY <1>2, <1>3, <1>4, <1>5, <1>9, <1>10 DEF Calling

----------------------------------------------------------------------------
(******************************** Copies ***********************************)

LEMMA CopiedType ==
  ASSUME NEW V, NEW n \in Nat, NEW dst \in [1..n -> V], NEW src,
         NEW d \in Nat, NEW s \in Nat, NEW k \in Nat,
         \A i \in 1..k : src[i + s] \in V
  PROVE  Copied(dst, d, src, s, k) \in [1..n -> V]
<1>1. \A i \in 1..n : i \in (d + 1)..(d + k) =>
        i - d \in 1..k /\ d + (i - d) = i
  OBVIOUS
<1>2. \A i \in 1..n : i \in (d + 1)..(d + k) => src[i - d + s] \in V
  BY <1>1
<1> QED BY <1>2 DEF Copied

LEMMA CopiedNone ==
  ASSUME NEW V, NEW n \in Nat, NEW dst \in [1..n -> V], NEW src
  PROVE  Copied(dst, 0, src, 0, 0) = dst
BY DEF Copied

\* Once the first d cells are copied, the k that follow make them d + k.
LEMMA CopiedOn ==
  ASSUME NEW dst \in Contents(Cells), NEW data, NEW src,
         NEW d \in Nat, NEW k \in Nat,
         \A i \in 1..k : src[i] = data[d + i]
  PROVE  Copied(Copied(dst, 0, data, 0, d), d, src, 0, k)
           = Copied(dst, 0, data, 0, d + k)
<1> DEFINE x == Copied(dst, 0, data, 0, d)
           y == Copied(dst, 0, data, 0, d + k)
<1>1. /\ DOMAIN x = 1..Cells
      /\ \A i \in 1..Cells : x[i] = IF i \in 1..d THEN data[i] ELSE dst[i]
      /\ y = [i \in 1..Cells |-> IF i \in 1..(d + k) THEN data[i] ELSE dst[i]]
  BY SandboxAssumption DEF Copied, Contents
<1> HIDE DEF x, y
<1>2. Copied(x, d, src, 0, k)
        = [i \in 1..Cells |->
             IF i \in (d + 1)..(d + k) THEN src[i - d + 0] ELSE x[i]]
  BY <1>1 DEF Copied
<1>3. ASSUME NEW i \in 1..Cells
      PROVE  (IF i \in (d + 1)..(d + k) THEN src[i - d + 0] ELSE x[i])
               = IF i \in 1..(d + k) THEN data[i] ELSE dst[i]
  <2>1. CASE i \in (d + 1)..(d + k)
    <3>1. /\ i - d \in 1..k /\ d + (i - d) = i /\ i - d + 0 = i - d
          /\ i \in 1..(d + k)
      BY <2>1, SandboxAssumption
    <3> QED BY <2>1, <3>1
  <2>2. CASE i \notin (d + 1)..(d + k)
    <3>1. i \in 1..d <=> i \in 1..(d + k)
      BY <2>2, SandboxAssumption
    <3> QED BY <1>1, <2>2, <3>1
  <2> QED BY <2>1, <2>2
<1> QED BY <1>1, <1>2, <1>3 DEF x, y

\* What is copied a second time, all of it, is copied.
LEMMA CopiedAgain ==
  ASSUME NEW dst \in Contents(Cells), NEW data, NEW d \in Nat, NEW k \in Nat,
         d <= k
  PROVE  Copied(Copied(dst, 0, data, 0, d), 0, data, 0, k)
           = Copied(dst, 0, data, 0, k)
<1> DEFINE x == Copied(dst, 0, data, 0, d)
<1>1. /\ DOMAIN x = 1..Cells /\ DOMAIN dst = 1..Cells
      /\ \A i \in 1..Cells : x[i] = IF i \in 1..d THEN data[i] ELSE dst[i]
  BY SandboxAssumption DEF Copied, Contents
<1> HIDE DEF x
<1>2. \A i \in 1..Cells : i \in 1..d => i \in 1..k
  BY SandboxAssumption
<1>3. \A i \in 1..Cells : i - 0 + 0 = i
  BY SandboxAssumption
<1>4. Copied(x, 0, data, 0, k) = Copied(dst, 0, data, 0, k)
  BY <1>1, <1>2, <1>3 DEF Copied
<1> QED BY <1>4 DEF x

\* A thread of which nothing changes.
LEMMA Unmoved ==
  ASSUME Ind, NEW u \in Threads, nest'[u] = nest[u], tls'[u] = tls[u],
         chan'[u] = chan[u], block'[u] = block[u], copy'[u] = copy[u]
  PROVE  Calling(u)' /\ Progress(u, block[u], copy[u])'
<1>1. Calling(u) /\ Progress(u, block[u], copy[u])
  BY DEF Ind
<1> QED BY <1>1 DEF Calling

\* What a copy is about.
LEMMA CopyFacts ==
  ASSUME Ind, NEW t \in Threads, copy[t] # Null
  PROVE  /\ copy[t] \in Copies /\ block[t] \in Blocks
         /\ copy[t].n \in 0..Cells /\ copy[t].at \in 0..Cells
         /\ Chunk(copy[t]) \in Nat
         /\ copy[t].stage # "done" =>
              /\ Chunk(copy[t]) \in 1..PageCells
              /\ copy[t].at + Chunk(copy[t]) \in 0..copy[t].n
         /\ copy[t].dir \in {"to", "from"}
         /\ copy[t].into \in Contents(Cells) /\ copy[t].old \in Contents(Cells)
         /\ copy[t].page \in Contents(PageCells)
         /\ block[t].cells \in Contents(Cells)
         /\ block[t].sandbox \in Sandboxes
         /\ HostData(t) \in Contents(Cells)
<1>1. /\ copy[t] \in Copies /\ block[t] \in Blocks /\ copy[t].at <= copy[t].n
      /\ copy[t].stage # "done" => copy[t].at < copy[t].n
  BY DEF Ind, Types, Progress
<1>2. /\ copy[t].n \in 0..Cells /\ copy[t].at \in 0..Cells
      /\ copy[t].dir \in {"to", "from"}
      /\ copy[t].into \in Contents(Cells) /\ copy[t].old \in Contents(Cells)
      /\ copy[t].page \in Contents(PageCells)
      /\ block[t].cells \in Contents(Cells) /\ block[t].sandbox \in Sandboxes
  BY <1>1 DEF Copies, Blocks
<1>3. HostData(t) \in Contents(Cells)
  BY DEF HostData, Contents, Value
<1>4. /\ Chunk(copy[t]) \in Nat
      /\ copy[t].stage # "done" =>
              /\ Chunk(copy[t]) \in 1..PageCells
              /\ copy[t].at + Chunk(copy[t]) \in 0..copy[t].n
  BY <1>1, <1>2, SandboxAssumption DEF Chunk
<1> QED BY <1>1, <1>2, <1>3, <1>4

\* A step of a copy changes no call, and makes the channel of its sandbox what
\* its stage says.
LEMMA CopyStep ==
  ASSUME Ind, NEW t \in Threads, copy[t] # Null, copy[t].stage # "done",
         UNCHANGED <<nest, tls>>, block'[t].sandbox = block[t].sandbox,
         copy'[t] # Null,
         \A p \in Processes :
           chan'[t][p] =
             IF p # block[t].sandbox THEN chan[t][p]
             ELSE IF copy'[t].stage \in {"request", "collect"} THEN "REQUEST"
             ELSE "IDLE"
  PROVE  Calling(t)'
<1>1. /\ Shape(nest[t])
      /\ Channels(nest[t], chan[t], block[t], copy[t])
      /\ nest[t] # <<>> => nest[t][Len(nest[t])].kind = "callback"
      /\ ~InCallback(nest[t], block[t].sandbox)
           \/ block[t].sandbox \in Passthroughs
  BY DEF Ind, Calling, Apart
<1>2. \A p : ~Runs(nest[t], p)
  BY <1>1 DEF Runs
<1>3. Channels(nest[t], chan'[t], block'[t], copy'[t])
  <2>1. ASSUME NEW p \in Processes
        PROVE  chan'[t][p] =
                 IF InCallback(nest[t], p) THEN "CALLBACK"
                 ELSE IF Runs(nest[t], p) \/ CopiesAt(block'[t], copy'[t], p)
                 THEN "REQUEST" ELSE "IDLE"
    <3>1. CASE p = block[t].sandbox
      <4>1. ~InCallback(nest[t], p)
        BY <1>1, <3>1, SandboxAssumption
      <4> QED BY <1>2, <3>1, <4>1 DEF CopiesAt
    <3>2. CASE p # block[t].sandbox
      BY <1>1, <3>2 DEF CopiesAt, Channels
    <3> QED BY <3>1, <3>2
  <2> QED BY <2>1 DEF Channels
<1>4. Apart(nest[t], block'[t], copy'[t])
  BY <1>1 DEF Apart
<1> QED BY <1>1, <1>3, <1>4 DEF Calling

LEMMA CopyBeginsKeeps ==
  ASSUME Ind, NEW t \in Threads, NEW dir \in {"to", "from"}, NEW n \in 0..Cells,
         CopyBegins(t, dir, n)
  PROVE  Types' /\ Calling(t)' /\ Progress(t, block[t], copy[t])'
<1> DEFINE c == [dir |-> dir, n |-> n, at |-> 0,
                 stage |-> IF n = 0 THEN "done" ELSE "post",
                 into |-> Blank(Cells), page |-> Blank(PageCells),
                 old |-> block[t].cells]
           f == nest[t]  b == block[t]
<1>1. /\ Types /\ b \in Blocks /\ b # Null
      /\ UNCHANGED <<cache, nest, tls, chan, block>>
      /\ copy' = [copy EXCEPT ![t] = c]
  BY DEF Ind, Types, CopyBegins
<1>2. /\ copy[t] = Null /\ (f # <<>> => f[Len(f)].kind = "callback")
      /\ b.sandbox \in Processes => chan[t][b.sandbox] # "CALLBACK"
      /\ Shape(f) /\ Channels(f, chan[t], b, Null)
  BY DEF Ind, Calling, CopyBegins, InHost, Last, MayCopy
<1>3. /\ Blank(Cells) \in Contents(Cells)
      /\ Blank(PageCells) \in Contents(PageCells)
      /\ b.cells \in Contents(Cells) /\ b.sandbox \in Sandboxes
      /\ Cells \in Nat
  BY <1>1, SandboxAssumption DEF Blank, Contents, Value, Blocks
<1>4. c \in Copies
  BY <1>3 DEF Copies
<1>5. /\ c.dir = dir /\ c.n = n /\ c.at = 0 /\ c.into = Blank(Cells)
      /\ c.stage = (IF n = 0 THEN "done" ELSE "post") /\ c.old = b.cells
  OBVIOUS
<1> HIDE DEF c, f, b
<1>6. Types'
  BY <1>1, <1>4 DEF Types
<1>7. copy'[t] = c /\ block'[t] = b
  BY <1>1 DEF Types, b
<1>8. ~InCallback(f, b.sandbox) \/ b.sandbox \in Passthroughs
  BY <1>2, <1>3 DEF Channels, Sandboxes
<1>9. Calling(t)'
  <2>1. Channels(f, chan[t], b, c)
    BY <1>2, <1>5 DEF Channels, CopiesAt
  <2>2. Apart(f, b, c)
    BY <1>2, <1>8 DEF Apart
  <2> QED BY <1>1, <1>2, <1>7, <2>1, <2>2 DEF Calling, f
<1>10. Progress(t, b, c)
  <2>1. /\ Copied(c.old, 0, HostData(t), 0, 0) = c.old
        /\ Copied(Blank(Cells), 0, c.old, 0, 0) = Blank(Cells)
    BY <1>3, <1>5, CopiedNone DEF Contents
  <2> QED BY <1>1, <1>3, <1>5, <2>1 DEF Progress
<1> QED BY <1>6, <1>7, <1>9, <1>10

LEMMA CopyPostsKeeps ==
  ASSUME Ind, NEW t \in Threads, CopyPosts(t)
  PROVE  Types' /\ Calling(t)' /\ Progress(t, block[t], copy[t])'
<1> DEFINE c == copy[t]  b == block[t]  k == Chunk(c)
           page == IF c.dir = "from" THEN c.page
                   ELSE Copied(c.page, 0, HostData(t), c.at, k)
           d == [c EXCEPT !.stage = "request", !.page = page]
<1>1. /\ Types /\ c # Null /\ c.stage = "post" /\ b.sandbox \in Processes
      /\ copy' = [copy EXCEPT ![t] = d]
      /\ chan' = [chan EXCEPT ![t][b.sandbox] = "REQUEST"]
      /\ UNCHANGED <<cache, nest, tls, block>>
  BY DEF Ind, Types, CopyPosts, Copying, Post
<1>2. Progress(t, b, c)
  BY DEF Ind
<1>3. /\ c \in Copies /\ c.n \in 0..Cells /\ c.at \in Nat
      /\ k \in Nat \ {0} /\ k <= PageCells /\ c.at + k <= c.n
      /\ c.page \in Contents(PageCells) /\ HostData(t) \in Contents(Cells)
      /\ Cells \in Nat /\ PageCells \in Nat
  BY <1>1, CopyFacts, SandboxAssumption
<1> HIDE DEF c, b, k
<1>4. page \in Contents(PageCells)
  <2>1. \A i \in 1..k : HostData(t)[i + c.at] \in Value
    BY <1>3 DEF Contents
  <2>2. c.page \in [1..PageCells -> Value]
    BY <1>3 DEF Contents
  <2>3. Copied(c.page, 0, HostData(t), c.at, k) \in [1..PageCells -> Value]
    BY <1>3, <2>1, <2>2, CopiedType
  <2> QED BY <1>3, <2>3 DEF Contents
<1>5. c.dir = "to" => \A i \in 1..k : page[i] = HostData(t)[c.at + i]
  BY <1>3 DEF Copied, Contents
<1> HIDE DEF page
<1>6. /\ d \in Copies /\ d.stage = "request" /\ d.page = page
      /\ d.dir = c.dir /\ d.n = c.n /\ d.at = c.at /\ d.into = c.into
      /\ d.old = c.old
  BY <1>3, <1>4 DEF Copies
<1> HIDE DEF d
<1>7. Chunk(d) = k
  BY <1>6 DEF Chunk, k
<1>8. Types'
  BY <1>1, <1>6 DEF Types, States
<1>9. copy'[t] = d /\ block'[t] = b
  BY <1>1 DEF Types, b
<1>10. Calling(t)'
  <2>1. \A p \in Processes :
          chan'[t][p] = IF p # b.sandbox THEN chan[t][p] ELSE "REQUEST"
    BY <1>1 DEF Types
  <2>2. d # Null
    BY <1>6, NullAssumption
  <2> QED BY <1>1, <1>6, <1>9, <2>1, <2>2, CopyStep DEF b, c
<1>11. Progress(t, b, d)
  BY <1>1, <1>2, <1>5, <1>6, <1>7 DEF Progress
<1> QED BY <1>8, <1>9, <1>10, <1>11

LEMMA CopyRunsKeeps ==
  ASSUME Ind, NEW t \in Threads, CopyRuns(t)
  PROVE  Types' /\ Calling(t)' /\ Progress(t, block[t], copy[t])'
<1> DEFINE c == copy[t]  b == block[t]  k == Chunk(c)
           cells == IF c.dir = "from" THEN b.cells
                    ELSE Copied(b.cells, c.at, c.page, 0, k)
           page == IF c.dir = "to" THEN c.page
                   ELSE Copied(c.page, 0, b.cells, c.at, k)
           a == [b EXCEPT !.cells = cells]
           d == [c EXCEPT !.stage = "collect", !.page = page]
<1>1. /\ Types /\ c # Null /\ c.stage = "request" /\ b.sandbox \in Processes
      /\ copy' = [copy EXCEPT ![t] = d]
      /\ block' = IF c.dir = "from" THEN block ELSE [block EXCEPT ![t] = a]
      /\ UNCHANGED <<cache, nest, tls, chan>>
  BY DEF Ind, Types, CopyRuns, Copying
<1>2. Progress(t, b, c) /\ Channels(nest[t], chan[t], b, c)
      /\ Apart(nest[t], b, c)
  BY DEF Ind, Calling
<1>3. /\ c \in Copies /\ c.n \in 0..Cells /\ c.at \in Nat
      /\ k \in Nat \ {0} /\ k <= PageCells /\ c.at + k <= c.n /\ c.dir \in {"to", "from"}
      /\ c.page \in Contents(PageCells) /\ c.old \in Contents(Cells)
      /\ b \in Blocks /\ b.cells \in Contents(Cells)
      /\ HostData(t) \in Contents(Cells) /\ b.sandbox \in Sandboxes
      /\ Cells \in Nat /\ PageCells \in Nat
  BY <1>1, CopyFacts, SandboxAssumption
<1> HIDE DEF c, b, k
<1>4. cells \in Contents(Cells)
  <2>1. \A i \in 1..k : c.page[i + 0] \in Value
    BY <1>3 DEF Contents
  <2>2. b.cells \in [1..Cells -> Value]
    BY <1>3 DEF Contents
  <2>3. Copied(b.cells, c.at, c.page, 0, k) \in [1..Cells -> Value]
    BY <1>3, <2>1, <2>2, CopiedType
  <2> QED BY <1>3, <2>3 DEF Contents
<1>5. page \in Contents(PageCells)
  <2>1. \A i \in 1..k : b.cells[i + c.at] \in Value
    BY <1>3 DEF Contents
  <2>2. c.page \in [1..PageCells -> Value]
    BY <1>3 DEF Contents
  <2>3. Copied(c.page, 0, b.cells, c.at, k) \in [1..PageCells -> Value]
    BY <1>3, <2>1, <2>2, CopiedType
  <2> QED BY <1>3, <2>3 DEF Contents
<1>6. c.dir = "to" => cells = Copied(c.old, 0, HostData(t), 0, c.at + k)
  <2>1. SUFFICES ASSUME c.dir = "to"
                 PROVE  cells = Copied(c.old, 0, HostData(t), 0, c.at + k)
    OBVIOUS
  <2>2. b.cells = Copied(c.old, 0, HostData(t), 0, c.at)
    BY <1>1, <1>2, <2>1 DEF Progress
  <2>3. \A i \in 1..k : c.page[i] = HostData(t)[c.at + i]
    BY <1>1, <1>2, <1>3, <2>1 DEF Progress, k
  <2>4. Copied(Copied(c.old, 0, HostData(t), 0, c.at), c.at, c.page, 0, k)
          = Copied(c.old, 0, HostData(t), 0, c.at + k)
    BY <1>3, <2>3, CopiedOn
  <2> QED BY <2>1, <2>2, <2>4
<1>7. c.dir = "from" => \A i \in 1..k : page[i] = c.old[c.at + i]
  <2>1. c.dir = "from" => b.cells = c.old
    BY <1>1, <1>2 DEF Progress
  <2> QED BY <1>3, <2>1 DEF Copied, Contents
<1> HIDE DEF cells, page
<1>8. /\ d \in Copies /\ d.stage = "collect" /\ d.page = page
      /\ d.dir = c.dir /\ d.n = c.n /\ d.at = c.at /\ d.into = c.into
      /\ d.old = c.old
  BY <1>3, <1>5 DEF Copies
<1>9. a \in Blocks /\ a.cells = cells /\ a.sandbox = b.sandbox
  BY <1>3, <1>4 DEF Blocks
<1> HIDE DEF d, a
<1>10. Chunk(d) = k
  BY <1>8 DEF Chunk, k
<1>11. Types'
  BY <1>1, <1>8, <1>9 DEF Types, States
<1>12. /\ copy'[t] = d /\ d # Null
       /\ block'[t] \in Blocks /\ block'[t] # Null
       /\ block'[t].sandbox = b.sandbox
       /\ block'[t].cells = cells
  BY <1>1, <1>3, <1>8, <1>9, NullAssumption DEF Types, b, cells
<1>13. Calling(t)'
  <2>1. chan[t][b.sandbox] = "REQUEST"
    BY <1>1, <1>2, SandboxAssumption
       DEF Channels, CopiesAt, Apart, Runs
  <2>2. \A p \in Processes :
          chan'[t][p] = IF p # b.sandbox THEN chan[t][p] ELSE "REQUEST"
    BY <1>1, <2>1
  <2> QED BY <1>1, <1>8, <1>12, <2>2, CopyStep DEF b, c
<1>14. Progress(t, block'[t], d)
  BY <1>1, <1>2, <1>3, <1>6, <1>7, <1>8, <1>10, <1>12 DEF Progress, cells
<1> QED BY <1>11, <1>12, <1>13, <1>14

LEMMA CopyCollectsKeeps ==
  ASSUME Ind, NEW t \in Threads, CopyCollects(t)
  PROVE  Types' /\ Calling(t)' /\ Progress(t, block[t], copy[t])'
<1> DEFINE c == copy[t]  b == block[t]  k == Chunk(c)
           into == IF c.dir = "to" THEN c.into
                   ELSE Copied(c.into, c.at, c.page, 0, k)
           d == [c EXCEPT !.into = into, !.at = @ + k, !.stage = NextStage(c)]
<1>1. /\ Types /\ c # Null /\ c.stage = "collect" /\ b.sandbox \in Processes
      /\ copy' = [copy EXCEPT ![t] = d]
      /\ chan' = [chan EXCEPT ![t][b.sandbox] = "IDLE"]
      /\ UNCHANGED <<cache, nest, tls, block>>
  BY DEF Ind, Types, CopyCollects, Copying, Post
<1>2. Progress(t, b, c)
  BY DEF Ind
<1>3. /\ c \in Copies /\ c.n \in 0..Cells /\ c.at \in Nat
      /\ k \in Nat \ {0} /\ k <= PageCells /\ c.at + k <= c.n /\ c.dir \in {"to", "from"}
      /\ c.page \in Contents(PageCells) /\ c.old \in Contents(Cells)
      /\ c.into \in Contents(Cells)
      /\ Cells \in Nat /\ PageCells \in Nat
  BY <1>1, CopyFacts, SandboxAssumption
<1> HIDE DEF c, b, k
<1>4. into \in Contents(Cells)
  <2>1. \A i \in 1..k : c.page[i + 0] \in Value
    BY <1>3 DEF Contents
  <2>2. c.into \in [1..Cells -> Value]
    BY <1>3 DEF Contents
  <2>3. Copied(c.into, c.at, c.page, 0, k) \in [1..Cells -> Value]
    BY <1>3, <2>1, <2>2, CopiedType
  <2> QED BY <1>3, <2>3 DEF Contents
<1>5. c.dir = "from" => into = Copied(Blank(Cells), 0, c.old, 0, c.at + k)
  <2>1. SUFFICES ASSUME c.dir = "from"
                 PROVE  into = Copied(Blank(Cells), 0, c.old, 0, c.at + k)
    OBVIOUS
  <2>2. c.into = Copied(Blank(Cells), 0, c.old, 0, c.at)
    BY <1>1, <1>2, <2>1 DEF Progress
  <2>3. \A i \in 1..k : c.page[i] = c.old[c.at + i]
    BY <1>1, <1>2, <1>3, <2>1 DEF Progress, k
  <2>4. Blank(Cells) \in Contents(Cells)
    BY DEF Blank, Contents, Value
  <2>5. Copied(Copied(Blank(Cells), 0, c.old, 0, c.at), c.at, c.page, 0, k)
          = Copied(Blank(Cells), 0, c.old, 0, c.at + k)
    BY <1>3, <2>3, <2>4, CopiedOn
  <2> QED BY <2>1, <2>2, <2>5
<1> HIDE DEF into
<1>6. NextStage(c) = IF c.at + k < c.n THEN "post" ELSE "done"
  BY DEF NextStage, k
<1>7. /\ d \in Copies /\ d.stage = NextStage(c) /\ d.into = into
      /\ d.dir = c.dir /\ d.n = c.n /\ d.at = c.at + k /\ d.page = c.page
      /\ d.old = c.old
  <2>1. c.at + k \in 0..Cells /\ NextStage(c) \in {"post", "done"}
    BY <1>3, <1>6
  <2> QED BY <1>3, <1>4, <2>1 DEF Copies
<1> HIDE DEF d
<1>8. Types'
  BY <1>1, <1>7 DEF Types, States
<1>9. copy'[t] = d /\ block'[t] = b /\ d # Null
  BY <1>1, <1>7, NullAssumption DEF Types, b
<1>10. Calling(t)'
  <2>1. \A p \in Processes :
          chan'[t][p] = IF p # b.sandbox THEN chan[t][p] ELSE "IDLE"
    BY <1>1 DEF Types
  <2>2. d.stage \notin {"request", "collect"}
    BY <1>6, <1>7
  <2> QED BY <1>1, <1>9, <2>1, <2>2, CopyStep DEF b, c
<1>11. Progress(t, b, d)
  <2>1. IF c.dir = "to"
        THEN b.cells = Copied(c.old, 0, HostData(t), 0, c.at + k)
        ELSE b.cells = c.old
    BY <1>1, <1>2 DEF Progress, k
  <2>2. /\ d.stage # "done" => d.stage = "post" /\ d.at < d.n
        /\ d.stage = "done" => d.at = d.n
        /\ d.at <= d.n
    BY <1>3, <1>6, <1>7
  <2>3. b # Null /\ c.dir # "to" => c.dir = "from"
    BY <1>2, <1>3 DEF Progress
  <2> QED BY <1>1, <1>2, <1>3, <1>5, <1>6, <1>7, <2>1, <2>2, <2>3 DEF Progress
<1> QED BY <1>8, <1>9, <1>10, <1>11

LEMMA CopyDirectKeeps ==
  ASSUME Ind, NEW t \in Threads, CopyDirect(t)
  PROVE  Types' /\ Calling(t)' /\ Progress(t, block[t], copy[t])'
<1> DEFINE c == copy[t]  b == block[t]
           cells == IF c.dir = "from" THEN b.cells
                    ELSE Copied(b.cells, 0, HostData(t), 0, c.n)
           into == IF c.dir = "to" THEN c.into
                   ELSE Copied(c.into, 0, b.cells, 0, c.n)
           a == [b EXCEPT !.cells = cells]
           d == [c EXCEPT !.into = into, !.at = c.n, !.stage = "done"]
<1>1. /\ Types /\ c # Null /\ c.stage = "post" /\ b.sandbox \in Passthroughs
      /\ copy' = [copy EXCEPT ![t] = d]
      /\ block' = IF c.dir = "from" THEN block ELSE [block EXCEPT ![t] = a]
      /\ UNCHANGED <<cache, nest, tls, chan>>
  BY DEF Ind, Types, CopyDirect, Copying
<1>2. Progress(t, b, c)
  BY DEF Ind
<1>3. /\ c \in Copies /\ c.n \in 0..Cells /\ c.at \in Nat /\ c.at <= c.n
      /\ c.dir \in {"to", "from"}
      /\ c.into \in Contents(Cells) /\ c.old \in Contents(Cells)
      /\ b \in Blocks /\ b.cells \in Contents(Cells)
      /\ HostData(t) \in Contents(Cells)
      /\ Cells \in Nat /\ c.n \in Nat /\ 0 \in Nat
  BY <1>1, <1>2, CopyFacts, SandboxAssumption DEF Progress
<1> HIDE DEF c, b
<1>4. /\ b.cells \in [1..Cells -> Value] /\ c.into \in [1..Cells -> Value]
      /\ c.old \in [1..Cells -> Value] /\ HostData(t) \in [1..Cells -> Value]
      /\ Blank(Cells) \in [1..Cells -> Value]
  BY <1>3 DEF Contents, Blank, Value
<1>5. cells \in Contents(Cells) /\ into \in Contents(Cells)
  <2>1. \A i \in 1..c.n : i + 0 \in 1..Cells
    BY <1>3
  <2>2. /\ \A i \in 1..c.n : HostData(t)[i + 0] \in Value
        /\ \A i \in 1..c.n : b.cells[i + 0] \in Value
    BY <1>4, <2>1
  <2>3. Copied(b.cells, 0, HostData(t), 0, c.n) \in [1..Cells -> Value]
    BY ONLY <1>3, <1>4, <2>2, CopiedType
  <2>4. Copied(c.into, 0, b.cells, 0, c.n) \in [1..Cells -> Value]
    BY ONLY <1>3, <1>4, <2>2, CopiedType
  <2> QED BY <1>3, <2>3, <2>4 DEF Contents
<1>6. c.dir = "to" => cells = Copied(c.old, 0, HostData(t), 0, c.n)
  <2>1. c.dir = "to" => b.cells = Copied(c.old, 0, HostData(t), 0, c.at)
    BY <1>1, <1>2 DEF Progress
  <2>2. Copied(Copied(c.old, 0, HostData(t), 0, c.at), 0, HostData(t), 0, c.n)
          = Copied(c.old, 0, HostData(t), 0, c.n)
    BY <1>3, CopiedAgain
  <2> QED BY <2>1, <2>2
<1>7. c.dir = "from" => /\ cells = c.old /\ b.cells = c.old
                        /\ into = Copied(Blank(Cells), 0, c.old, 0, c.n)
  <2>1. c.dir = "from" => /\ b.cells = c.old
                          /\ c.into = Copied(Blank(Cells), 0, c.old, 0, c.at)
    BY <1>1, <1>2 DEF Progress
  <2>2. Blank(Cells) \in Contents(Cells)
    BY <1>4 DEF Contents
  <2>3. Copied(Copied(Blank(Cells), 0, c.old, 0, c.at), 0, c.old, 0, c.n)
          = Copied(Blank(Cells), 0, c.old, 0, c.n)
    BY <1>3, <2>2, CopiedAgain
  <2> QED BY <2>1, <2>3
<1> HIDE DEF cells, into
<1>8. /\ d \in Copies /\ d.stage = "done" /\ d.into = into
      /\ d.dir = c.dir /\ d.n = c.n /\ d.at = c.n /\ d.page = c.page
      /\ d.old = c.old
  BY <1>3, <1>5 DEF Copies
<1>9. a \in Blocks /\ a.cells = cells /\ a.sandbox = b.sandbox
  BY <1>3, <1>5 DEF Blocks
<1> HIDE DEF d, a
<1>10. Types'
  BY <1>1, <1>8, <1>9 DEF Types, States
<1>11. /\ copy'[t] = d /\ d # Null
       /\ block'[t] \in Blocks /\ block'[t] # Null
       /\ block'[t].sandbox = b.sandbox /\ block'[t].cells = cells
  BY <1>1, <1>3, <1>8, <1>9, NullAssumption DEF Types, b, cells
<1>12. Calling(t)'
  <2>1. \A p \in Processes : p # b.sandbox
    BY <1>1, SandboxAssumption
  <2> QED BY <1>1, <1>11, <2>1, CopyStep DEF b, c
<1>13. Progress(t, block'[t], d)
  BY <1>3, <1>6, <1>7, <1>8, <1>11 DEF Progress
<1> QED BY <1>10, <1>11, <1>12, <1>13

LEMMA CopyReturnsKeeps ==
  ASSUME Ind, NEW t \in Threads, CopyReturns(t)
  PROVE  Types' /\ Calling(t)' /\ Progress(t, block[t], copy[t])'
<1>1. /\ Types /\ copy[t].stage = "done" /\ copy' = [copy EXCEPT ![t] = Null]
      /\ UNCHANGED <<cache, nest, tls, chan, block>>
  BY DEF Ind, CopyReturns, Copying
<1>2. /\ Shape(nest[t])
      /\ Channels(nest[t], chan[t], block[t], copy[t])
  BY DEF Ind, Calling
<1>3. Types' /\ copy'[t] = Null
  BY <1>1 DEF Types
<1>4. Channels(nest[t], chan[t], block[t], Null)
  BY <1>1, <1>2 DEF Channels, CopiesAt
<1>5. Apart(nest[t], block[t], Null) /\ Progress(t, block[t], Null)
  BY DEF Apart, Progress
<1> QED BY <1>1, <1>2, <1>3, <1>4, <1>5 DEF Calling

\* malloc and free.
LEMMA MemoryKeeps ==
  ASSUME Ind, NEW t \in Threads,
         Free(t) \/ \E s \in Sandboxes : Alloc(t, s)
  PROVE  Types' /\ Calling(t)' /\ Progress(t, block[t], copy[t])'
<1>1. PICK x \in Blocks \cup {Null} : block' = [block EXCEPT ![t] = x]
  <2>1. Blank(Cells) \in Contents(Cells)
    BY DEF Blank, Contents, Value
  <2>2. \A s \in Sandboxes : [sandbox |-> s, cells |-> Blank(Cells)] \in Blocks
    BY <2>1 DEF Blocks
  <2> QED BY <2>2 DEF Alloc, Free
<1>2. Types /\ copy[t] = Null /\ UNCHANGED <<cache, nest, tls, chan, copy>>
  BY DEF Ind, Alloc, Free, InHost
<1>3. /\ Shape(nest[t])
      /\ Channels(nest[t], chan[t], block[t], Null)
  BY <1>2 DEF Ind, Calling
<1>4. Types' /\ block'[t] = x
  BY <1>1, <1>2 DEF Types
<1>5. Channels(nest[t], chan[t], x, Null)
  BY <1>3 DEF Channels, CopiesAt
<1>6. Apart(nest[t], x, Null) /\ Progress(t, x, Null)
  BY DEF Apart, Progress
<1> QED BY <1>2, <1>3, <1>4, <1>5, <1>6 DEF Calling

----------------------------------------------------------------------------
(***************************** The theorems ********************************)

\* What a thread does that is none of its copies.
LEMMA CallKeeps ==
  ASSUME Ind, NEW t \in Threads,
         \/ \E s \in Sandboxes :
              Enter(t, s) /\ cache' \in [Sandboxes -> SUBSET Names]
         \/ \E s \in Sandboxes : CallPlainly(t, s)
         \/ CallsBack(t) \/ Returns(t)
  PROVE  Types' /\ Calling(t)' /\ Progress(t, block[t], copy[t])'
<1>1. nest' \in [Threads -> Seq(Frames)] /\ Calling(t)'
  BY EnterKeeps, CallPlainlyKeeps, CallsBackKeeps, ReturnsKeeps
<1>2. /\ cache' \in [Sandboxes -> SUBSET Names] /\ UNCHANGED <<block, copy>>
      /\ tls' = tls \/ \E s \in Sandboxes : tls' = [tls EXCEPT ![t] = s]
      /\ \/ chan' = chan
         \/ \E p \in Processes, x \in States : chan' = [chan EXCEPT ![t][p] = x]
  BY DEF Ind, Types, Enter, CallPlainly, CallsBack, Returns, Post,
         States
<1>3. Types
  BY DEF Ind
<1>4. /\ tls' \in [Threads -> Sandboxes \cup {Null}]
      /\ chan' \in [Threads -> [Processes -> States]]
  <2>1. /\ tls \in [Threads -> Sandboxes \cup {Null}]
        /\ chan \in [Threads -> [Processes -> States]]
    BY <1>3 DEF Types
  <2>2. ASSUME NEW p \in Processes, NEW x \in States
        PROVE  [chan EXCEPT ![t][p] = x] \in [Threads -> [Processes -> States]]
    BY <2>1
  <2>3. tls' \in [Threads -> Sandboxes \cup {Null}]
    BY <1>2, <2>1
  <2> QED BY <1>2, <2>1, <2>2, <2>3
<1>5. Types' /\ Progress(t, block[t], copy[t])'
  BY <1>1, <1>2, <1>3, <1>4 DEF Types, Ind
<1> QED BY <1>1, <1>5

\* What a thread does, one of its own steps or a change of the cache.
Moves(t) ==
  \/ /\ cache' \in [Sandboxes -> SUBSET Names]
     /\ UNCHANGED <<nest, tls, chan, block, copy>>
  \/ \E s \in Sandboxes :
       Enter(t, s) /\ cache' \in [Sandboxes -> SUBSET Names]
  \/ \E s \in Sandboxes : CallPlainly(t, s)
  \/ CallsBack(t) \/ Returns(t)
  \/ \E dir \in {"to", "from"}, n \in 0..Cells : CopyBegins(t, dir, n)
  \/ CopyPosts(t) \/ CopyRuns(t) \/ CopyCollects(t) \/ CopyDirect(t)
  \/ CopyReturns(t)
  \/ Free(t) \/ \E s \in Sandboxes : Alloc(t, s)

LEMMA NextMoves ==
  ASSUME Types, Next
  PROVE  \E t \in Threads : Moves(t)
<1>1. PICK t \in Threads :
        \/ CallsBack(t) \/ Returns(t) \/ CopyPosts(t) \/ CopyRuns(t)
        \/ CopyCollects(t) \/ CopyDirect(t) \/ CopyReturns(t) \/ Free(t)
        \/ \E dir \in {"to", "from"}, n \in 0..Cells : CopyBegins(t, dir, n)
        \/ \E s \in Sandboxes :
             \/ \E name \in Names :
                  CallByName(t, s, name) \/ MakeHandle(t, s, name)
             \/ CallByHandle(t, s) \/ CallByPointer(t, s) \/ CallPlainly(t, s)
             \/ Alloc(t, s)
  BY DEF Next
<1>2. cache \in [Sandboxes -> SUBSET Names]
  BY DEF Types
<1>3. ASSUME NEW s \in Sandboxes, NEW name \in Names, Lookup(t, s, name)
      PROVE  cache' \in [Sandboxes -> SUBSET Names]
  BY <1>2, <1>3 DEF Lookup
<1>4. ASSUME NEW s \in Sandboxes, NEW name \in Names,
             CallByName(t, s, name) \/ MakeHandle(t, s, name)
      PROVE  Moves(t)
  BY <1>3, <1>4 DEF CallByName, MakeHandle, Moves
<1>5. ASSUME NEW s \in Sandboxes, CallByHandle(t, s) \/ CallByPointer(t, s)
      PROVE  Moves(t)
  BY <1>2, <1>5 DEF CallByHandle, CallByPointer, Moves
<1> QED BY <1>1, <1>4, <1>5 DEF Moves

LEMMA MovesKeep ==
  ASSUME Ind, NEW t \in Threads, Moves(t)
  PROVE  Ind'
<1>1. Types' /\ Calling(t)' /\ Progress(t, block[t], copy[t])'
  <2>1. CASE /\ cache' \in [Sandboxes -> SUBSET Names]
             /\ UNCHANGED <<nest, tls, chan, block, copy>>
    BY <2>1, Unmoved DEF Ind, Types
  <2>2. CASE ~(/\ cache' \in [Sandboxes -> SUBSET Names]
               /\ UNCHANGED <<nest, tls, chan, block, copy>>)
    BY <2>2, CallKeeps, CopyBeginsKeeps, CopyPostsKeeps, CopyRunsKeeps,
       CopyCollectsKeeps, CopyDirectKeeps, CopyReturnsKeeps, MemoryKeeps
       DEF Moves
  <2> QED BY <2>1, <2>2
<1>2. ASSUME NEW u \in Threads, u # t
      PROVE  /\ nest'[u] = nest[u] /\ tls'[u] = tls[u] /\ chan'[u] = chan[u]
             /\ block'[u] = block[u] /\ copy'[u] = copy[u]
  <2>1. Types
    BY DEF Ind
  <2>2. nest' = nest \/ \E x : nest' = [nest EXCEPT ![t] = x]
    BY DEF Moves, Enter, CallPlainly, CallsBack, Returns, CopyBegins, CopyPosts,
           CopyRuns, CopyCollects, CopyDirect, CopyReturns, Free, Alloc
  <2>3. tls' = tls \/ \E x : tls' = [tls EXCEPT ![t] = x]
    BY DEF Moves, Enter, CallPlainly, CallsBack, Returns, CopyBegins, CopyPosts,
           CopyRuns, CopyCollects, CopyDirect, CopyReturns, Free, Alloc
  <2>4. chan' = chan \/ \E p, x : chan' = [chan EXCEPT ![t][p] = x]
    BY DEF Moves, Enter, CallPlainly, CallsBack, Returns, CopyBegins, CopyPosts,
           CopyRuns, CopyCollects, CopyDirect, CopyReturns, Free, Alloc, Post
  <2>5. block' = block \/ \E x : block' = [block EXCEPT ![t] = x]
    BY DEF Moves, Enter, CallPlainly, CallsBack, Returns, CopyBegins, CopyPosts,
           CopyRuns, CopyCollects, CopyDirect, CopyReturns, Free, Alloc
  <2>6. copy' = copy \/ \E x : copy' = [copy EXCEPT ![t] = x]
    BY DEF Moves, Enter, CallPlainly, CallsBack, Returns, CopyBegins, CopyPosts,
           CopyRuns, CopyCollects, CopyDirect, CopyReturns, Free, Alloc
  <2> QED BY <1>2, <2>1, <2>2, <2>3, <2>4, <2>5, <2>6 DEF Types
<1>3. ASSUME NEW u \in Threads
      PROVE  Calling(u)' /\ Progress(u, block[u], copy[u])'
  BY <1>1, <1>2, Unmoved
<1> QED BY <1>1, <1>3 DEF Ind

LEMMA InitInd ==
  ASSUME Init
  PROVE  Ind
<1>1. Types
  BY DEF Init, Types, States
<1>2. ASSUME NEW t \in Threads
      PROVE  Calling(t) /\ Progress(t, block[t], copy[t])
  <2>1. nest[t] = <<>> /\ copy[t] = Null /\ chan[t] = [p \in Processes |-> "IDLE"]
    BY DEF Init
  <2>2. Shape(<<>>)
    BY DEF Shape, OneCall
  <2>3. Channels(<<>>, chan[t], block[t], Null)
    BY <2>1 DEF Channels, InCallback, Runs, CopiesAt
  <2>4. Apart(<<>>, block[t], Null) /\ Progress(t, block[t], Null)
    BY DEF Apart, Progress
  <2> QED BY <2>1, <2>2, <2>3, <2>4 DEF Calling
<1> QED BY <1>1, <1>2 DEF Ind

LEMMA Inductive == Spec => []Ind
<1>1. Ind /\ [Next]_vars => Ind'
  <2>1. SUFFICES ASSUME Ind, [Next]_vars PROVE Ind'
    OBVIOUS
  <2>2. CASE Next
    BY <2>1, <2>2, NextMoves, MovesKeep DEF Ind
  <2>3. CASE UNCHANGED vars
    <3>1. \A u \in Threads : Calling(u)' /\ Progress(u, block[u], copy[u])'
      BY <2>1, <2>3, Unmoved DEF vars
    <3>2. Types'
      BY <2>1, <2>3 DEF vars, Ind, Types
    <3> QED BY <3>1, <3>2 DEF Ind
  <2> QED BY <2>1, <2>2, <2>3
<1> QED BY <1>1, InitInd, PTL DEF Spec

\* The caches, the calls of every thread, the channels, the blocks and the
\* copies keep their types, and no copy goes past its end.
THEOREM TypeCorrect == Spec => []TypeOK
<1>1. Ind => TypeOK
  BY DEF Ind, Types, Progress, TypeOK, States
<1> QED BY <1>1, Inductive, PTL

\* As long as a worker waits for the answer to a callback, nothing the host
\* program does elsewhere changes its channel.
THEOREM WaitingWorkerIsLeftAlone == Spec => []CallsBackUndisturbed
<1>1. Ind => CallsBackUndisturbed
  <2>1. ASSUME Ind, NEW t \in Threads, NEW i \in DOMAIN nest[t],
               nest[t][i].kind = "callback", nest[t][i].sandbox \in Processes
        PROVE  chan[t][nest[t][i].sandbox] = "CALLBACK"
    <3>1. /\ nest[t] \in Seq(Frames)
          /\ Channels(nest[t], chan[t], block[t], copy[t])
      BY <2>1 DEF Ind, Types, Calling
    <3>2. i \in 1..Len(nest[t])
      BY <2>1, <3>1
    <3> QED BY <2>1, <3>1, <3>2 DEF Channels, InCallback
  <2> QED BY <2>1 DEF CallsBackUndisturbed
<1> QED BY <1>1, Inductive, PTL

\* However large the page and however long the copy, what arrives is what was
\* sent, and nothing else is written.
THEOREM CopiesAreExact == Spec => []CopyExact
<1>1. Ind => CopyExact
  BY DEF Ind, Progress, CopyExact
<1> QED BY <1>1, Inductive, PTL
=============================================================================
