----------------------------- MODULE LfiProofs ------------------------------
(***************************************************************************)
(* For any threads, sandboxes and capacity of the engine, and wherever the *)
(* runtime puts its boxes: nobody uses the context of another thread, and  *)
(* one of another sandbox only if that sandbox is gone and its box was at  *)
(* the same address; whatever is open closes on the context it was opened  *)
(* on; the places of the engine are kept account of, and the stacks are    *)
(* used as LfiStack.tla describes.                                         *)
(*                                                                         *)
(* What a thread finds by the address of a box has to do with all the      *)
(* boxes there ever were, since entries are never taken out of the list:   *)
(* each is of a sandbox that was at this address (EntriesOwned), and of    *)
(* those that are not gone at most one is (BoxesApart).                    *)
(*                                                                         *)
(* The stack of a context comes first, on its own: the stack pointer is    *)
(* always given back as it was found, and no two users of a stack overlap. *)
(***************************************************************************)
EXTENDS Lfi, SequenceTheorems, FiniteSetTheorems, TLAPS

----------------------------------------------------------------------------
(********************************* LfiStack ********************************)

\* The stack of one context, with pointer at and frames f.  That the frames
\* lie one below the other is said of every two of them, and that each found
\* the pointer where the one before had it is what lets the last one go.
Placed(at, f, i) ==
  /\ at <= f[i].saved /\ f[i].saved <= StackTop
  /\ f[i].kind = "callback" =>
       \E p \in f[i].parts : f[i].parts = {p} /\ p.hi = f[i].saved
  /\ IF i = 1 THEN f[i].saved = StackTop ELSE Low(f[i - 1], f[i].saved)
  /\ \A p \in f[i].parts : at <= p.lo /\ p.lo < p.hi /\ p.hi <= f[i].saved
  /\ \A p, q \in f[i].parts : p = q \/ p.hi <= q.lo \/ q.hi <= p.lo
  /\ \A j \in 1..Len(f) : i < j => /\ f[j].saved <= f[i].saved
                                  /\ \A p \in f[i].parts : f[j].saved <= p.lo

Layout(at, f) == /\ at \in Int
                 /\ IF f = <<>> THEN at = StackTop ELSE Low(f[Len(f)], at)
                 /\ \A i \in 1..Len(f) : Placed(at, f, i)

Frames == [kind : {"context", "call", "callback"},
           saved : Int, parts : SUBSET Parts]

StackInv == /\ StackTypeOK
            /\ \A c \in Contexts : Layout(sp[c], frames[c])

\* Rounding down with x & ~(a - 1) leaves the pointer at most where it was.
LEMMA RoundDownBelow ==
  ASSUME NEW x \in Int, NEW a \in Nat \ {0}
  PROVE  RoundDown(x, a) \in Int /\ RoundDown(x, a) <= x
<1>1. x % a \in 0..(a - 1)
  BY Z3
<1> QED BY <1>1 DEF RoundDown

\* A scope that takes its part at or below the pointer keeps the layout.
LEMMA EnterKeepsLayout ==
  ASSUME NEW at \in Int, NEW f \in Seq(Frames), Layout(at, f),
         NEW g \in Frames, g.saved = at, NEW low \in Int, low <= at, Low(g, low),
         g.parts = {} \/ \E p \in Parts : /\ g.parts = {p} /\ p.lo = low
                                          /\ p.lo < p.hi /\ p.hi <= at
                                          /\ g.kind = "callback" => p.hi = at,
         g.parts = {} => g.kind # "callback"
  PROVE  Layout(low, Append(f, g))
<1> DEFINE h == Append(f, g)
<1>1. /\ Len(h) = Len(f) + 1 /\ h # <<>> /\ h[Len(h)] = g
      /\ \A i \in 1..Len(f) : h[i] = f[i]
  OBVIOUS
<1>2. Len(f) \in Nat /\ (f = <<>> <=> Len(f) = 0)
  OBVIOUS
<1>3. \A i \in 1..Len(f) : f[i] \in Frames
  OBVIOUS
<1> HIDE DEF h
<1>4. at <= StackTop
  BY <1>2, <1>3, StackAssumption DEF Layout, Placed, Frames
<1>5. ASSUME NEW i \in 1..Len(h) PROVE Placed(low, h, i)
  <2>1. CASE i = Len(h)
    <3>1. h[i] = g /\ ~\E j \in 1..Len(h) : i < j
      BY <1>1, <1>2, <2>1
    <3>2. IF i = 1 THEN h[i].saved = StackTop ELSE Low(h[i - 1], h[i].saved)
      BY <1>1, <1>2, <2>1, <3>1 DEF Layout, Placed
    <3> QED BY <1>4, <3>1, <3>2, StackAssumption DEF Placed, Frames, Parts
  <2>2. CASE i # Len(h)
    <3>1. i \in 1..Len(f) /\ h[i] = f[i] /\ (i # 1 => h[i - 1] = f[i - 1])
      BY <1>1, <1>2, <2>2
    <3>2. /\ f[i].saved \in Int /\ f[i].parts \subseteq Parts
          /\ \A p \in f[i].parts : p.lo \in Int /\ p.hi \in Int
      BY <1>3, <3>1 DEF Frames, Parts
    <3>5. /\ at <= f[i].saved /\ f[i].saved <= StackTop
          /\ \A p \in f[i].parts : at <= p.lo /\ p.lo < p.hi
                                   /\ p.hi <= f[i].saved
      BY <3>1 DEF Layout, Placed
    <3>3. /\ low <= h[i].saved /\ h[i].saved <= StackTop
          /\ \A p \in h[i].parts : low <= p.lo /\ p.lo < p.hi
                                   /\ p.hi <= h[i].saved
      BY <3>1, <3>2, <3>5, StackAssumption
    <3>4. \A j \in 1..Len(h) : i < j =>
             /\ h[j].saved <= h[i].saved
             /\ \A p \in h[i].parts : h[j].saved <= p.lo
      <4>1. ASSUME NEW j \in 1..Len(h), i < j, j # Len(h)
            PROVE  /\ h[j].saved <= h[i].saved
                   /\ \A p \in h[i].parts : h[j].saved <= p.lo
        <5>1. j \in 1..Len(f) /\ h[j] = f[j] /\ Placed(at, f, i)
          BY <1>1, <1>2, <3>1, <4>1 DEF Layout
        <5> QED BY <3>1, <4>1, <5>1 DEF Placed
      <4>2. /\ h[Len(h)].saved <= h[i].saved
            /\ \A p \in h[i].parts : h[Len(h)].saved <= p.lo
        BY <1>1, <3>1, <3>5
      <4> QED BY <4>1, <4>2
    <3> QED BY <3>1, <3>3, <3>4 DEF Layout, Placed
  <2> QED BY <2>1, <2>2
<1> QED BY <1>1, <1>5 DEF Layout, Placed, h

\* The innermost scope ends and the pointer is where it found it.
LEMMA LeaveKeepsLayout ==
  ASSUME NEW at \in Int, NEW f \in Seq(Frames), Layout(at, f), f # <<>>
  PROVE  /\ Layout(f[Len(f)].saved, Front(f))
         /\ Front(f) \in Seq(Frames)
<1> DEFINE n == Len(f)  h == Front(f)  low == f[n].saved
<1>1. n \in Nat \ {0} /\ \A i \in 1..n : f[i] \in Frames
  OBVIOUS
<1>2. /\ h \in Seq(Frames) /\ Len(h) = n - 1
      /\ \A i \in 1..(n - 1) : h[i] = f[i]
  <2>1. h = SubSeq(f, 1, n - 1)
    BY DEF Front
  <2>2. \A i \in 1..(n - 1) : f[i] \in Frames
    BY <1>1
  <2> HIDE DEF h, n
  <2>3. /\ SubSeq(f, 1, n - 1) \in Seq(Frames)
        /\ Len(SubSeq(f, 1, n - 1)) = IF 1 <= n - 1 THEN n - 1 - 1 + 1 ELSE 0
        /\ \A i \in 1..(n - 1 - 1 + 1) :
             SubSeq(f, 1, n - 1)[i] = f[1 + i - 1]
    BY <1>1, <2>2, SubSeqProperties
  <2> QED BY <1>1, <2>1, <2>3
<1>3. h = <<>> <=> n = 1
  <2> HIDE DEF h, n
  <2> QED BY <1>1, <1>2
<1>4. low \in Int
  BY <1>1 DEF Frames
<1> HIDE DEF h
<1>5. IF h = <<>> THEN low = StackTop ELSE Low(h[Len(h)], low)
  BY <1>1, <1>2, <1>3 DEF Layout, Placed
<1>6. ASSUME NEW i \in 1..(n - 1)
      PROVE  /\ low <= f[i].saved
             /\ \A p \in f[i].parts : low <= p.lo
  BY <1>1 DEF Layout, Placed
<1>7. \A i \in 1..(n - 1) : i \in 1..n /\ i - 1 \in 0..(n - 1)
  BY <1>1
<1>8. ASSUME NEW i \in 1..Len(h) PROVE Placed(low, h, i)
  <2>1. /\ i \in 1..n /\ h[i] = f[i] /\ (i # 1 => h[i - 1] = f[i - 1])
        /\ \A j \in 1..Len(h) : j \in 1..n /\ h[j] = f[j]
    BY <1>1, <1>2
  <2>2. Placed(f[n].saved, f, i)
    BY <1>1, <1>2, <1>6, <2>1 DEF Layout, Placed
  <2> QED BY <1>1, <2>1, <2>2 DEF Placed
<1>9. Layout(low, h)
  BY <1>4, <1>5, <1>8 DEF Layout
<1> QED BY <1>2, <1>9 DEF h

\* One more part of the innermost scope, below the others.
LEMMA PushKeepsLayout ==
  ASSUME NEW at \in Int, NEW f \in Seq(Frames), Layout(at, f), f # <<>>,
         f[Len(f)].kind # "callback",
         NEW p \in Parts, p.lo < p.hi, p.hi <= at
  PROVE  /\ Layout(p.lo, [f EXCEPT ![Len(f)].parts = @ \cup {p}])
         /\ [f EXCEPT ![Len(f)].parts = @ \cup {p}] \in Seq(Frames)
<1> DEFINE n == Len(f)  h == [f EXCEPT ![n].parts = @ \cup {p}]
<1>1. /\ n \in Nat \ {0} /\ \A i \in 1..n : f[i] \in Frames
      /\ h \in Seq(Frames) /\ Len(h) = n
  <2> DEFINE g == [f[n] EXCEPT !.parts = @ \cup {p}]
  <2>1. n \in Nat \ {0} /\ n \in 1..Len(f) /\ \A i \in 1..n : f[i] \in Frames
    OBVIOUS
  <2>2. g \in Frames
    BY <2>1 DEF Frames
  <2>3. h = [f EXCEPT ![n] = g]
    OBVIOUS
  <2> HIDE DEF g, h
  <2>4. h \in Seq(Frames) /\ Len(h) = n
    BY <2>1, <2>2, <2>3, ExceptSeq
  <2> QED BY <2>1, <2>4
<1>2. /\ h[n].kind = f[n].kind /\ h[n].saved = f[n].saved
      /\ h[n].parts = f[n].parts \cup {p}
      /\ \A i \in 1..(n - 1) : h[i] = f[i]
  BY <1>1 DEF Frames
<1>3. p.lo \in Int /\ p.hi \in Int /\ p.lo < at
  BY DEF Parts
<1> HIDE DEF h, n
<1>4. Low(h[n], p.lo)
  <2>1. \A q \in f[n].parts : q.lo \in Int /\ at <= q.lo
    BY <1>1 DEF Layout, Placed, n, Frames, Parts
  <2> QED BY <1>2, <1>3, <2>1 DEF Low
<1>5. ASSUME NEW i \in 1..n PROVE Placed(p.lo, h, i)
  <2>1. /\ h[i].saved = f[i].saved /\ h[i].kind = f[i].kind
        /\ f[i].saved \in Int /\ at <= f[i].saved /\ f[i].saved <= StackTop
        /\ \A q \in f[i].parts : /\ q.lo \in Int /\ q.hi \in Int
                                 /\ at <= q.lo /\ q.lo < q.hi
                                 /\ q.hi <= f[i].saved
    <3>1. h[i].saved = f[i].saved /\ h[i].kind = f[i].kind
      BY <1>1, <1>2
    <3>2. f[i].saved \in Int /\ at <= f[i].saved /\ f[i].saved <= StackTop
      BY <1>1 DEF Layout, Placed, n, Frames
    <3>3. \A q \in f[i].parts : q.lo \in Int /\ q.hi \in Int
      BY <1>1 DEF Frames, Parts
    <3>4. \A q \in f[i].parts : /\ at <= q.lo /\ q.lo < q.hi
                                 /\ q.hi <= f[i].saved
      BY DEF Layout, Placed, n
    <3> QED BY <3>1, <3>2, <3>3, <3>4
  <2>2. IF i = 1 THEN h[i].saved = StackTop ELSE Low(h[i - 1], h[i].saved)
    BY <1>1, <1>2, <2>1 DEF Layout, Placed, n
  <2>3. \A j \in 1..n : i < j => h[i] = f[i] /\ h[j].saved = f[j].saved
    BY <1>1, <1>2
  <2>4. CASE i = n
    <3>1. \A q \in f[n].parts : p.hi <= q.lo
      BY <1>3, <2>1, <2>4
    <3>2. \A q, r \in f[n].parts : q = r \/ q.hi <= r.lo \/ r.hi <= q.lo
      BY <1>1 DEF Layout, Placed, n
    <3>3. \A q \in h[n].parts : p.lo <= q.lo /\ q.lo < q.hi
                                  /\ q.hi <= h[n].saved
      BY <1>2, <1>3, <2>1, <2>4
    <3>4. \A q, r \in h[n].parts : q = r \/ q.hi <= r.lo \/ r.hi <= q.lo
      BY <1>2, <3>1, <3>2
    <3> QED BY <1>1, <1>2, <1>3, <2>1, <2>2, <2>4, <3>3, <3>4
            DEF n, Placed
  <2>5. CASE i # n
    <3>1. h[i] = f[i]
      BY <1>1, <1>2, <2>5
    <3> QED BY <1>1, <1>3, <2>1, <2>2, <2>3, <3>1, StackAssumption
            DEF Layout, Placed, n
  <2> QED BY <2>4, <2>5
<1> QED BY <1>1, <1>3, <1>4, <1>5 DEF Layout, Placed, h, n

----------------------------------------------------------------------------
(*************** What each operation does to the stacks ********************)

\* Another frame on a context, which has taken its part at or below the pointer.
LEMMA EnterKeepsInv ==
  ASSUME StackInv, NEW c \in Contexts, NEW g \in Frames, NEW low,
         Layout(low, Append(frames[c], g)), Enter(c, g, low)
  PROVE  StackInv'
<1> USE DEF StackInv, StackTypeOK, Frames
<1>1. low \in Int
  BY DEF Layout
<1> DEFINE h == Append(frames[c], g)
<1>2. h \in Seq(Frames)
  BY AppendProperties
<1>3. sp' = [sp EXCEPT ![c] = low] /\ frames' = [frames EXCEPT ![c] = h]
  BY DEF Enter
<1> HIDE DEF h
<1>4. /\ sp' \in [Contexts -> Int] /\ frames' \in [Contexts -> Seq(Frames)]
      /\ sp'[c] = low /\ frames'[c] = h
      /\ \A d \in Contexts \ {c} : sp'[d] = sp[d] /\ frames'[d] = frames[d]
  BY <1>1, <1>2, <1>3
<1> QED BY <1>2, <1>4 DEF h

\* The innermost frame of a context goes, with the pointer it found.
LEMMA LeaveKeepsInv ==
  ASSUME StackInv, NEW c \in Contexts, frames[c] # <<>>,
         Leave(c, Last(frames[c]).saved)
  PROVE  StackInv'
<1> USE DEF StackInv, StackTypeOK, Frames
<1> DEFINE low == frames[c][Len(frames[c])].saved
<1>1. Layout(low, Front(frames[c])) /\ Front(frames[c]) \in Seq(Frames)
  BY LeaveKeepsLayout
<1>2. low \in Int
  BY <1>1 DEF Layout
<1>3. /\ sp' = [sp EXCEPT ![c] = low]
      /\ frames' = [frames EXCEPT ![c] = Front(frames[c])]
  BY DEF Leave, Last
<1> HIDE DEF low
<1>4. /\ sp' \in [Contexts -> Int] /\ frames' \in [Contexts -> Seq(Frames)]
      /\ sp'[c] = low /\ frames'[c] = Front(frames[c])
      /\ \A d \in Contexts \ {c} : sp'[d] = sp[d] /\ frames'[d] = frames[d]
  BY <1>1, <1>2, <1>3
<1> QED BY <1>1, <1>4

\* A context on the host's side.
LEMMA OpenContextKeeps ==
  ASSUME StackInv, NEW c \in Contexts, OpenContext(c)
  PROVE  StackInv'
<1> DEFINE g == Frame("context", sp[c], {})
<1>1. sp[c] \in Int /\ frames[c] \in Seq(Frames) /\ Layout(sp[c], frames[c])
  BY DEF StackInv, StackTypeOK, Frames
<1>2. g \in Frames /\ g.saved = sp[c] /\ g.parts = {} /\ g.kind = "context"
  BY <1>1 DEF Frame, Frames
<1> HIDE DEF g
<1>3. Low(g, sp[c])
  BY <1>2 DEF Low
<1>4. Layout(sp[c], Append(frames[c], g))
  BY <1>1, <1>2, <1>3, EnterKeepsLayout
<1> QED BY <1>2, <1>4, EnterKeepsInv DEF OpenContext, g

\* A frame with one part, as calls with spilled arguments and callbacks make it.
LEMMA PartKeepsInv ==
  ASSUME StackInv, NEW c \in Contexts, NEW kind \in {"call", "callback"},
         NEW low \in Int, NEW n \in Nat \ {0}, low + n <= sp[c],
         kind = "callback" => low + n = sp[c],
         Enter(c, Frame(kind, sp[c], {Part(low, n)}), low)
  PROVE  StackInv'
<1> DEFINE g == Frame(kind, sp[c], {Part(low, n)})
           p == Part(low, n)
<1>1. sp[c] \in Int /\ frames[c] \in Seq(Frames) /\ Layout(sp[c], frames[c])
  BY DEF StackInv, StackTypeOK, Frames
<1>2. p \in Parts /\ p.lo = low /\ p.hi = low + n /\ p.lo < p.hi
  BY DEF Part, Parts
<1>3. g \in Frames /\ g.saved = sp[c] /\ g.parts = {p} /\ g.kind = kind
  BY <1>1, <1>2 DEF Frame, Frames
<1> HIDE DEF g, p
<1>4. Low(g, low) /\ low <= sp[c]
  BY <1>1, <1>2, <1>3 DEF Low
<1>5. Layout(low, Append(frames[c], g))
  BY <1>1, <1>2, <1>3, <1>4, EnterKeepsLayout
<1> QED BY <1>3, <1>5, EnterKeepsInv DEF g, p

\* call_ptr stages the words left over, if there are any.
LEMMA CallKeeps ==
  ASSUME StackInv, NEW c \in Contexts, NEW sig \in Signatures, Call(c, sig)
  PROVE  StackInv'
<1> DEFINE n == Spilled(sig)  low == Staged(sp[c], n)
<1>1. sp[c] \in Int /\ frames[c] \in Seq(Frames) /\ Layout(sp[c], frames[c])
  BY DEF StackInv, StackTypeOK, Frames
<1>2. n \in Nat
  BY StackAssumption DEF Spilled
<1> HIDE DEF n
<1>3. CASE n = 0
  <2> DEFINE g == Frame("call", sp[c], {})
  <2>1. low = sp[c] /\ Enter(c, g, sp[c])
    BY <1>3 DEF Call, Staged, n
  <2>2. g \in Frames /\ g.saved = sp[c] /\ g.parts = {} /\ g.kind = "call"
    BY <1>1 DEF Frame, Frames
  <2> HIDE DEF g
  <2>3. Low(g, sp[c])
    BY <2>2 DEF Low
  <2>4. Layout(sp[c], Append(frames[c], g))
    BY <1>1, <2>2, <2>3, EnterKeepsLayout
  <2> QED BY <2>1, <2>2, <2>4, EnterKeepsInv
<1>4. CASE n # 0
  <2>1. low = RoundDown(sp[c] - 8 * n, 16)
    BY <1>4 DEF Staged
  <2>2. sp[c] - 8 * n \in Int /\ 8 * n \in Nat \ {0}
    BY <1>1, <1>2, <1>4
  <2>3. low \in Int /\ low <= sp[c] - 8 * n
    BY <2>1, <2>2, RoundDownBelow
  <2>4. Enter(c, Frame("call", sp[c], {Part(low, 8 * n)}), low)
    BY <1>4 DEF Call, n
  <2> HIDE DEF low
  <2>5. low + 8 * n <= sp[c]
    BY <1>1, <1>2, <2>3
  <2> QED BY <2>2, <2>3, <2>4, <2>5, PartKeepsInv
<1> QED BY <1>3, <1>4

\* The frame of a function that calls back reaches up to where it began.
LEMMA CallBackKeeps ==
  ASSUME StackInv, NEW c \in Contexts, NEW bytes \in CalleeSizes,
         CallBack(c, bytes)
  PROVE  StackInv'
<1> DEFINE low == RoundDown(sp[c] - bytes, 16)
<1>1. sp[c] \in Int /\ bytes \in Nat \ {0}
  BY StackAssumption DEF StackInv, StackTypeOK
<1>2. low \in Int /\ low <= sp[c] - bytes
  BY <1>1, RoundDownBelow
<1>3. Enter(c, Frame("callback", sp[c], {Part(low, sp[c] - low)}), low)
  BY DEF CallBack
<1> HIDE DEF low
<1> DEFINE n == sp[c] - low
<1>4. n \in Nat \ {0} /\ low + n = sp[c] /\ low + n <= sp[c]
  BY <1>1, <1>2
<1>5. Enter(c, Frame("callback", sp[c], {Part(low, n)}), low)
  BY <1>3
<1> HIDE DEF n
<1> QED BY <1>2, <1>4, <1>5, PartKeepsInv

\* in, out and inout.
LEMMA PushKeeps ==
  ASSUME StackInv, NEW c \in Contexts, NEW p \in ParamTypes, Push(c, p)
  PROVE  StackInv'
<1> DEFINE low == Pushed(sp[c], p)
           q == Part(low, p.size)
           f == frames[c]
           h == [f EXCEPT ![Len(f)].parts = @ \cup {q}]
<1>1. sp[c] \in Int /\ f \in Seq(Frames) /\ Layout(sp[c], f)
  BY DEF StackInv, StackTypeOK, Frames
<1>2. p.size \in Nat \ {0} /\ p.align \in Nat \ {0}
  BY StackAssumption
<1>3. low \in Int /\ low <= sp[c] - p.size
  <2>1. sp[c] - p.size \in Int
    BY <1>1, <1>2
  <2> QED BY <1>2, <2>1, RoundDownBelow DEF Pushed
<1>4. f # <<>> /\ f[Len(f)].kind = "context"
  BY DEF Push, Top, Last
<1>5. /\ sp' = [sp EXCEPT ![c] = low]
      /\ frames' = [frames EXCEPT ![c] = h]
  BY DEF Push
<1> HIDE DEF low
<1>6. /\ q \in Parts /\ q.lo = low /\ q.lo < q.hi /\ q.hi <= sp[c]
  BY <1>1, <1>2, <1>3 DEF Part, Parts
<1> HIDE DEF q, f
<1>7. Layout(low, h) /\ h \in Seq(Frames)
  BY <1>1, <1>4, <1>6, PushKeepsLayout
<1> HIDE DEF h
<1>8. /\ sp' \in [Contexts -> Int] /\ frames' \in [Contexts -> Seq(Frames)]
      /\ sp'[c] = low /\ frames'[c] = h
      /\ \A d \in Contexts \ {c} : sp'[d] = sp[d] /\ frames'[d] = frames[d]
  BY <1>3, <1>5, <1>7 DEF StackInv, StackTypeOK, Frames
<1> QED BY <1>7, <1>8 DEF StackInv, StackTypeOK, Frames

\* Contexts and calls store the pointer they found.
LEMMA CloseAndReturnKeep ==
  ASSUME StackInv, NEW c \in Contexts, CloseContext(c) \/ Return(c)
  PROVE  StackInv'
<1>1. frames[c] # <<>> /\ Leave(c, Last(frames[c]).saved)
  BY DEF CloseContext, Return, Top
<1> QED BY <1>1, LeaveKeepsInv

\* A function pops its frame, and that is where it began.
LEMMA EndCallBackKeeps ==
  ASSUME StackInv, NEW c \in Contexts, EndCallBack(c)
  PROVE  StackInv'
<1> DEFINE f == frames[c]  n == Len(f)
<1>1. /\ sp[c] \in Int /\ f \in Seq(Frames) /\ Layout(sp[c], f)
      /\ f # <<>> /\ f[n].kind = "callback"
  BY DEF StackInv, StackTypeOK, Frames, EndCallBack, Top, Last
<1>2. n \in 1..n /\ f[n] \in Frames
  BY <1>1
<1> HIDE DEF f, n
<1>3. PICK p \in f[n].parts : f[n].parts = {p} /\ p.hi = f[n].saved
  BY <1>1, <1>2 DEF Layout, Placed, n
<1>4. p.lo = sp[c] /\ p \in Parts
  BY <1>1, <1>2, <1>3 DEF Layout, Low, n, Frames
<1>5. (CHOOSE q \in f[n].parts : TRUE) = p
  BY <1>3
<1>6. sp[c] + (p.hi - p.lo) = f[n].saved
  BY <1>1, <1>3, <1>4 DEF Parts
<1>7. Leave(c, Last(frames[c]).saved)
  BY <1>5, <1>6 DEF EndCallBack, Last, f, n
<1> QED BY <1>1, <1>7, LeaveKeepsInv DEF f

----------------------------------------------------------------------------
LEMMA StackInvInit == StackInit => StackInv
<1> SUFFICES ASSUME StackInit PROVE StackInv
  OBVIOUS
<1>1. StackTypeOK
  BY StackAssumption DEF StackInit, StackTypeOK
<1>2. ASSUME NEW c \in Contexts PROVE Layout(sp[c], frames[c])
  <2>1. sp[c] = StackTop /\ frames[c] = <<>>
    BY DEF StackInit
  <2> QED BY <2>1, StackAssumption DEF Layout
<1> QED BY <1>1, <1>2 DEF StackInv

\* StackInv says more than what is checked.
LEMMA StackInvImplies ==
  ASSUME StackInv
  PROVE  StackTypeOK /\ StackBalanced /\ PartsApart
<1>1. StackTypeOK
  BY DEF StackInv
<1>2. StackBalanced
  BY DEF StackBalanced, StackInv, Layout, Last
<1>3. ASSUME NEW c \in Contexts, NEW i \in DOMAIN frames[c],
             NEW j \in DOMAIN frames[c],
             NEW p \in frames[c][i].parts, NEW q \in frames[c][j].parts
      PROVE  /\ sp[c] <= p.lo /\ p.lo < p.hi /\ p.hi <= StackTop
             /\ (i = j /\ p = q) \/ p.hi <= q.lo \/ q.hi <= p.lo
  <2> DEFINE f == frames[c]
  <2>0. f \in Seq(Frames) /\ sp[c] \in Int
    BY DEF StackInv, StackTypeOK, Frames
  <2>1. i \in 1..Len(f) /\ j \in 1..Len(f)
    BY <2>0
  <2>2. Placed(sp[c], f, i) /\ Placed(sp[c], f, j)
    BY <2>1 DEF StackInv, Layout
  <2>3. f[i] \in Frames /\ f[j] \in Frames
    BY <2>0, <2>1
  <2>4. /\ p \in Parts /\ q \in Parts
        /\ f[i].saved \in Int /\ f[j].saved \in Int
    BY <2>3 DEF Frames
  <2> HIDE DEF f
  <2>5. /\ sp[c] <= p.lo /\ p.lo < p.hi /\ p.hi <= f[i].saved
        /\ f[i].saved <= StackTop /\ q.hi <= f[j].saved
    BY <2>2 DEF Placed, f
  <2>6. p.hi <= StackTop
    BY <2>0, <2>1, <2>4, <2>5, StackAssumption DEF Parts
  <2>7. CASE i = j
    BY <2>2, <2>5, <2>6, <2>7 DEF Placed, f
  <2>8. CASE i < j
    <3>1. f[j].saved <= p.lo
      BY <2>0, <2>1, <2>2, <2>8 DEF Placed, f
    <3> QED BY <2>4, <2>5, <2>6, <3>1 DEF Parts
  <2>9. CASE j < i
    <3>1. f[i].saved <= q.lo
      BY <2>0, <2>1, <2>2, <2>9 DEF Placed, f
    <3> QED BY <2>4, <2>5, <2>6, <3>1 DEF Parts
  <2> QED BY <2>1, <2>7, <2>8, <2>9
<1>4. PartsApart
  BY <1>3 DEF PartsApart
<1> QED BY <1>1, <1>2, <1>4

LEMMA StackInvNext ==
  ASSUME StackInv, [StackNext]_stackVars
  PROVE  StackInv'
<1>1. CASE UNCHANGED stackVars
  BY <1>1 DEF stackVars, StackInv, StackTypeOK
<1>2. CASE StackNext
  <2> PICK c \in Contexts : StackStep(c)
    BY <1>2 DEF StackNext
  <2> QED BY OpenContextKeeps, CallKeeps, PushKeeps, CloseAndReturnKeep,
             EndCallBackKeeps, CallBackKeeps DEF StackStep
<1> QED BY <1>1, <1>2

\* Whoever uses a stack, for whatever types and functions, leaves it as it was
\* found: stack_save and stack_restore, the staging of call_ptr and the
\* frames of functions that call back.
THEOREM StackStaysBalanced == StackSpec => []StackBalanced
<1>1. StackSpec => []StackInv
  BY StackInvInit, StackInvNext, PTL DEF StackSpec
<1> QED BY <1>1, StackInvImplies, PTL

\* Parameters, spilled arguments and frames never overlap, with stack_push and
\* stage_stack_args rounding down as they do.
THEOREM StackPartsApart == StackSpec => []PartsApart
<1>1. StackSpec => []StackInv
  BY StackInvInit, StackInvNext, PTL DEF StackSpec
<1> QED BY <1>1, StackInvImplies, PTL

----------------------------------------------------------------------------
(*********************************** Lfi ***********************************)

Maps == UNION {[B -> Contexts \cup {Null}] : B \in SUBSET Boxes}

Types ==
  /\ engine \in BOOLEAN /\ room \in Nat /\ size \in Nat
  /\ stage \in [Sandboxes -> {"none", "proc", "load", "run", "ready", "gone"}]
  /\ creator \in [Sandboxes -> Threads \cup {Null}]
  /\ boxAt \in [Sandboxes -> Boxes \cup {Null}]
  /\ live \subseteq Contexts
  /\ entries \in [Threads -> Maps]
  /\ nest \in [Threads -> Seq([sandbox : Sandboxes, ctx : Contexts])]

\* A box is where no other is.
BoxesApart ==
  /\ \A s \in Sandboxes :
       stage[s] \in {"load", "run", "ready", "gone"} => boxAt[s] # Null
  /\ \A s, z \in Sandboxes :
       boxAt[s] = boxAt[z] /\ boxAt[s] # Null =>
         s = z \/ stage[s] = "gone" \/ stage[z] = "gone"

\* The first thread of a sandbox has the first context.
CreatorsLive == \A s \in Sandboxes :
                  /\ stage[s] # "none" => creator[s] \in Threads
                  /\ stage[s] \in {"run", "ready"} => <<creator[s], s>> \in live

\* The list of thread t belongs to t and has no context of a sandbox that the
\* runtime has given up, unless the sandbox is gone.
Owned(t, s) == entries[t][boxAt[s]] \in {Null} \cup
                 (IF stage[s] = "gone" THEN {<<t, s>>} ELSE {<<t, s>>} \cap live)

EntriesOwned ==
  \A t \in Threads : \A b \in DOMAIN entries[t] : \E s \in Sandboxes :
    stage[s] \in {"ready", "gone"} /\ boxAt[s] = b /\ Owned(t, s)

\* What is open in a thread is open on the context its list has.
InUse(t, e) == /\ stage[e.sandbox] = "ready"
               /\ boxAt[e.sandbox] \in DOMAIN entries[t]
               /\ entries[t][boxAt[e.sandbox]] = e.ctx

NestInUse == \A t \in Threads : \A i \in DOMAIN nest[t] : InUse(t, nest[t][i])

Ind == Types /\ BoxesApart /\ CreatorsLive /\ EntriesOwned /\ NestInUse

----------------------------------------------------------------------------
\* What a thread finds is what its list has or, the first time, its own
\* context or none.
LEMMA FindsContext ==
  ASSUME Ind, NEW t \in Threads, NEW s \in Sandboxes, stage[s] = "ready"
  PROVE  /\ ThreadCtx(t, s) \in {Null} \cup Contexts
         /\ \/ /\ boxAt[s] \in DOMAIN entries[t]
               /\ ThreadCtx(t, s) = entries[t][boxAt[s]]
            \/ ThreadCtx(t, s) \in {Null} \cup ({<<t, s>>} \cap live)
<1>1. CASE boxAt[s] \in DOMAIN entries[t]
  <2>1. PICK D \in SUBSET Boxes : entries[t] \in [D -> Contexts \cup {Null}]
    BY DEF Ind, Types, Maps
  <2> QED BY <1>1, <2>1 DEF ThreadCtx
<1>2. CASE boxAt[s] \notin DOMAIN entries[t]
  BY <1>2 DEF ThreadCtx, Ind, Types, CreatorsLive
<1> QED BY <1>1, <1>2

\* An entry for a sandbox that is ready, whatever happens to live.
LEMMA RememberKeeps ==
  ASSUME Ind, NEW t \in Threads, NEW s \in Sandboxes, stage[s] = "ready",
         NEW c \in {Null} \cup Contexts, Remember(t, s, c),
         live \subseteq live', live' \subseteq Contexts,
         UNCHANGED <<stage, boxAt>>,
         \/ c \in {Null} \cup ({<<t, s>>} \cap live')
         \/ boxAt[s] \in DOMAIN entries[t] /\ c = entries[t][boxAt[s]],
         boxAt[s] \in DOMAIN entries[t] =>
           entries[t][boxAt[s]] = Null \/ entries[t][boxAt[s]] = c
  PROVE  /\ entries' \in [Threads -> Maps] /\ EntriesOwned'
         /\ boxAt[s] \in DOMAIN entries'[t] /\ entries'[t][boxAt[s]] = c
         /\ \A u \in Threads, b \in Boxes :
              b \in DOMAIN entries[u] /\ entries[u][b] # Null =>
                b \in DOMAIN entries'[u] /\ entries'[u][b] = entries[u][b]
<1> DEFINE B == DOMAIN entries[t] \cup {boxAt[s]}
           m == [b \in B |-> IF b = boxAt[s] THEN c ELSE entries[t][b]]
<1>1. entries' = [entries EXCEPT ![t] = m]
  BY DEF Remember
<1>2. entries \in [Threads -> Maps] /\ boxAt[s] \in Boxes
  BY DEF Ind, Types, BoxesApart
<1>3. PICK D \in SUBSET Boxes : entries[t] \in [D -> Contexts \cup {Null}]
  BY <1>2 DEF Maps
<1>4. c \in Contexts \cup {Null}
  OBVIOUS
<1>5. B \in SUBSET Boxes /\ m \in [B -> Contexts \cup {Null}]
  BY <1>2, <1>3, <1>4
<1>6. m \in Maps /\ DOMAIN m = B /\ m[boxAt[s]] = c
      /\ \A b \in DOMAIN entries[t] : b # boxAt[s] => m[b] = entries[t][b]
  BY <1>5 DEF Maps
<1> HIDE DEF m
<1>7. /\ entries' \in [Threads -> Maps] /\ entries'[t] = m
      /\ \A u \in Threads \ {t} : entries'[u] = entries[u]
  BY <1>1, <1>2, <1>6
<1>8. ASSUME NEW u \in Threads, NEW b \in DOMAIN entries'[u]
      PROVE  \E z \in Sandboxes : /\ stage[z] \in {"ready", "gone"}
                                  /\ boxAt[z] = b /\ Owned(u, z)'
  <2>1. CASE u = t /\ b = boxAt[s] /\ c \in {Null} \cup ({<<t, s>>} \cap live')
    BY <1>6, <1>7, <2>1 DEF Owned
  <2>2. CASE \/ ~(u = t /\ b = boxAt[s])
             \/ boxAt[s] \in DOMAIN entries[t] /\ c = entries[t][boxAt[s]]
    <3>1. b \in DOMAIN entries[u] /\ entries'[u][b] = entries[u][b]
      BY <1>6, <1>7, <2>2
    <3>2. PICK z \in Sandboxes : /\ stage[z] \in {"ready", "gone"}
                                 /\ boxAt[z] = b /\ Owned(u, z)
      BY <3>1 DEF Ind, EntriesOwned
    <3> QED BY <3>1, <3>2 DEF Owned
  <2> QED BY <2>1, <2>2
<1>9. EntriesOwned'
  BY <1>8 DEF EntriesOwned
<1> QED BY <1>6, <1>7, <1>9

\* Where a thread is, nothing is being created or gone.
LEMMA NestReady ==
  ASSUME Ind, NEW u \in Threads, NEW i \in DOMAIN nest[u]
  PROVE  /\ nest[u][i] \in [sandbox : Sandboxes, ctx : Contexts]
         /\ stage[nest[u][i].sandbox] = "ready"
<1>1. nest[u] \in Seq([sandbox : Sandboxes, ctx : Contexts])
  BY DEF Ind, Types
<1>2. InUse(u, nest[u][i])
  BY DEF Ind, NestInUse
<1>3. nest[u][i] \in [sandbox : Sandboxes, ctx : Contexts]
  <2>1. i \in 1..Len(nest[u])
    BY <1>1
  <2> QED BY <1>1, <2>1, ElementOfSeq
<1> QED BY <1>2, <1>3 DEF InUse

\* The sandboxes that are ready before a step, and what it leaves of them.
ReadyKept == \A z \in Sandboxes : stage[z] \in {"ready", "gone"} =>
               /\ boxAt'[z] = boxAt[z] /\ stage'[z] \in {stage[z], "gone"}
               /\ stage'[z] = "ready" =>
                    \A u \in Threads : <<u, z>> \in live => <<u, z>> \in live'

\* A step that leaves the lists alone, and the sandboxes that are used.
LEMMA EntriesKept ==
  ASSUME Ind, UNCHANGED entries, ReadyKept
  PROVE  EntriesOwned'
<1>1. ASSUME NEW u \in Threads, NEW b \in DOMAIN entries[u]
      PROVE  \E z \in Sandboxes : /\ stage'[z] \in {"ready", "gone"}
                                  /\ boxAt'[z] = b /\ Owned(u, z)'
  <2>1. PICK z \in Sandboxes : /\ stage[z] \in {"ready", "gone"}
                               /\ boxAt[z] = b /\ Owned(u, z)
    BY DEF Ind, EntriesOwned
  <2> QED BY <2>1 DEF Owned, ReadyKept
<1> QED BY <1>1 DEF EntriesOwned

LEMMA ListsKept ==
  ASSUME Ind, UNCHANGED <<entries, nest>>, ReadyKept,
         \A u \in Threads : \A i \in DOMAIN nest[u] :
           stage'[nest[u][i].sandbox] = "ready"
  PROVE  EntriesOwned' /\ NestInUse'
<1>1. EntriesOwned'
  BY EntriesKept
<1>2. NestInUse'
  <2>1. ASSUME NEW u \in Threads, NEW i \in DOMAIN nest[u]
        PROVE  InUse(u, nest[u][i])'
    <3> DEFINE e == nest[u][i]
    <3>1. InUse(u, e)
      BY DEF Ind, NestInUse
    <3>2. e.sandbox \in Sandboxes
      BY NestReady
    <3> QED BY <3>1, <3>2 DEF InUse, ReadyKept
  <2> QED BY <2>1 DEF NestInUse
<1> QED BY <1>1, <1>2

\* The steps of a creation, its undoing, and the destructor.
LEMMA CreationKeeps ==
  ASSUME Ind, NEW s \in Sandboxes, NEW t \in Threads,
         \/ CreateBegins(t, s) \/ CreateProc(s) \/ CreateThread(s)
         \/ CreateRuns(s) \/ CreateFails(s) \/ Destroy(t, s)
  PROVE  Ind'
<1> USE LfiAssumption DEF Ind
<1>1. CASE CreateBegins(t, s)
  <2> USE <1>1 DEF CreateBegins
  <2>0. engine' \in BOOLEAN /\ room' \in Nat /\ size' \in Nat
    <3>1. CASE engine
      BY <3>1 DEF Types, managerVars
    <3>2. CASE ~engine
      BY <3>2 DEF MakeEngine
    <3> QED BY <3>1, <3>2
  <2>1. Types'
    BY <2>0 DEF Types
  <2>2. BoxesApart' /\ CreatorsLive'
    BY DEF Types, BoxesApart, CreatorsLive
  <2>3. EntriesOwned' /\ NestInUse'
    <3>1. ReadyKept
      BY DEF Types, ReadyKept
    <3>2. ASSUME NEW u \in Threads, NEW i \in DOMAIN nest[u]
          PROVE  stage'[nest[u][i].sandbox] = "ready"
      <4>1. /\ nest[u][i].sandbox \in Sandboxes
            /\ stage[nest[u][i].sandbox] = "ready"
        BY NestReady
      <4> QED BY <4>1 DEF Types
    <3> QED BY <3>1, <3>2, ListsKept
  <2> QED BY <2>1, <2>2, <2>3
<1>2. CASE CreateProc(s)
  <2> USE <1>2 DEF CreateProc
  <2>1. PICK b \in FreeBoxes : boxAt' = [boxAt EXCEPT ![s] = b]
    OBVIOUS
  <2>2. b \in Boxes /\ \A z \in Sandboxes : boxAt[z] = b => stage[z] = "gone"
    BY <2>1 DEF FreeBoxes
  <2>0. room' \in Nat
    BY DEF Types
  <2>3. Types'
    BY <2>0, <2>1, <2>2 DEF Types
  <2>4. BoxesApart' /\ CreatorsLive'
    BY <2>1, <2>2 DEF Types, BoxesApart, CreatorsLive
  <2>5. EntriesOwned' /\ NestInUse'
    <3>1. ReadyKept
      BY <2>1 DEF Types, ReadyKept
    <3>2. ASSUME NEW u \in Threads, NEW i \in DOMAIN nest[u]
          PROVE  stage'[nest[u][i].sandbox] = "ready"
      <4>1. /\ nest[u][i].sandbox \in Sandboxes
            /\ stage[nest[u][i].sandbox] = "ready"
        BY NestReady
      <4> QED BY <4>1 DEF Types
    <3> QED BY <3>1, <3>2, ListsKept
  <2> QED BY <2>3, <2>4, <2>5
<1>3. CASE CreateThread(s)
  <2> USE <1>3 DEF CreateThread
  <2>0. <<creator[s], s>> \in Contexts
    BY DEF CreatorsLive
  <2>1. Types'
    BY <2>0 DEF Types
  <2>2. BoxesApart' /\ CreatorsLive'
    BY DEF Types, BoxesApart, CreatorsLive
  <2>3. EntriesOwned' /\ NestInUse'
    <3>1. ReadyKept
      BY DEF Types, ReadyKept
    <3>2. ASSUME NEW u \in Threads, NEW i \in DOMAIN nest[u]
          PROVE  stage'[nest[u][i].sandbox] = "ready"
      <4>1. /\ nest[u][i].sandbox \in Sandboxes
            /\ stage[nest[u][i].sandbox] = "ready"
        BY NestReady
      <4> QED BY <4>1 DEF Types
    <3> QED BY <3>1, <3>2, ListsKept
  <2> QED BY <2>1, <2>2, <2>3
<1>4. CASE CreateRuns(s)
  <2> USE <1>4 DEF CreateRuns
  <2>1. Types'
    BY DEF Types
  <2>2. BoxesApart' /\ CreatorsLive'
    BY DEF Types, BoxesApart, CreatorsLive
  <2>3. EntriesOwned' /\ NestInUse'
    <3>1. ReadyKept
      BY DEF Types, ReadyKept
    <3>2. ASSUME NEW u \in Threads, NEW i \in DOMAIN nest[u]
          PROVE  stage'[nest[u][i].sandbox] = "ready"
      <4>1. /\ nest[u][i].sandbox \in Sandboxes
            /\ stage[nest[u][i].sandbox] = "ready"
        BY NestReady
      <4> QED BY <4>1 DEF Types
    <3> QED BY <3>1, <3>2, ListsKept
  <2> QED BY <2>1, <2>2, <2>3
<1>5. CASE CreateFails(s)
  <2> USE <1>5 DEF CreateFails, Destructor
  <2>0. room' \in Nat /\ live' \subseteq live
    BY DEF Types
  <2>1. Types'
    BY <2>0 DEF Types
  <2>2. BoxesApart' /\ CreatorsLive'
    BY DEF Types, BoxesApart, CreatorsLive
  <2>3. EntriesOwned' /\ NestInUse'
    <3>1. ReadyKept
      BY DEF Types, ReadyKept
    <3>2. ASSUME NEW u \in Threads, NEW i \in DOMAIN nest[u]
          PROVE  stage'[nest[u][i].sandbox] = "ready"
      <4>1. /\ nest[u][i].sandbox \in Sandboxes
            /\ stage[nest[u][i].sandbox] = "ready"
        BY NestReady
      <4> QED BY <4>1 DEF Types
    <3> QED BY <3>1, <3>2, ListsKept
  <2> QED BY <2>1, <2>2, <2>3
<1>6. CASE Destroy(t, s)
  <2> USE <1>6 DEF Destroy, Destructor
  <2>0. room' \in Nat /\ live' \subseteq live
    BY DEF Types
  <2>1. Types'
    BY <2>0 DEF Types
  <2>2. BoxesApart' /\ CreatorsLive'
    BY DEF Types, BoxesApart, CreatorsLive
  <2>3. EntriesOwned' /\ NestInUse'
    <3>1. ReadyKept
      BY DEF Types, ReadyKept
    <3>2. ASSUME NEW u \in Threads, NEW i \in DOMAIN nest[u]
          PROVE  stage'[nest[u][i].sandbox] = "ready"
      <4>1. /\ nest[u][i].sandbox \in Sandboxes
            /\ stage[nest[u][i].sandbox] = "ready"
        BY NestReady
      <4> QED BY <4>1 DEF Types
    <3> QED BY <3>1, <3>2, ListsKept
  <2> QED BY <2>1, <2>2, <2>3
<1> QED BY <1>1, <1>2, <1>3, <1>4, <1>5, <1>6

----------------------------------------------------------------------------
Scopes == [sandbox : Sandboxes, ctx : Contexts]

\* A scope more in a thread.
LEMMA NestedKeeps ==
  ASSUME Ind, NEW t \in Threads, NEW s \in Sandboxes, NEW c \in Contexts,
         Nested(t, s, c), InUse(t, [sandbox |-> s, ctx |-> c])',
         \A u \in Threads : \A x \in Scopes : InUse(u, x) => InUse(u, x)'
  PROVE  nest' \in [Threads -> Seq(Scopes)] /\ NestInUse'
<1> DEFINE e == [sandbox |-> s, ctx |-> c]
           h == Append(nest[t], e)
<1>1. nest \in [Threads -> Seq(Scopes)] /\ e \in Scopes
  BY DEF Ind, Types, Scopes
<1>2. nest' = [nest EXCEPT ![t] = h]
  BY DEF Nested
<1> HIDE DEF e
<1>3. /\ h \in Seq(Scopes) /\ DOMAIN h = 1..(Len(nest[t]) + 1)
      /\ h[Len(nest[t]) + 1] = e
      /\ \A i \in DOMAIN nest[t] : h[i] = nest[t][i]
      /\ DOMAIN nest[t] = 1..Len(nest[t]) /\ Len(nest[t]) \in Nat
  BY <1>1
<1> HIDE DEF h
<1>4. /\ nest' \in [Threads -> Seq(Scopes)] /\ nest'[t] = h
      /\ \A u \in Threads \ {t} : nest'[u] = nest[u]
  BY <1>1, <1>2, <1>3
<1>5. ASSUME NEW u \in Threads, NEW i \in DOMAIN nest'[u]
      PROVE  InUse(u, nest[u][i])'
  <2>1. CASE u = t /\ i = Len(nest[t]) + 1
    BY <1>3, <1>4, <2>1 DEF e, InUse
  <2>2. CASE ~(u = t /\ i = Len(nest[t]) + 1)
    <3>1. i \in DOMAIN nest[u] /\ nest'[u][i] = nest[u][i]
      BY <1>3, <1>4, <2>2
    <3>2. InUse(u, nest[u][i]) /\ nest[u][i] \in Scopes
      BY <3>1, NestReady DEF Ind, NestInUse, Scopes
    <3> QED BY <3>1, <3>2 DEF InUse
  <2> QED BY <2>1, <2>2
<1> QED BY <1>4, <1>5 DEF NestInUse

\* UseHeap, BeginContext and BeginCall, which make an entry.
LEMMA FindingKeeps ==
  ASSUME Ind, NEW t \in Threads, NEW s \in Sandboxes,
         \/ UseHeap(t, s) \/ BeginContext(t, s)
         \/ \E sig \in Signatures : BeginCall(t, s, sig)
  PROVE  Ind'
<1> DEFINE own == <<t, s>>
           f == ThreadCtx(t, s)
<1>1. /\ stage[s] = "ready" /\ UNCHANGED <<engine, room, size, stage, creator, boxAt>>
  BY DEF UseHeap, BeginContext, BeginCall, CanEnter, managerVars
<1>2. own \in Contexts
  BY LfiAssumption
<1>3. PICK c \in {Null} \cup Contexts :
        /\ Remember(t, s, c) /\ (f # Null => c = f)
        /\ \/ live' = live /\ c = f
           \/ live' = live \cup {own} /\ c = own
        /\ nest' = nest \/ (c # Null /\ Nested(t, s, c))
  <2>1. f \in {Null} \cup Contexts
    BY <1>1, FindsContext
  <2>2. CASE UseHeap(t, s)
    BY <2>1, <2>2 DEF UseHeap
  <2>3. CASE BeginContext(t, s)
    BY <2>1, <2>3 DEF BeginContext
  <2>4. CASE \E sig \in Signatures : BeginCall(t, s, sig)
    BY <2>1, <2>4, <1>2, LfiAssumption DEF BeginCall
  <2> QED BY <2>2, <2>3, <2>4
<1>4. /\ live \subseteq live' /\ live' \subseteq Contexts
      /\ \/ c \in {Null} \cup ({own} \cap live')
         \/ boxAt[s] \in DOMAIN entries[t] /\ c = entries[t][boxAt[s]]
  BY <1>1, <1>2, <1>3, FindsContext DEF Ind, Types
<1>5. boxAt[s] \in DOMAIN entries[t] =>
        entries[t][boxAt[s]] = Null \/ entries[t][boxAt[s]] = c
  BY <1>3 DEF ThreadCtx
<1> HIDE DEF own, f
<1>6. /\ entries' \in [Threads -> Maps] /\ EntriesOwned'
      /\ boxAt[s] \in DOMAIN entries'[t] /\ entries'[t][boxAt[s]] = c
      /\ \A u \in Threads, b \in Boxes :
           b \in DOMAIN entries[u] /\ entries[u][b] # Null =>
             b \in DOMAIN entries'[u] /\ entries'[u][b] = entries[u][b]
  BY <1>1, <1>3, <1>4, <1>5, RememberKeeps DEF own
<1>7. ASSUME NEW u \in Threads, NEW x \in Scopes, InUse(u, x)
      PROVE  InUse(u, x)'
  <2>1. x.ctx # Null /\ boxAt[x.sandbox] \in Boxes
    BY <1>7, LfiAssumption DEF Scopes, InUse, Ind, Types, BoxesApart
  <2> QED BY <1>1, <1>4, <1>6, <1>7, <2>1 DEF InUse
<1>8. nest' \in [Threads -> Seq(Scopes)] /\ NestInUse'
  <2>1. CASE nest' = nest
    <3>1. ASSUME NEW u \in Threads, NEW i \in DOMAIN nest[u]
          PROVE  InUse(u, nest[u][i])'
      <4>1. InUse(u, nest[u][i]) /\ nest[u][i] \in Scopes
        BY NestReady DEF Ind, NestInUse, Scopes
      <4> QED BY <1>7, <2>1, <4>1 DEF InUse
    <3> QED BY <2>1, <3>1 DEF NestInUse, InUse, Ind, Types, Scopes
  <2>2. CASE c # Null /\ Nested(t, s, c)
    <3>1. InUse(t, [sandbox |-> s, ctx |-> c])'
      BY <1>1, <1>4, <1>6, <2>2 DEF InUse
    <3> QED BY <1>7, <2>2, <3>1, NestedKeeps
  <2> QED BY <1>3, <2>1, <2>2
<1>9. Types' /\ BoxesApart' /\ CreatorsLive'
  BY <1>1, <1>4, <1>6, <1>8 DEF Ind, Types, BoxesApart, CreatorsLive, Scopes
<1> QED BY <1>6, <1>8, <1>9 DEF Ind

\* Callbacks, and the end of whatever is open.
LEMMA NestingKeeps ==
  ASSUME Ind, NEW t \in Threads,
         EndScope(t) \/ \E bytes \in CalleeSizes : BeginCallBack(t, bytes)
  PROVE  Ind'
<1> DEFINE f == nest[t]  n == Len(f)
<1>1. /\ nest \in [Threads -> Seq(Scopes)] /\ f \in Seq(Scopes) /\ f # <<>>
      /\ UNCHANGED <<engine, room, size, stage, creator, boxAt, live, entries>>
  BY DEF Ind, Types, Scopes, EndScope, BeginCallBack, managerVars
<1>2. n \in Nat \ {0} /\ DOMAIN f = 1..n /\ \A i \in 1..n : f[i] \in Scopes
  BY <1>1
<1>3. \A i \in 1..n : InUse(t, f[i])
  BY <1>2 DEF Ind, NestInUse
<1>4. \A u \in Threads, x \in Scopes : InUse(u, x) => InUse(u, x)'
  BY <1>1 DEF InUse
<1>5. nest' \in [Threads -> Seq(Scopes)] /\ NestInUse'
  <2>1. CASE EndScope(t)
    <3> DEFINE h == Front(f)
    <3>1. nest' = [nest EXCEPT ![t] = h]
      BY <2>1 DEF EndScope
    <3>2. /\ h \in Seq(Scopes) /\ Len(h) = n - 1
          /\ \A i \in 1..(n - 1) : h[i] = f[i]
      <4>1. h = SubSeq(f, 1, n - 1)
        BY DEF Front
      <4>2. \A i \in 1..(n - 1) : f[i] \in Scopes
        BY <1>2
      <4> HIDE DEF f, n, h
      <4>3. /\ SubSeq(f, 1, n - 1) \in Seq(Scopes)
            /\ Len(SubSeq(f, 1, n - 1)) = IF 1 <= n - 1 THEN n - 1 - 1 + 1 ELSE 0
            /\ \A i \in 1..(n - 1 - 1 + 1) : SubSeq(f, 1, n - 1)[i] = f[1 + i - 1]
        BY <1>2, <4>2, SubSeqProperties
      <4> QED BY <1>2, <4>1, <4>3
    <3> HIDE DEF h
    <3>3. /\ nest' \in [Threads -> Seq(Scopes)] /\ nest'[t] = h
          /\ \A u \in Threads \ {t} : nest'[u] = nest[u]
      BY <1>1, <3>1, <3>2
    <3>4. DOMAIN h = 1..(n - 1)
      BY <3>2
    <3>5. ASSUME NEW u \in Threads, NEW i \in DOMAIN nest'[u]
          PROVE  i \in DOMAIN nest[u] /\ nest'[u][i] = nest[u][i]
      BY <1>2, <3>2, <3>3, <3>4
    <3>6. ASSUME NEW u \in Threads, NEW i \in DOMAIN nest'[u]
          PROVE  InUse(u, nest[u][i])'
      BY <1>1, <3>5 DEF Ind, NestInUse, InUse
    <3> QED BY <3>3, <3>6 DEF NestInUse
  <2>2. CASE \E bytes \in CalleeSizes : BeginCallBack(t, bytes)
    <3> DEFINE e == f[n]
    <3>1. Nested(t, e.sandbox, e.ctx)
      BY <2>2 DEF BeginCallBack, Last
    <3>2. e \in Scopes /\ InUse(t, e)
      BY <1>2, <1>3
    <3> HIDE DEF e
    <3>3. /\ e.sandbox \in Sandboxes /\ e.ctx \in Contexts
          /\ e = [sandbox |-> e.sandbox, ctx |-> e.ctx]
      BY <3>2 DEF Scopes
    <3>4. PICK s \in Sandboxes, c \in Contexts :
            Nested(t, s, c) /\ InUse(t, [sandbox |-> s, ctx |-> c])
      BY <3>1, <3>2, <3>3
    <3>5. InUse(t, [sandbox |-> s, ctx |-> c])'
      BY <1>1, <3>4 DEF InUse
    <3>6. \A u \in Threads : \A x \in Scopes : InUse(u, x) => InUse(u, x)'
      BY <1>4
    <3> QED BY <3>4, <3>5, <3>6, NestedKeeps
  <2> QED BY <2>1, <2>2
<1>6. Types'
  BY <1>1, <1>5 DEF Ind, Types, Scopes
<1>7. BoxesApart' /\ CreatorsLive'
  BY <1>1 DEF Ind, BoxesApart, CreatorsLive
<1>8. EntriesOwned'
  BY <1>1, EntriesKept DEF ReadyKept
<1> QED BY <1>5, <1>6, <1>7, <1>8 DEF Ind

\* The list goes with the thread, in which nothing is open.
LEMMA ThreadEndsKeeps ==
  ASSUME Ind, NEW t \in Threads, ThreadEnds(t)
  PROVE  Ind'
<1>1. /\ entries \in [Threads -> Maps] /\ entries' = [entries EXCEPT ![t] = <<>>]
      /\ nest[t] = <<>>
      /\ UNCHANGED <<engine, room, size, stage, creator, boxAt, live, nest>>
  BY DEF ThreadEnds, managerVars, Ind, Types
<1>2. <<>> \in Maps
  <2>1. <<>> \in [{} -> Contexts \cup {Null}]
    OBVIOUS
  <2> QED BY <2>1 DEF Maps
<1>3. /\ entries' \in [Threads -> Maps] /\ DOMAIN entries'[t] = {}
      /\ \A u \in Threads \ {t} : entries'[u] = entries[u]
  BY <1>1, <1>2
<1>4. EntriesOwned'
  <2>1. ASSUME NEW u \in Threads, NEW b \in DOMAIN entries'[u]
        PROVE  \E s \in Sandboxes : /\ stage'[s] \in {"ready", "gone"}
                                    /\ boxAt'[s] = b /\ Owned(u, s)'
    <3>1. b \in DOMAIN entries[u] /\ entries'[u] = entries[u]
      BY <1>3
    <3>2. PICK s \in Sandboxes : /\ stage[s] \in {"ready", "gone"}
                                 /\ boxAt[s] = b /\ Owned(u, s)
      BY <3>1 DEF Ind, EntriesOwned
    <3> QED BY <1>1, <3>1, <3>2 DEF Owned
  <2> QED BY <2>1 DEF EntriesOwned
<1>5. NestInUse'
  BY <1>1, <1>3 DEF Ind, NestInUse, InUse
<1>6. Types' /\ BoxesApart' /\ CreatorsLive'
  BY <1>1, <1>3 DEF Ind, Types, BoxesApart, CreatorsLive
<1> QED BY <1>4, <1>5, <1>6 DEF Ind

\* The engine comes and goes.
LEMMA ManagerKeeps ==
  ASSUME Ind,
         \/ ManagerInit \/ ManagerDestroy \/ UNCHANGED vars
         \/ \E t \in Threads, p \in ParamTypes : MakeParam(t, p)
  PROVE  Ind'
<1>1. UNCHANGED <<stage, creator, boxAt, live, entries, nest>>
  BY DEF ManagerInit, ManagerDestroy, vars, MakeParam
<1>2. engine' \in BOOLEAN /\ room' \in Nat /\ size' \in Nat
  <2>1. CASE ManagerInit
    BY <2>1, LfiAssumption DEF ManagerInit, MakeEngine
  <2>2. CASE ManagerDestroy
    BY <2>2 DEF ManagerDestroy
  <2>3. CASE UNCHANGED vars \/ \E t \in Threads, p \in ParamTypes : MakeParam(t, p)
    BY <2>3 DEF vars, MakeParam, managerVars, Ind, Types
  <2> QED BY <2>1, <2>2, <2>3
<1>3. Types'
  BY <1>1, <1>2 DEF Ind, Types
<1>4. BoxesApart' /\ CreatorsLive'
  BY <1>1 DEF Ind, BoxesApart, CreatorsLive
<1>5. EntriesOwned'
  BY <1>1, EntriesKept DEF ReadyKept
<1>6. NestInUse'
  BY <1>1 DEF Ind, NestInUse, InUse
<1> QED BY <1>3, <1>4, <1>5, <1>6 DEF Ind

LEMMA IndInit == Init => Ind
<1> SUFFICES ASSUME Init PROVE Ind
  OBVIOUS
<1>1. \A t \in Threads : entries[t] = <<>> /\ nest[t] = <<>>
  BY DEF Init
<1>2. Types
  <2>1. <<>> \in [{} -> Contexts \cup {Null}]
    OBVIOUS
  <2>2. <<>> \in Maps
    BY <2>1 DEF Maps
  <2>3. <<>> \in Seq([sandbox : Sandboxes, ctx : Contexts])
    OBVIOUS
  <2>4. entries \in [Threads -> Maps]
    BY <2>2 DEF Init
  <2>5. nest \in [Threads -> Seq([sandbox : Sandboxes, ctx : Contexts])]
    BY <2>3 DEF Init
  <2>6. engine \in BOOLEAN /\ room \in Nat /\ size \in Nat
    BY DEF Init
  <2> QED BY <2>4, <2>5, <2>6 DEF Init, Types
<1> QED BY <1>1, <1>2 DEF Init, Ind, BoxesApart, CreatorsLive, EntriesOwned,
           NestInUse

LEMMA IndNext ==
  ASSUME Ind, [Next]_vars
  PROVE  Ind'
<1>1. CASE \E s \in Sandboxes : \/ CreateProc(s) \/ CreateThread(s)
                                \/ CreateRuns(s) \/ CreateFails(s)
  <2>1. PICK s \in Sandboxes : \/ CreateProc(s) \/ CreateThread(s)
                               \/ CreateRuns(s) \/ CreateFails(s)
    BY <1>1
  <2>2. creator[s] \in Threads
    BY <2>1 DEF Ind, CreatorsLive, CreateProc, CreateThread, CreateRuns,
                CreateFails
  <2> QED BY <2>1, <2>2, CreationKeeps
<1>2. CASE \E t \in Threads, s \in Sandboxes : CreateBegins(t, s) \/ Destroy(t, s)
  BY <1>2, CreationKeeps
<1> QED BY <1>1, <1>2, FindingKeeps, NestingKeeps, ThreadEndsKeeps,
           ManagerKeeps DEF Next

LEMMA IndImplies ==
  ASSUME Ind
  PROVE  OwnContext
<1>1. ASSUME NEW t \in Threads, NEW i \in DOMAIN nest[t]
      PROVE  \E z \in Sandboxes :
               /\ nest[t][i].ctx = <<t, z>>
               /\ boxAt[z] = boxAt[nest[t][i].sandbox]
               /\ \/ stage[z] = "gone"
                  \/ z = nest[t][i].sandbox /\ <<t, z>> \in live
  <2> DEFINE c == nest[t][i].ctx
             s == nest[t][i].sandbox
  <2>1. /\ s \in Sandboxes /\ c \in Contexts /\ stage[s] = "ready"
        /\ boxAt[s] \in DOMAIN entries[t] /\ entries[t][boxAt[s]] = c
    BY NestReady DEF Ind, NestInUse, InUse
  <2>2. PICK z \in Sandboxes : /\ stage[z] \in {"ready", "gone"}
                               /\ boxAt[z] = boxAt[s] /\ Owned(t, z)
    BY <2>1 DEF Ind, EntriesOwned
  <2>3. c = <<t, z>> /\ (stage[z] = "ready" => c \in live)
    BY <2>1, <2>2, LfiAssumption DEF Owned
  <2>4. stage[z] = "ready" => z = s
    BY <2>1, <2>2 DEF Ind, BoxesApart
  <2> QED BY <2>2, <2>3, <2>4
<1> SUFFICES ASSUME NEW t \in Threads, NEW i \in DOMAIN nest[t]
             PROVE  LET c == nest[t][i].ctx  s == nest[t][i].sandbox
                    IN  /\ \A u \in Threads : \A j \in DOMAIN nest[u] :
                             nest[u][j].ctx = c => u = t
                        /\ \/ c \in live /\ c[2] = s
                           \/ \E z \in Sandboxes :
                                /\ stage[z] = "gone" /\ c = <<t, z>>
                                /\ boxAt[z] = boxAt[s]
  BY DEF OwnContext
<1>2. ASSUME NEW u \in Threads, NEW j \in DOMAIN nest[u],
             nest[u][j].ctx = nest[t][i].ctx
      PROVE  u = t
  <2>1. PICK y \in Sandboxes : nest[u][j].ctx = <<u, y>>
    BY <1>1
  <2>2. PICK z \in Sandboxes : nest[t][i].ctx = <<t, z>>
    BY <1>1
  <2>3. <<u, y>> = <<t, z>>
    BY <1>2, <2>1, <2>2
  <2> QED BY <2>3
<1>3. PICK z \in Sandboxes :
        /\ nest[t][i].ctx = <<t, z>> /\ boxAt[z] = boxAt[nest[t][i].sandbox]
        /\ \/ stage[z] = "gone"
           \/ z = nest[t][i].sandbox /\ <<t, z>> \in live
  BY <1>1
<1> QED BY <1>2, <1>3

\* Whatever sandboxes come and go, and wherever their boxes are, a thread
\* that calls, is called back or has parameters on a stack is on a context
\* that no other thread uses, and on one of the sandbox it means unless its
\* list has one of a sandbox that is gone for the box's address.
THEOREM ContextsAreOwn == Spec => []OwnContext
<1>1. Spec => []Ind
  BY IndInit, IndNext, PTL DEF Spec
<1> QED BY <1>1, IndImplies, PTL

----------------------------------------------------------------------------
(***************************** The stacks **********************************)

\* A context is found anew each time; it is the one that was used before.
LEMMA FoundAgain ==
  ASSUME Ind, NEW t \in Threads, nest[t] # <<>>
  PROVE  /\ Last(nest[t]).ctx \in Contexts
         /\ ThreadCtx(t, Last(nest[t]).sandbox) = Last(nest[t]).ctx
<1>1. nest[t] \in Seq(Scopes)
  BY DEF Ind, Types, Scopes
<1>2. Len(nest[t]) \in DOMAIN nest[t]
  BY <1>1
<1>3. /\ nest[t][Len(nest[t])] \in [sandbox : Sandboxes, ctx : Contexts]
      /\ InUse(t, nest[t][Len(nest[t])])
  BY <1>2, NestReady DEF Ind, NestInUse
<1> QED BY <1>3 DEF InUse, ThreadCtx, Last

\* Every step of a thread is one of LfiStack.tla, on one of the contexts.
LEMMA StacksKept ==
  ASSUME Ind, StackInv, [Next]_vars
  PROVE  StackInv'
<1>1. CASE UNCHANGED stackVars
  BY <1>1, StackInvNext
<1>2. CASE \E t \in Threads, s \in Sandboxes :
             BeginContext(t, s) \/ \E sig \in Signatures : BeginCall(t, s, sig)
  <2>1. PICK t \in Threads, s \in Sandboxes :
          BeginContext(t, s) \/ \E sig \in Signatures : BeginCall(t, s, sig)
    BY <1>2
  <2>2. stage[s] = "ready"
    BY <2>1 DEF BeginContext, BeginCall, CanEnter
  <2>3. ThreadCtx(t, s) \in {Null} \cup Contexts /\ <<t, s>> \in Contexts
    BY <2>2, FindsContext, LfiAssumption
  <2>4. CASE BeginContext(t, s)
    BY <2>3, <2>4, OpenContextKeeps DEF BeginContext
  <2>5. CASE \E sig \in Signatures : BeginCall(t, s, sig)
    BY <2>3, <2>5, CallKeeps DEF BeginCall
  <2> QED BY <2>1, <2>4, <2>5
<1>3. CASE \E t \in Threads, bytes \in CalleeSizes : BeginCallBack(t, bytes)
  BY <1>3, FoundAgain, CallBackKeeps DEF BeginCallBack
<1>4. CASE \E t \in Threads, p \in ParamTypes : MakeParam(t, p)
  BY <1>4, FoundAgain, PushKeeps DEF MakeParam
<1>5. CASE \E t \in Threads : EndScope(t)
  BY <1>5, FoundAgain, CloseAndReturnKeep, EndCallBackKeeps DEF EndScope
<1>6. CASE \/ ManagerInit \/ ManagerDestroy
           \/ \E s \in Sandboxes : \/ CreateProc(s) \/ CreateThread(s)
                                   \/ CreateRuns(s) \/ CreateFails(s)
           \/ \E t \in Threads : \/ ThreadEnds(t)
                                 \/ \E s \in Sandboxes :
                                      \/ CreateBegins(t, s) \/ Destroy(t, s)
                                      \/ UseHeap(t, s)
  BY <1>1, <1>6 DEF ManagerInit, ManagerDestroy, CreateProc, CreateThread,
     CreateRuns, CreateFails, ThreadEnds, CreateBegins, Destroy, UseHeap
<1>7. CASE UNCHANGED vars
  BY <1>1, <1>7 DEF vars, stackVars
<1> QED BY <1>2, <1>3, <1>4, <1>5, <1>6, <1>7 DEF Next

\* The contexts of the threads are used as LfiStack.tla describes, so the
\* pointer is where everybody left it, however many threads and sandboxes.
\* Each scope looks its context up anew, by the address of the box; it finds
\* the one it began with even where addresses are used again, as no box is
\* put where one is that a scope is open in.
THEOREM StacksBalanced == Spec => [](StackBalanced /\ PartsApart)
<1>1. Init => Ind /\ StackInv
  BY IndInit, StackInvInit DEF Init
<1>2. Ind /\ StackInv /\ [Next]_vars => (Ind /\ StackInv)'
  BY IndNext, StacksKept
<1>3. Spec => [](Ind /\ StackInv)
  BY <1>1, <1>2, PTL DEF Spec
<1> QED BY <1>3, StackInvImplies, PTL

\* The lists and maps of Lfi.tla, and the stacks, have their types.
THEOREM TypeCorrect == Spec => []TypeOK
<1>1. Init => Ind /\ StackInv
  BY IndInit, StackInvInit DEF Init
<1>2. Ind /\ StackInv /\ [Next]_vars => (Ind /\ StackInv)'
  BY IndNext, StacksKept
<1>3. ASSUME Ind, StackInv PROVE TypeOK
  <2>1. ASSUME NEW t \in Threads
        PROVE  /\ DOMAIN entries[t] \subseteq Boxes
               /\ \A b \in DOMAIN entries[t] :
                    entries[t][b] \in Contexts \cup {Null}
    <3>1. PICK D \in SUBSET Boxes : entries[t] \in [D -> Contexts \cup {Null}]
      BY <1>3 DEF Ind, Types, Maps
    <3> QED BY <3>1
  <2> QED BY <1>3, <2>1, StackInvImplies DEF TypeOK, Ind, Types
<1>4. Spec => [](Ind /\ StackInv)
  BY <1>1, <1>2, PTL DEF Spec
<1> QED BY <1>3, <1>4, PTL

----------------------------------------------------------------------------
(************************ The room of the engine ***************************)

Running == {"load", "run", "ready"}

WithProcess == {s \in Sandboxes : stage[s] \in Running}

\* A process needs an engine, which is why room and size begin together.
Capacities == /\ room + Cardinality(WithProcess) = size
              /\ ~engine => \A s \in Sandboxes : stage[s] \in {"none", "gone"}

LEMMA WithProcessFinite == IsFiniteSet(WithProcess)
                           /\ Cardinality(WithProcess) \in Nat
<1>1. WithProcess \in SUBSET Sandboxes
  BY DEF WithProcess
<1> QED BY <1>1, LfiAssumption, FS_Subset, FS_CardinalityType

\* A sandbox gets a process, or gives it back with its place.
LEMMA PlaceMoves ==
  ASSUME Ind, Capacities, NEW s \in Sandboxes,
         \/ /\ stage[s] \notin Running /\ stage'[s] \in Running
            /\ room' = room - 1
         \/ /\ stage[s] \in Running /\ stage'[s] \notin Running
            /\ room' = room + 1
         \/ /\ stage[s] \in Running <=> stage'[s] \in Running
            /\ room' = room,
         \A z \in Sandboxes \ {s} : stage'[z] = stage[z],
         size' = size
  PROVE  room' + Cardinality(WithProcess') = size'
<1>1. room \in Nat /\ size \in Nat
  BY DEF Ind, Types
<1>2. CASE stage[s] \notin Running /\ stage'[s] \in Running /\ room' = room - 1
  <2>1. WithProcess' = WithProcess \cup {s} /\ s \notin WithProcess
    BY <1>2 DEF WithProcess
  <2>2. Cardinality(WithProcess') = Cardinality(WithProcess) + 1
    BY <2>1, WithProcessFinite, FS_AddElement
  <2> QED BY <1>1, <1>2, <2>2, WithProcessFinite DEF Capacities
<1>3. CASE stage[s] \in Running /\ stage'[s] \notin Running /\ room' = room + 1
  <2>1. WithProcess' = WithProcess \ {s} /\ s \in WithProcess
    BY <1>3 DEF WithProcess
  <2>2. Cardinality(WithProcess') = Cardinality(WithProcess) - 1
    BY <2>1, WithProcessFinite, FS_RemoveElement
  <2> QED BY <1>1, <1>3, <2>2, WithProcessFinite DEF Capacities
<1>4. CASE (stage[s] \in Running <=> stage'[s] \in Running) /\ room' = room
  <2>1. WithProcess' = WithProcess
    BY <1>4 DEF WithProcess
  <2> QED BY <1>4, <2>1 DEF Capacities
<1> QED BY <1>2, <1>3, <1>4

\* With no engine nothing has a process.
LEMMA NoEngine ==
  ASSUME Capacities, \A s \in Sandboxes : stage[s] \in {"none", "gone"}
  PROVE  Cardinality(WithProcess) = 0
<1>1. WithProcess = {}
  BY DEF WithProcess, Running
<1> QED BY <1>1, FS_EmptySet

LEMMA CapacitiesInit == Init => Capacities
<1> SUFFICES ASSUME Init PROVE Capacities
  OBVIOUS
<1>1. WithProcess = {}
  BY DEF Init, WithProcess, Running
<1> QED BY <1>1, FS_EmptySet DEF Init, Capacities

LEMMA CapacitiesKept ==
  ASSUME Ind, Capacities, [Next]_vars
  PROVE  Capacities'
<1> USE DEF Running
<1>1. CASE \E s \in Sandboxes : \/ CreateProc(s) \/ CreateThread(s)
                                \/ CreateRuns(s) \/ CreateFails(s)
                                \/ \E t \in Threads : Destroy(t, s)
  <2>1. PICK s \in Sandboxes : \/ CreateProc(s) \/ CreateThread(s)
                               \/ CreateRuns(s) \/ CreateFails(s)
                               \/ \E t \in Threads : Destroy(t, s)
    BY <1>1
  <2>2. /\ stage[s] \notin {"none", "gone"} /\ size' = size
        /\ engine' = engine /\ \A z \in Sandboxes \ {s} : stage'[z] = stage[z]
    BY <2>1 DEF CreateProc, CreateThread, CreateRuns, CreateFails, Destroy,
                Ind, Types
  <2>3. \/ /\ stage[s] \notin Running /\ stage'[s] \in Running
           /\ room' = room - 1
        \/ /\ stage[s] \in Running /\ stage'[s] \notin Running
           /\ room' = room + 1
        \/ /\ stage[s] \in Running <=> stage'[s] \in Running
           /\ room' = room
    BY <2>1 DEF CreateProc, CreateThread, CreateRuns, CreateFails, Destroy,
                Destructor, Ind, Types
  <2>4. room' + Cardinality(WithProcess') = size'
    BY <2>2, <2>3, PlaceMoves
  <2>5. engine'
    BY <2>2 DEF Capacities
  <2> QED BY <2>4, <2>5 DEF Capacities
<1>2. CASE \E t \in Threads, s \in Sandboxes : CreateBegins(t, s)
  <2>1. PICK t \in Threads, s \in Sandboxes : CreateBegins(t, s)
    BY <1>2
  <2>2. WithProcess' = WithProcess /\ engine'
    BY <2>1 DEF CreateBegins, WithProcess, MakeEngine, managerVars, Ind, Types
  <2>3. CASE engine
    BY <2>1, <2>2, <2>3 DEF CreateBegins, managerVars, Capacities
  <2>4. CASE ~engine
    <3>1. Cardinality(WithProcess) = 0 /\ room' = 1 /\ size' = 1
      BY <2>1, <2>4, NoEngine DEF CreateBegins, MakeEngine, Capacities
    <3> QED BY <2>2, <3>1 DEF Capacities
  <2> QED BY <2>3, <2>4
<1>3. CASE ManagerInit
  <2>1. WithProcess' = WithProcess /\ engine'
    BY <1>3 DEF ManagerInit, MakeEngine, WithProcess
  <2>2. /\ Cardinality(WithProcess) = 0
        /\ room' = Capacity /\ size' = Capacity
    BY <1>3, NoEngine DEF ManagerInit, MakeEngine, Capacities
  <2> QED BY <2>1, <2>2, LfiAssumption DEF Capacities
<1>4. CASE ManagerDestroy
  <2>1. WithProcess' = WithProcess /\ stage' = stage
    BY <1>4 DEF ManagerDestroy, WithProcess
  <2>2. Cardinality(WithProcess) = 0 /\ room' = 0 /\ size' = 0
    BY <1>4, NoEngine DEF ManagerDestroy
  <2> QED BY <1>4, <2>1, <2>2 DEF Capacities, ManagerDestroy
<1>5. CASE UNCHANGED <<engine, room, size, stage>>
  <2>1. WithProcess' = WithProcess
    BY <1>5 DEF WithProcess
  <2> QED BY <1>5, <2>1 DEF Capacities
<1>6. CASE \/ UNCHANGED vars
           \/ \E t \in Threads :
                \/ EndScope(t) \/ ThreadEnds(t)
                \/ \E bytes \in CalleeSizes : BeginCallBack(t, bytes)
                \/ \E p \in ParamTypes : MakeParam(t, p)
                \/ \E s \in Sandboxes :
                     \/ UseHeap(t, s) \/ BeginContext(t, s)
                     \/ \E sig \in Signatures : BeginCall(t, s, sig)
  <2>1. CASE \E t \in Threads : \E s \in Sandboxes :
                \/ UseHeap(t, s) \/ BeginContext(t, s)
                \/ \E sig \in Signatures : BeginCall(t, s, sig)
    BY <1>5, <2>1 DEF UseHeap, BeginContext, BeginCall, managerVars
  <2>2. CASE \E t \in Threads :
                \/ EndScope(t) \/ ThreadEnds(t)
                \/ \E bytes \in CalleeSizes : BeginCallBack(t, bytes)
                \/ \E p \in ParamTypes : MakeParam(t, p)
    BY <1>5, <2>2 DEF EndScope, ThreadEnds, BeginCallBack, MakeParam,
       managerVars
  <2>3. CASE UNCHANGED vars
    BY <1>5, <2>3 DEF vars, managerVars
  <2> QED BY <1>6, <2>1, <2>2, <2>3
<1> QED BY <1>1, <1>2, <1>3, <1>4, <1>6 DEF Next

\* Creations that fail, at whatever step, and sandboxes that go cost the
\* engine no room, for any capacity.
THEOREM RoomIsKept == Spec => []CapacityKept
<1>1. Init => Ind /\ Capacities
  BY IndInit, CapacitiesInit
<1>2. Ind /\ Capacities /\ [Next]_vars => (Ind /\ Capacities)'
  BY IndNext, CapacitiesKept
<1>3. Capacities => CapacityKept
  BY DEF Capacities, CapacityKept, WithProcess, Running
<1>4. Spec => [](Ind /\ Capacities)
  BY <1>1, <1>2, PTL DEF Spec
<1> QED BY <1>3, <1>4, PTL
=============================================================================
