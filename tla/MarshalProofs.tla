--------------------------- MODULE MarshalProofs ---------------------------
(***************************************************************************)
(* For every number of registers, stack words and arguments that satisfies *)
(* the assumptions of Marshal, and every signature: none of its loops runs *)
(* past the end of an array, and every argument arrives whole where it is  *)
(* looked for.  Ind counts how far the loops are, Travel says where the    *)
(* bytes are; counting is that of the convention, whose definition has no  *)
(* loop, so that the proof is about how the two agree.                     *)
(***************************************************************************)
EXTENDS Marshal, SequenceTheorems, FiniteSetTheorems, TLAPS

\* The loops over the arguments are at one of them, or at the end.
Turn == /\ phase \in Phases
        /\ sig \in Signatures
        /\ offset \in Nat
        /\ phase \in {"pack", "prep", "extract"} => i \in 1..(Len(sig) + 1)

\* Before argument i there are i - 1 arguments of at most eight bytes.
StorageInUse == /\ phase \in {"pack", "extract"} => offset <= 8 * (i - 1)
                /\ offset <= 8 * Len(sig)

\* Whatever its elements are.
IsSeq(s) == Len(s) \in Nat /\ s = [k \in 1..Len(s) |-> s[k]]

Shapes == /\ IsSeq(ints) /\ IsSeq(floats) /\ IsSeq(stack)
          /\ int_idx \in Nat /\ float_idx \in Nat /\ stack_idx \in Nat

\* Of n arguments g and f went to registers and s to the stack; none did
\* while its class had a register left.
Placed(n, g, f, s) == /\ g + f + s = n
                      /\ g <= IntRegs /\ f <= FloatRegs
                      /\ s > 0 => g = IntRegs \/ f = FloatRegs

Progress ==
  /\ phase = "pack" => ints = <<>> /\ floats = <<>> /\ stack = <<>>
  /\ phase = "prep" => Placed(i - 1, Len(ints), Len(floats), Len(stack))
  /\ phase = "extract" => Placed(i - 1, int_idx, float_idx, stack_idx)
  /\ Len(stack) <= StackSlots /\ stack_idx <= StackSlots

\* NoOverrun does not say how many arguments have been placed when a word
\* goes to the stack, nor how many are left when bytes go to arg_storage.
Ind == Turn /\ StorageInUse /\ Shapes /\ Progress

Ints    == {m \in All : ~IsFloat(m)}
Floats  == {m \in All : IsFloat(m)}
Spilled == {m \in All : OnStack(m)}

Positive(S) == \A m \in S : m \in Nat /\ m > 0

\* How many of S are among the first n.
Count(S, n) == Cardinality({m \in S : m <= n})

AtMost(n, limit) == IF n <= limit THEN n ELSE limit

\* g and f registers and s words are what the first n arguments take.
Used(n, g, f, s) == /\ g = AtMost(Count(Ints, n), IntRegs)
                    /\ f = AtMost(Count(Floats, n), FloatRegs)
                    /\ s = Count(Spilled, n)

\* Argument n lies in arg_storage, within what is in use.
Packed(n) == /\ args[n] \in Nat /\ args[n] + Size[sig[n]] <= offset
             /\ Stored(n) = BytesOf(n)

Holds(s, k, n) == k \in 1..Len(s) /\ s[k] = BytesOf(n)

\* It is where the convention wants it in the image of registers and stack.
InImage(n) == IF OnStack(n) THEN Holds(stack, Count(Spilled, n), n)
              ELSE IF IsFloat(n) THEN Holds(floats, Count(Floats, n), n)
              ELSE Holds(ints, Count(Ints, n), n)

Storage == /\ DOMAIN arg_storage = 0..(ArgStorage - 1)
           /\ args \in Seq(Nat)
           /\ Len(args) = IF phase \in {"pack", "extract"} THEN i - 1
                                                          ELSE Len(sig)
           /\ \A n \in 1..Len(args) : Packed(n)

Image == /\ phase = "prep" =>
              /\ Used(i - 1, Len(ints), Len(floats), Len(stack))
              /\ \A n \in 1..(i - 1) : InImage(n)
         /\ phase \in {"push", "callee"} => \A n \in All : InImage(n)
         /\ Len(ints) <= IntRegs /\ Len(floats) <= FloatRegs

\* The words above the i-th have been pushed, after the one that pads.
Pushed == /\ IsSeq(mstack)
          /\ phase \in {"pack", "prep", "extract", "host"} => mstack = <<>>
          /\ phase \in {"push", "callee"} =>
               /\ i \in 0..Len(stack) /\ i <= Len(sig)
               /\ Len(mstack) = (Len(stack) - i) + (Len(stack) % 2)
               /\ \A k \in 1..(Len(stack) - i) : mstack[k] = stack[i + k]
          /\ phase = "callee" => i = 0
          /\ phase = "host" => i = Len(sig) + 1

Closure == /\ phase \in {"extract", "host"} => saved = CallerSaved
           /\ phase = "extract" => Used(i - 1, int_idx, float_idx, stack_idx)
           /\ int_idx <= IntRegs /\ float_idx <= FloatRegs

\* Where the bytes of every argument are in each of the loops.
Travel == Storage /\ Image /\ Pushed /\ Closure

----------------------------------------------------------------------------
\* A signature is a sequence of at most MaxArgs types.
LEMMA SignatureSeq ==
  ASSUME NEW s \in Signatures
  PROVE  s \in Seq(Types) /\ Len(s) \in Nat /\ Len(s) <= MaxArgs
<1>1. PICK n \in 0..MaxArgs : s \in [1..n -> Types]
  BY DEF Signatures
<1>2. n \in Nat /\ n <= MaxArgs
  BY CountsAssumption
<1>3. s \in Seq(Types) /\ Len(s) = n
  BY <1>1, <1>2
<1> QED
  BY <1>2, <1>3

\* Appending makes a sequence of any elements longer by one.
LEMMA AppendShape ==
  ASSUME NEW s, NEW e, IsSeq(s)
  PROVE  IsSeq(Append(s, e)) /\ Len(Append(s, e)) = Len(s) + 1
<1> DEFINE S == {s[k] : k \in 1..Len(s)} \cup {e}
<1>1. s \in Seq(S)
  <2>1. s \in [1..Len(s) -> S]
    BY DEF IsSeq
  <2> QED
    BY <2>1 DEF IsSeq
<1> DEFINE t == Append(s, e)
<1>2. t \in Seq(S) /\ Len(t) = Len(s) + 1
  BY <1>1, AppendProperties
<1>3. Len(t) \in Nat /\ t \in [1..Len(t) -> S]
  BY <1>2, LenProperties
<1> HIDE DEF t
<1>4. t = [k \in 1..Len(t) |-> t[k]]
  BY <1>3
<1> QED
  BY <1>2, <1>3, <1>4 DEF IsSeq, t

\* The size of the type of an argument is at most a word.
LEMMA SizeBound ==
  ASSUME NEW s \in Signatures, NEW n \in 1..Len(s)
  PROVE  Size[s[n]] \in 1..8
BY SignatureSeq, SizeAssumption

\* There is a stack word left when an argument finds no register.
LEMMA SpillFits ==
  ASSUME NEW n \in Nat, NEW g \in Nat, NEW f \in Nat, NEW t \in Nat,
         n < MaxArgs, Placed(n, g, f, t),
         g = IntRegs \/ f = FloatRegs
  PROVE  t + 1 <= StackSlots
BY CountsAssumption, SpillAssumption DEF Placed

\* One more argument in a register, or on the stack.
LEMMA PlacedOne ==
  ASSUME NEW n \in Nat, NEW g \in Nat, NEW f \in Nat, NEW t \in Nat,
         Placed(n, g, f, t)
  PROVE  /\ f < FloatRegs => Placed(n + 1, g, f + 1, t)
         /\ g < IntRegs => Placed(n + 1, g + 1, f, t)
         /\ g = IntRegs \/ f = FloatRegs => Placed(n + 1, g, f, t + 1)
BY CountsAssumption DEF Placed

----------------------------------------------------------------------------
\* How counting proceeds along a set of positive numbers.
LEMMA CountStep ==
  ASSUME NEW S, Positive(S), NEW n \in Nat
  PROVE  /\ IsFiniteSet({m \in S : m <= n})
         /\ Count(S, n) \in Nat
         /\ Count(S, 0) = 0
         /\ Count(S, n + 1) = Count(S, n) + (IF n + 1 \in S THEN 1 ELSE 0)
<1> DEFINE U(k) == {m \in S : m <= k}
<1>1. IsFiniteSet(U(n))
  <2>1. U(n) \in SUBSET (1..n)
    BY DEF Positive
  <2>2. IsFiniteSet(1..n)
    BY FS_Interval
  <2> QED
    BY <2>1, <2>2, FS_Subset
<1>2. Cardinality(U(n)) \in Nat
  BY <1>1, FS_CardinalityType
<1>3. U(0) = {}
  BY DEF Positive
<1>4. U(n + 1) = IF n + 1 \in S THEN U(n) \cup {n + 1} ELSE U(n)
  BY DEF Positive
<1>5. n + 1 \notin U(n)
  OBVIOUS
<1>6. Cardinality(U(n + 1)) =
        Cardinality(U(n)) + (IF n + 1 \in S THEN 1 ELSE 0)
  <2> HIDE DEF U
  <2>1. Cardinality(U(n) \cup {n + 1}) = Cardinality(U(n)) + 1
    BY <1>1, <1>5, FS_AddElement
  <2> QED
    BY <1>2, <1>4, <2>1
<1> QED
  BY <1>1, <1>2, <1>3, <1>6, FS_EmptySet DEF Count

\* Further along there are not fewer, and there is one more at a member.
LEMMA CountMonotone ==
  ASSUME NEW S, Positive(S), NEW m \in Nat, NEW n \in Nat, m <= n
  PROVE  /\ Count(S, m) <= Count(S, n)
         /\ m < n /\ n \in S => Count(S, m) < Count(S, n)
<1> DEFINE U(k) == {l \in S : l <= k}
<1>1. ASSUME NEW a \in Nat, NEW b \in Nat, a <= b
      PROVE  Count(S, a) <= Count(S, b)
  <2>1. U(a) \in SUBSET U(b)
    BY <1>1 DEF Positive
  <2>2. IsFiniteSet(U(b))
    BY CountStep
  <2> QED
    BY <2>1, <2>2, FS_Subset DEF Count
<1>2. ASSUME m < n, n \in S PROVE Count(S, m) < Count(S, n)
  <2>1. n - 1 \in Nat /\ m <= n - 1 /\ (n - 1) + 1 = n
    BY <1>2
  <2>2. Count(S, n) = Count(S, n - 1) + 1
    <3>1. Count(S, (n - 1) + 1) =
            Count(S, n - 1) + (IF (n - 1) + 1 \in S THEN 1 ELSE 0)
      BY <2>1, CountStep
    <3> QED
      BY <1>2, <2>1, <3>1
  <2>3. Count(S, m) <= Count(S, n - 1)
    BY <1>1, <2>1
  <2>4. Count(S, m) \in Nat /\ Count(S, n - 1) \in Nat
    BY <2>1, CountStep
  <2> QED
    BY <2>2, <2>3, <2>4
<1> QED
  BY <1>1, <1>2

\* What a caller places for argument n is where counting finds it.
LEMMA PlaceAt ==
  ASSUME NEW N \in Nat, NEW S \in SUBSET (1..N), NEW n \in S
  PROVE  Place(S)[Count(S, n)] = BytesOf(n)
<1>1. Positive(S) /\ n \in Nat /\ 0 < n /\ 0 \in Nat
  BY DEF Positive
<1>2. Count(S, n) \in 1..Cardinality(S)
  <2>1. IsFiniteSet(S)
    <3>1. IsFiniteSet(1..N)
      BY FS_Interval
    <3> QED
      BY <3>1, FS_Subset
  <2>2. Cardinality(S) \in Nat /\ Count(S, n) <= Cardinality(S)
    BY <2>1, FS_CardinalityType, FS_Subset DEF Count
  <2>3. Count(S, 0) = 0 /\ Count(S, 0) < Count(S, n)
    <3>1. Count(S, 0) = 0
      BY <1>1, CountStep
    <3>2. Count(S, 0) < Count(S, n)
      BY <1>1, CountMonotone
    <3> QED
      BY <3>1, <3>2
  <2>4. Count(S, n) \in Nat
    BY <1>1, CountStep
  <2> QED
    BY <2>2, <2>3, <2>4
<1>3. ASSUME NEW m \in S, Count(S, m) = Count(S, n) PROVE m = n
  <2>1. m \in Nat /\ Count(S, m) \in Nat
    BY <1>1, CountStep DEF Positive
  <2>2. ~(m < n) /\ ~(n < m)
    BY <1>1, <1>3, <2>1, CountMonotone
  <2> QED
    BY <2>2
<1>4. Nth(S, Count(S, n)) = n
  <2>1. Nth(S, Count(S, n)) = CHOOSE m \in S : Count(S, m) = Count(S, n)
    BY DEF Nth, Count
  <2> QED
    BY <1>3, <2>1
<1> QED
  BY <1>2, <1>4 DEF Place

----------------------------------------------------------------------------
\* The convention, counted: an argument goes to the stack if it and those of
\* its class before it are more than the registers.
LEMMA Convention ==
  ASSUME sig \in Signatures, NEW n \in All
  PROVE  /\ All = 1..Len(sig) /\ n \in Nat /\ n > 0
         /\ Positive(Ints) /\ Positive(Floats) /\ Positive(Spilled)
         /\ IsFloat(n) => /\ Cardinality(Before(n)) + 1 = Count(Floats, n)
                          /\ OnStack(n) <=> Count(Floats, n) > FloatRegs
         /\ ~IsFloat(n) => /\ Cardinality(Before(n)) + 1 = Count(Ints, n)
                           /\ OnStack(n) <=> Count(Ints, n) > IntRegs
<1>1. All = 1..Len(sig) /\ Len(sig) \in Nat
  BY SignatureSeq DEF All
<1>2. n \in Nat /\ n > 0 /\ n - 1 \in Nat /\ (n - 1) + 1 = n
  BY <1>1
<1>3. Positive(Ints) /\ Positive(Floats) /\ Positive(Spilled)
  BY <1>1 DEF Positive, Ints, Floats, Spilled
<1>4. ASSUME IsFloat(n)
      PROVE  /\ Cardinality(Before(n)) + 1 = Count(Floats, n)
             /\ OnStack(n) <=> Count(Floats, n) > FloatRegs
  <2>1. Before(n) = {m \in Floats : m <= n - 1}
    BY <1>1, <1>2, <1>4 DEF Before, Floats, IsFloat
  <2>2. Cardinality(Before(n)) = Count(Floats, n - 1)
    BY <2>1 DEF Count
  <2>3. /\ Count(Floats, n - 1) \in Nat
        /\ Count(Floats, n) = Count(Floats, n - 1) + 1
    <3>1. /\ Count(Floats, n - 1) \in Nat
          /\ Count(Floats, (n - 1) + 1) =
               Count(Floats, n - 1) + (IF (n - 1) + 1 \in Floats THEN 1 ELSE 0)
      BY <1>2, <1>3, CountStep
    <3>2. n \in Floats
      BY <1>4 DEF Floats
    <3> QED
      BY <1>2, <3>1, <3>2
  <2> QED
    BY <1>4, <2>2, <2>3, CountsAssumption DEF OnStack
<1>5. ASSUME ~IsFloat(n)
      PROVE  /\ Cardinality(Before(n)) + 1 = Count(Ints, n)
             /\ OnStack(n) <=> Count(Ints, n) > IntRegs
  <2>1. Before(n) = {m \in Ints : m <= n - 1}
    BY <1>1, <1>2, <1>5 DEF Before, Ints, IsFloat
  <2>2. Cardinality(Before(n)) = Count(Ints, n - 1)
    BY <2>1 DEF Count
  <2>3. /\ Count(Ints, n - 1) \in Nat
        /\ Count(Ints, n) = Count(Ints, n - 1) + 1
    <3>1. /\ Count(Ints, n - 1) \in Nat
          /\ Count(Ints, (n - 1) + 1) =
               Count(Ints, n - 1) + (IF (n - 1) + 1 \in Ints THEN 1 ELSE 0)
      BY <1>2, <1>3, CountStep
    <3>2. n \in Ints
      BY <1>5 DEF Ints
    <3> QED
      BY <1>2, <3>1, <3>2
  <2> QED
    BY <1>5, <2>2, <2>3, CountsAssumption DEF OnStack
<1> QED
  BY <1>1, <1>2, <1>3, <1>4, <1>5

\* One more argument is one more of its class, and of the stack if it finds
\* no register.
LEMMA CountNext ==
  ASSUME sig \in Signatures, NEW n \in All
  PROVE  /\ n - 1 \in Nat
         /\ \A S \in {Ints, Floats, Spilled} :
              Count(S, n) \in Nat /\ Count(S, n - 1) \in Nat
         /\ Count(Ints, n) = Count(Ints, n - 1) + IF IsFloat(n) THEN 0 ELSE 1
         /\ Count(Floats, n) =
              Count(Floats, n - 1) + IF IsFloat(n) THEN 1 ELSE 0
         /\ Count(Spilled, n) =
              Count(Spilled, n - 1) + IF OnStack(n) THEN 1 ELSE 0
<1>1. /\ \A S \in {Ints, Floats, Spilled} : Positive(S)
      /\ n \in Nat /\ n > 0
  BY Convention
<1>2. n - 1 \in Nat /\ (n - 1) + 1 = n
  BY <1>1
<1>3. /\ n \in Ints <=> ~IsFloat(n)
      /\ n \in Floats <=> IsFloat(n)
      /\ n \in Spilled <=> OnStack(n)
  BY DEF Ints, Floats, Spilled
<1>4. ASSUME NEW S \in {Ints, Floats, Spilled}
      PROVE  /\ Count(S, n) \in Nat /\ Count(S, n - 1) \in Nat
             /\ Count(S, n) = Count(S, n - 1) + (IF n \in S THEN 1 ELSE 0)
  <2>1. Positive(S)
    BY <1>1
  <2>2. /\ Count(S, n - 1) \in Nat
        /\ Count(S, (n - 1) + 1) =
             Count(S, n - 1) + (IF (n - 1) + 1 \in S THEN 1 ELSE 0)
    BY <1>2, <2>1, CountStep
  <2> QED
    BY <1>2, <2>2
<1> QED
  BY <1>2, <1>3, <1>4

\* What the closure saved, read by counting.
LEMMA SavedAt ==
  ASSUME sig \in Signatures, NEW n \in All
  PROVE  /\ OnStack(n) => CallerSaved.stack[Count(Spilled, n)] = BytesOf(n)
         /\ ~OnStack(n) /\ IsFloat(n) =>
              CallerSaved.floats[Count(Floats, n)] = BytesOf(n)
         /\ ~OnStack(n) /\ ~IsFloat(n) =>
              CallerSaved.ints[Count(Ints, n)] = BytesOf(n)
<1>1. All = 1..Len(sig) /\ Len(sig) \in Nat
  BY Convention, SignatureSeq
<1>2. ASSUME OnStack(n)
      PROVE  CallerSaved.stack[Count(Spilled, n)] = BytesOf(n)
  <2>1. Spilled \in SUBSET (1..Len(sig)) /\ n \in Spilled
    BY <1>1, <1>2 DEF Spilled
  <2> QED
    BY <1>1, <2>1, PlaceAt DEF CallerSaved, Spilled
<1>3. ASSUME ~OnStack(n), IsFloat(n)
      PROVE  CallerSaved.floats[Count(Floats, n)] = BytesOf(n)
  <2> DEFINE S == {m \in All : IsFloat(m) /\ ~OnStack(m)}
  <2>1. S \in SUBSET (1..Len(sig)) /\ n \in S
    BY <1>1, <1>3
  <2>2. ASSUME NEW m \in Floats, m <= n PROVE ~OnStack(m)
    <3>1. Count(Floats, m) <= Count(Floats, n)
      BY <2>2, Convention, CountMonotone DEF Floats
    <3>2. Count(Floats, m) \in Nat /\ Count(Floats, n) \in Nat
      BY CountNext DEF Floats
    <3> QED
      BY <1>3, <3>1, <3>2, Convention, CountsAssumption DEF Floats
  <2>3. {m \in S : m <= n} = {m \in Floats : m <= n}
    BY <2>2 DEF Floats
  <2>4. Count(S, n) = Count(Floats, n)
    BY <2>3 DEF Count
  <2>5. CallerSaved.floats = Place(S)
    BY DEF CallerSaved
  <2> HIDE DEF S
  <2> QED
    BY <1>1, <2>1, <2>4, <2>5, PlaceAt
<1>4. ASSUME ~OnStack(n), ~IsFloat(n)
      PROVE  CallerSaved.ints[Count(Ints, n)] = BytesOf(n)
  <2> DEFINE S == {m \in All : ~IsFloat(m) /\ ~OnStack(m)}
  <2>1. S \in SUBSET (1..Len(sig)) /\ n \in S
    BY <1>1, <1>4
  <2>2. ASSUME NEW m \in Ints, m <= n PROVE ~OnStack(m)
    <3>1. Count(Ints, m) <= Count(Ints, n)
      BY <2>2, Convention, CountMonotone DEF Ints
    <3>2. Count(Ints, m) \in Nat /\ Count(Ints, n) \in Nat
      BY CountNext DEF Ints
    <3> QED
      BY <1>4, <3>1, <3>2, Convention, CountsAssumption DEF Ints
  <2>3. {m \in S : m <= n} = {m \in Ints : m <= n}
    BY <2>2 DEF Ints
  <2>4. Count(S, n) = Count(Ints, n)
    BY <2>3 DEF Count
  <2>5. CallerSaved.ints = Place(S)
    BY DEF CallerSaved
  <2> HIDE DEF S
  <2> QED
    BY <1>1, <2>1, <2>4, <2>5, PlaceAt
<1> QED
  BY <1>2, <1>3, <1>4

----------------------------------------------------------------------------
\* What the loops count is what the convention counts: the register or the
\* word they give argument n is its own.
LEMMA UsedNext ==
  ASSUME sig \in Signatures, NEW n \in All,
         NEW g \in Nat, NEW f \in Nat, NEW s \in Nat, Used(n - 1, g, f, s)
  PROVE  /\ IsFloat(n) /\ InRegister(f, FloatRegs) =>
              /\ ~OnStack(n) /\ f + 1 = Count(Floats, n)
              /\ Used(n, g, f + 1, s)
         /\ ~IsFloat(n) /\ InRegister(g, IntRegs) =>
              /\ ~OnStack(n) /\ g + 1 = Count(Ints, n)
              /\ Used(n, g + 1, f, s)
         /\ ~InRegister(IF IsFloat(n) THEN f ELSE g,
                        IF IsFloat(n) THEN FloatRegs ELSE IntRegs) =>
              /\ OnStack(n) /\ s + 1 = Count(Spilled, n)
              /\ Used(n, g, f, s + 1)
<1>1. /\ Count(Ints, n) \in Nat /\ Count(Ints, n - 1) \in Nat
      /\ Count(Floats, n) \in Nat /\ Count(Floats, n - 1) \in Nat
      /\ Count(Spilled, n) \in Nat /\ Count(Spilled, n - 1) \in Nat
  BY CountNext
<1>2. /\ Count(Ints, n) = Count(Ints, n - 1) + IF IsFloat(n) THEN 0 ELSE 1
      /\ Count(Floats, n) = Count(Floats, n - 1) + IF IsFloat(n) THEN 1 ELSE 0
      /\ Count(Spilled, n) =
           Count(Spilled, n - 1) + IF OnStack(n) THEN 1 ELSE 0
  BY CountNext
<1>3. /\ IsFloat(n) => (OnStack(n) <=> Count(Floats, n) > FloatRegs)
      /\ ~IsFloat(n) => (OnStack(n) <=> Count(Ints, n) > IntRegs)
  BY Convention
<1> QED
  BY <1>1, <1>2, <1>3, CountsAssumption DEF Used, AtMost, InRegister

\* Before the first argument nothing is in use.
LEMMA UsedNone ==
  ASSUME sig \in Signatures
  PROVE  Used(0, 0, 0, 0)
<1>1. {m \in Ints : m <= 0} = {} /\ {m \in Floats : m <= 0} = {}
      /\ {m \in Spilled : m <= 0} = {}
  BY SignatureSeq DEF Ints, Floats, Spilled, All
<1> QED
  BY <1>1, FS_EmptySet, CountsAssumption DEF Used, AtMost, Count

\* What the definitions of the convention depend on.
LEMMA SameSignature ==
  ASSUME sig' = sig
  PROVE  /\ All' = All /\ Ints' = Ints /\ Floats' = Floats
         /\ Spilled' = Spilled /\ CallerSaved' = CallerSaved
         /\ \A n : /\ IsFloat(n)' = IsFloat(n) /\ OnStack(n)' = OnStack(n)
                   /\ BytesOf(n)' = BytesOf(n)
<1>1. All' = All
  BY DEF All
<1>2. \A n : IsFloat(n)' = IsFloat(n) /\ BytesOf(n)' = BytesOf(n)
  BY DEF IsFloat, BytesOf
<1>3. \A n : Before(n)' = Before(n)
  BY DEF IsFloat, Before
<1>4. \A n : OnStack(n)' = OnStack(n)
  BY DEF OnStack, IsFloat, Before
<1>5. Ints' = Ints /\ Floats' = Floats
  BY DEF Ints, Floats, IsFloat, All
<1>6. Spilled' = Spilled
  BY DEF Spilled, OnStack, IsFloat, Before, All
<1>7. CallerSaved' = CallerSaved
  BY DEF CallerSaved, Place, BytesOf, OnStack, IsFloat, Before, All
<1> QED
  BY <1>1, <1>2, <1>4, <1>5, <1>6, <1>7

\* The element that is appended, and those before it.
LEMMA AppendHolds ==
  ASSUME NEW s, NEW e, IsSeq(s), NEW n
  PROVE  /\ \A k : Holds(s, k, n) => Holds(Append(s, e), k, n)
         /\ e = BytesOf(n) => Holds(Append(s, e), Len(s) + 1, n)
<1>1. \A k \in 1..Len(s) : Append(s, e)[k] = s[k]
  BY DEF IsSeq
<1>2. Append(s, e)[Len(s) + 1] = e
  BY DEF IsSeq
<1>3. Len(Append(s, e)) = Len(s) + 1 /\ Len(s) \in Nat
  BY AppendShape DEF IsSeq
<1> QED
  BY <1>1, <1>2, <1>3 DEF Holds

\* The element that is pushed, and those below it.
LEMMA ConsShape ==
  ASSUME NEW s, NEW e, IsSeq(s)
  PROVE  /\ IsSeq(<<e>> \o s) /\ Len(<<e>> \o s) = Len(s) + 1
         /\ (<<e>> \o s)[1] = e
         /\ \A k \in 1..Len(s) : (<<e>> \o s)[k + 1] = s[k]
<1> DEFINE S == {s[k] : k \in 1..Len(s)} \cup {e}
<1>1. s \in Seq(S)
  <2>1. s \in [1..Len(s) -> S]
    BY DEF IsSeq
  <2> QED
    BY <2>1 DEF IsSeq
<1>2. <<e>> \in Seq(S) /\ Len(<<e>>) = 1 /\ <<e>>[1] = e
  OBVIOUS
<1> DEFINE t == <<e>> \o s
<1> HIDE DEF S
<1>3. /\ t \in Seq(S) /\ Len(t) = Len(s) + 1
      /\ \A k \in 1..(1 + Len(s)) : t[k] = IF k <= 1 THEN e ELSE s[k - 1]
  BY <1>1, <1>2, ConcatProperties
<1>4. Len(t) \in Nat /\ t \in [1..Len(t) -> S] /\ Len(s) \in Nat
  BY <1>1, <1>3, LenProperties
<1> HIDE DEF t
<1>5. t = [k \in 1..Len(t) |-> t[k]]
  BY <1>4
<1>6. t[1] = e /\ \A k \in 1..Len(s) : t[k + 1] = s[k]
  BY <1>3, <1>4
<1> QED
  BY <1>3, <1>4, <1>5, <1>6 DEF IsSeq, t

----------------------------------------------------------------------------
\* An argument lies where it was stored as long as nobody stores another.
LEMMA SameStorage ==
  ASSUME UNCHANGED <<sig, offset, args, arg_storage>>, NEW n, Packed(n)
  PROVE  Packed(n)'
BY DEF Packed, Stored, BytesOf

\* memcpy to the end leaves what is stored alone.
LEMMA StoreStorage ==
  ASSUME Ind, Storage, phase \in {"pack", "extract"}, i <= Len(sig),
         StoreArg(BytesOf(i)), UNCHANGED <<phase, sig>>
  PROVE  Storage'
<1>1. /\ i \in 1..Len(sig) /\ Len(sig) \in Nat /\ Len(sig) <= MaxArgs
      /\ offset \in Nat /\ offset <= 8 * (i - 1)
  BY SignatureSeq DEF Ind, Turn, StorageInUse
<1>2. PICK z \in 1..8 : Size[sig[i]] = z
  BY <1>1, SizeBound DEF Ind, Turn
<1>3. offset + z <= ArgStorage
  BY <1>1, <1>2, StorageAssumption, CountsAssumption
<1>4. /\ args \in Seq(Nat) /\ Len(args) = i - 1
      /\ DOMAIN arg_storage = 0..(ArgStorage - 1)
  BY DEF Storage
<1>5. /\ args' \in Seq(Nat) /\ Len(args') = i /\ args'[i] = offset
      /\ \A n \in 1..(i - 1) : args'[n] = args[n]
  <2>1. args' = Append(args, offset)
    BY DEF StoreArg
  <2> QED
    BY <1>1, <1>4, <2>1, AppendProperties
<1>6. /\ DOMAIN arg_storage' = 0..(ArgStorage - 1)
      /\ \A b \in 0..(ArgStorage - 1) :
           arg_storage'[b] = IF b \in Room THEN BytesOf(i)[b - offset + 1]
                                           ELSE arg_storage[b]
      /\ offset' = offset + z /\ i' = i + 1
  BY <1>2, <1>4 DEF StoreArg
<1>7. ASSUME NEW n \in 1..(i - 1) PROVE Packed(n)'
  <2>1. Packed(n) /\ n \in 1..Len(sig)
    BY <1>1, <1>4 DEF Storage
  <2>2. PICK w \in 1..8 : Size[sig[n]] = w
    BY <2>1, SizeBound DEF Ind, Turn
  <2>a. PICK a \in Nat : args[n] = a /\ a + w <= offset
    BY <2>1, <2>2 DEF Packed
  <2>3. ASSUME NEW k \in 1..w
        PROVE  arg_storage'[a + k - 1] = arg_storage[a + k - 1]
    <3>1. /\ a + k - 1 \in 0..(ArgStorage - 1)
          /\ a + k - 1 < offset
      BY <1>1, <1>3, <2>a, CountsAssumption
    <3>2. a + k - 1 \notin Room
      BY <1>1, <3>1 DEF Room
    <3> QED
      BY <1>6, <3>1, <3>2
  <2>4. Stored(n)' = Stored(n)
    BY <1>5, <2>2, <2>a, <2>3 DEF Stored
  <2>5. BytesOf(n)' = BytesOf(n)
    BY DEF BytesOf
  <2>6. args'[n] = a /\ a + w <= offset'
    BY <1>1, <1>5, <1>6, <2>a
  <2> QED
    BY <2>1, <2>2, <2>4, <2>5, <2>6 DEF Packed
<1>8. ASSUME NEW n, n = i PROVE Packed(n)'
  <2>1. ASSUME NEW k \in 1..z
        PROVE  arg_storage'[offset + k - 1] = BytesOf(i)[k]
    <3>1. offset + k - 1 \in Room /\ offset + k - 1 \in 0..(ArgStorage - 1)
      <4>1. Room = offset..(offset + z - 1)
        BY <1>2 DEF Room
      <4> QED
        BY <1>1, <1>3, <4>1, CountsAssumption
    <3>2. (offset + k - 1) - offset + 1 = k
      BY <1>1
    <3> QED
      BY <1>6, <3>1, <3>2
  <2>2. BytesOf(i) = [k \in 1..z |-> BytesOf(i)[k]]
    BY <1>2 DEF BytesOf
  <2>3. [k \in 1..z |-> arg_storage'[offset + k - 1]] = BytesOf(i)
    BY <2>1, <2>2
  <2>4. Size[sig'[n]] = z /\ args'[n] = offset /\ BytesOf(n)' = BytesOf(n)
    BY <1>2, <1>5, <1>8 DEF BytesOf
  <2>5. Stored(n)' = BytesOf(n)
    BY <1>8, <2>3, <2>4 DEF Stored
  <2> QED
    BY <1>1, <1>6, <2>4, <2>5 DEF Packed
<1>9. \A n \in 1..Len(args') : Packed(n)'
  <2>1. ASSUME NEW n \in 1..i PROVE n = i \/ n \in 1..(i - 1)
    BY <1>1
  <2> QED
    BY <1>5, <1>7, <1>8, <2>1
<1> QED
  BY <1>1, <1>5, <1>6, <1>9 DEF Storage

----------------------------------------------------------------------------
LEMMA InitInd == MarshalInit => Ind
<1> SUFFICES ASSUME MarshalInit PROVE Ind
  OBVIOUS
<1>1. Len(sig) \in Nat
  BY SignatureSeq DEF MarshalInit
<1>2. Turn
  BY <1>1 DEF MarshalInit, Turn, Phases
<1>3. StorageInUse
  BY <1>1 DEF MarshalInit, StorageInUse
<1>4. Shapes
  BY DEF MarshalInit, Shapes, IsSeq
<1>5. Progress
  BY CountsAssumption DEF MarshalInit, Progress, Placed
<1> QED
  BY <1>2, <1>3, <1>4, <1>5 DEF Ind

\* What storing an argument does to the first two parts of Ind.
LEMMA StoreInd ==
  ASSUME Ind, phase \in {"pack", "extract"}, i <= Len(sig),
         NEW bytes, StoreArg(bytes), UNCHANGED <<phase, sig>>
  PROVE  Turn' /\ StorageInUse'
<1>1. i \in 1..Len(sig) /\ Len(sig) \in Nat
  BY SignatureSeq DEF Ind, Turn
<1>2. PICK z \in 1..8 : Size[sig[i]] = z
  BY <1>1, SizeBound DEF Ind, Turn
<1>3. offset' = offset + z /\ i' = i + 1
  BY <1>2 DEF StoreArg
<1>4. offset \in Nat /\ offset <= 8 * (i - 1)
  BY DEF Ind, Turn, StorageInUse
<1>5. Turn'
  BY <1>1, <1>2, <1>3, <1>4 DEF Ind, Turn
<1>6. offset' <= 8 * (i' - 1) /\ offset' <= 8 * Len(sig)
  BY <1>1, <1>3, <1>4
<1>7. StorageInUse'
  BY <1>6 DEF StorageInUse
<1> QED
  BY <1>5, <1>7

LEMMA StepInd == Ind /\ [MarshalNext]_marshalVars => Ind'
<1> SUFFICES ASSUME Ind, [MarshalNext]_marshalVars PROVE Ind'
  OBVIOUS
<1> USE DEF Ind, indices
<1>0. Len(sig) \in Nat /\ Len(sig) <= MaxArgs
  BY SignatureSeq DEF Turn
<1>1. CASE PackArg
  <2>1. Turn' /\ StorageInUse'
    BY <1>1, StoreInd DEF PackArg
  <2>2. Shapes' /\ Progress'
    BY <1>1 DEF PackArg, Shapes, IsSeq, Progress
  <2> QED
    BY <2>1, <2>2
<1>2. CASE PackDone
  <2>1. Turn'
    BY <1>0, <1>2 DEF PackDone, Turn, Phases
  <2>2. StorageInUse' /\ Shapes'
    BY <1>2 DEF PackDone, StorageInUse, Shapes, IsSeq
  <2>3. Progress'
    BY <1>2, CountsAssumption DEF PackDone, Progress, Placed
  <2> QED
    BY <2>1, <2>2, <2>3
<1>3. CASE PrepArg
  <2>1. i \in 1..Len(sig) /\ i' = i + 1 /\ i - 1 \in Nat /\ i - 1 < MaxArgs
    BY <1>0, <1>3, CountsAssumption DEF PrepArg, Turn
  <2>2. Turn' /\ StorageInUse'
    BY <1>0, <1>3, <2>1 DEF PrepArg, Turn, StorageInUse
  <2>3. /\ Placed(i - 1, Len(ints), Len(floats), Len(stack))
        /\ Len(ints) \in Nat /\ Len(floats) \in Nat /\ Len(stack) \in Nat
        /\ i' - 1 = (i - 1) + 1
    BY <1>0, <1>3, <2>1 DEF PrepArg, Progress, Shapes, IsSeq
  <2>4. CASE /\ IsFloat(i) /\ InRegister(Len(floats), FloatRegs)
             /\ floats' = Append(floats, Stored(i))
             /\ UNCHANGED <<ints, stack>>
    <3>1. IsSeq(floats') /\ Len(floats') = Len(floats) + 1
      BY <2>4, AppendShape DEF Shapes
    <3>2. Shapes'
      BY <1>3, <2>4, <3>1 DEF PrepArg, Shapes, IsSeq
    <3>3. Placed(i' - 1, Len(ints'), Len(floats'), Len(stack'))
      BY <2>1, <2>3, <2>4, <3>1, PlacedOne DEF InRegister
    <3>4. Progress'
      BY <1>3, <2>4, <3>3 DEF PrepArg, Progress
    <3> QED
      BY <2>2, <3>2, <3>4
  <2>5. CASE /\ ~IsFloat(i) /\ InRegister(Len(ints), IntRegs)
             /\ ints' = Append(ints, Stored(i))
             /\ UNCHANGED <<floats, stack>>
    <3>1. IsSeq(ints') /\ Len(ints') = Len(ints) + 1
      BY <2>5, AppendShape DEF Shapes
    <3>2. Shapes'
      BY <1>3, <2>5, <3>1 DEF PrepArg, Shapes, IsSeq
    <3>3. Placed(i' - 1, Len(ints'), Len(floats'), Len(stack'))
      BY <2>1, <2>3, <2>5, <3>1, PlacedOne DEF InRegister
    <3>4. Progress'
      BY <1>3, <2>5, <3>3 DEF PrepArg, Progress
    <3> QED
      BY <2>2, <3>2, <3>4
  <2>6. CASE /\ ~InRegister(Len(IF IsFloat(i) THEN floats ELSE ints),
                            IF IsFloat(i) THEN FloatRegs ELSE IntRegs)
             /\ stack' = Append(stack, Stored(i))
             /\ UNCHANGED <<ints, floats>>
    <3>1. IsSeq(stack') /\ Len(stack') = Len(stack) + 1
      BY <2>6, AppendShape DEF Shapes
    <3>2. Shapes'
      BY <1>3, <2>6, <3>1 DEF PrepArg, Shapes, IsSeq
    <3>3. Len(ints) = IntRegs \/ Len(floats) = FloatRegs
      BY <2>3, <2>6, CountsAssumption DEF Placed, InRegister, Shapes, IsSeq
    <3>4. Len(stack') <= StackSlots
      BY <2>1, <2>3, <3>1, <3>3, SpillFits DEF Shapes, IsSeq
    <3>5. Placed(i' - 1, Len(ints'), Len(floats'), Len(stack'))
      BY <2>1, <2>3, <2>6, <3>1, <3>3, PlacedOne
    <3>6. Progress'
      BY <1>3, <3>4, <3>5 DEF PrepArg, Progress
    <3> QED
      BY <2>2, <3>2, <3>6
  <2> QED
    BY <1>3, <2>4, <2>5, <2>6 DEF PrepArg
<1>4. CASE ExtractArg
  <2>0. i \in 1..Len(sig) /\ i - 1 \in Nat /\ i - 1 < MaxArgs
    BY <1>0, <1>4, CountsAssumption DEF ExtractArg, Turn
  <2>1. PICK bytes : StoreArg(bytes)
    BY <1>4 DEF ExtractArg
  <2>2. Turn' /\ StorageInUse' /\ i' = i + 1
    BY <1>4, <2>1, StoreInd DEF ExtractArg, StoreArg
  <2>3. Placed(i - 1, int_idx, float_idx, stack_idx)
    BY <1>4 DEF ExtractArg, Progress
  <2>4. CASE /\ InRegister(float_idx, FloatRegs)
             /\ float_idx' = float_idx + 1
             /\ UNCHANGED <<int_idx, stack_idx>>
    <3>1. Shapes'
      BY <1>4, <2>4 DEF ExtractArg, Shapes, IsSeq
    <3>2. Progress'
      BY <1>4, <2>0, <2>2, <2>3, <2>4, CountsAssumption
         DEF ExtractArg, Progress, Placed, InRegister, Shapes
    <3> QED
      BY <2>2, <3>1, <3>2
  <2>5. CASE /\ InRegister(int_idx, IntRegs)
             /\ int_idx' = int_idx + 1
             /\ UNCHANGED <<float_idx, stack_idx>>
    <3>1. Shapes'
      BY <1>4, <2>5 DEF ExtractArg, Shapes, IsSeq
    <3>2. Progress'
      BY <1>4, <2>0, <2>2, <2>3, <2>5, CountsAssumption
         DEF ExtractArg, Progress, Placed, InRegister, Shapes
    <3> QED
      BY <2>2, <3>1, <3>2
  <2>6. CASE /\ ~InRegister(IF IsFloat(i) THEN float_idx ELSE int_idx,
                            IF IsFloat(i) THEN FloatRegs ELSE IntRegs)
             /\ stack_idx' = stack_idx + 1
             /\ UNCHANGED <<int_idx, float_idx>>
    <3>1. Shapes'
      BY <1>4, <2>6 DEF ExtractArg, Shapes, IsSeq
    <3>2. int_idx = IntRegs \/ float_idx = FloatRegs
      BY <2>3, <2>6, CountsAssumption DEF Placed, InRegister, Shapes
    <3>3. stack_idx + 1 <= StackSlots
      BY <2>0, <2>3, <3>2, SpillFits DEF Shapes
    <3>4. Placed(i' - 1, int_idx', float_idx', stack_idx')
      BY <2>0, <2>2, <2>3, <2>6, <3>2, PlacedOne DEF Shapes
    <3>5. Progress'
      BY <1>4, <2>6, <3>3, <3>4 DEF ExtractArg, Progress
    <3> QED
      BY <2>2, <3>1, <3>5
  <2> QED
    BY <1>4, <2>4, <2>5, <2>6 DEF ExtractArg
<1>5. CASE PrepDone \/ PushArg \/ CallFunction \/ ExtractDone
  <2>1. Turn' /\ StorageInUse'
    BY <1>5 DEF PrepDone, PushArg, CallFunction, ExtractDone, Turn,
                StorageInUse, Phases
  <2>2. Shapes'
    BY <1>5 DEF PrepDone, PushArg, CallFunction, ExtractDone, Shapes, IsSeq
  <2>3. Progress'
    BY <1>5 DEF PrepDone, PushArg, CallFunction, ExtractDone, Progress
  <2> QED
    BY <2>1, <2>2, <2>3
<1>6. CASE Arrived \/ UNCHANGED marshalVars
  BY <1>6
     DEF Arrived, marshalVars, Turn, StorageInUse, Shapes, IsSeq, Progress,
         Placed
<1> QED
  BY <1>1, <1>2, <1>3, <1>4, <1>5, <1>6 DEF MarshalNext

----------------------------------------------------------------------------
\* No signature makes pbox_call, dyfn_prep_call or dyfn_closure_dispatch run
\* past arg_storage or stack_args, on any architecture whose register file
\* satisfies SpillAssumption.
THEOREM NothingOverrun == MarshalSpec => []NoOverrun
<1>1. Ind => NoOverrun
  <2> SUFFICES ASSUME Ind PROVE NoOverrun
    OBVIOUS
  <2>1. Len(sig) \in Nat /\ Len(sig) <= MaxArgs /\ offset \in Nat
    BY SignatureSeq DEF Ind, Turn
  <2> QED
    BY <2>1, StorageAssumption, CountsAssumption
       DEF Ind, StorageInUse, Progress, NoOverrun
<1> QED
  BY <1>1, InitInd, StepInd, PTL DEF MarshalSpec
----------------------------------------------------------------------------
LEMMA InitTravel == MarshalInit => Travel
<1> SUFFICES ASSUME MarshalInit PROVE Travel
  OBVIOUS
<1>1. Storage
  BY DEF MarshalInit, Storage
<1>2. Image
  BY CountsAssumption DEF MarshalInit, Image
<1>3. Pushed
  BY DEF MarshalInit, Pushed, IsSeq
<1>4. Used(0, 0, 0, 0)
  BY UsedNone DEF MarshalInit
<1>5. Closure
  BY <1>4, CountsAssumption DEF MarshalInit, Closure
<1> QED
  BY <1>1, <1>2, <1>3, <1>5 DEF Travel

\* One turn of the loop of pbox_call.
LEMMA PackTravel == Ind /\ Travel /\ PackArg => Travel'
<1> SUFFICES ASSUME Ind, Travel, PackArg PROVE Travel'
  OBVIOUS
<1>1. Storage'
  BY StoreStorage DEF PackArg, Travel
<1>2. Image' /\ Pushed' /\ Closure'
  BY DEF PackArg, indices, Travel, Image, Pushed, Closure, IsSeq
<1> QED
  BY <1>1, <1>2 DEF Travel

\* One turn of the loop of dyfn_prep_call.
LEMMA PrepTravel == Ind /\ Travel /\ PrepArg => Travel'
<1> SUFFICES ASSUME Ind, Travel, PrepArg PROVE Travel'
  OBVIOUS
<1>1. PICK n : n = i
  OBVIOUS
<1>2. /\ sig \in Signatures /\ Len(sig) \in Nat
      /\ n \in All /\ n \in 1..Len(sig)
      /\ phase = "prep" /\ phase' = "prep" /\ i' = n + 1 /\ sig' = sig
  BY <1>1, SignatureSeq DEF Ind, Turn, PrepArg, All
<1>3. /\ Len(ints) \in Nat /\ Len(floats) \in Nat /\ Len(stack) \in Nat
      /\ IsSeq(ints) /\ IsSeq(floats) /\ IsSeq(stack)
  BY DEF Ind, Shapes, IsSeq
<1>4. /\ Used(n - 1, Len(ints), Len(floats), Len(stack))
      /\ \A m \in 1..(n - 1) : InImage(m)
  BY <1>1, <1>2 DEF Travel, Image
<1>5. Stored(n) = BytesOf(n)
  BY <1>2 DEF Travel, Storage, Packed
<1>6. /\ All' = All /\ Ints' = Ints /\ Floats' = Floats
      /\ Spilled' = Spilled /\ CallerSaved' = CallerSaved
      /\ \A m : /\ IsFloat(m)' = IsFloat(m) /\ OnStack(m)' = OnStack(m)
                /\ BytesOf(m)' = BytesOf(m)
  BY <1>2, SameSignature
<1>7. Storage' /\ Pushed' /\ Closure'
  <2>1. \A m \in 1..Len(args) : Packed(m)'
    BY SameStorage DEF PrepArg, Travel, Storage
  <2> QED
    BY <1>2, <1>6, <2>1
       DEF PrepArg, indices, Travel, Storage, Pushed, Closure, IsSeq
<1>8. ASSUME NEW g, NEW f, NEW s, ints' = g, floats' = f, stack' = s,
             Used(n, Len(g), Len(f), Len(s)),
             \A m, k : /\ Holds(ints, k, m) => Holds(g, k, m)
                       /\ Holds(floats, k, m) => Holds(f, k, m)
                       /\ Holds(stack, k, m) => Holds(s, k, m),
             IF OnStack(n) THEN Holds(s, Count(Spilled, n), n)
             ELSE IF IsFloat(n) THEN Holds(f, Count(Floats, n), n)
             ELSE Holds(g, Count(Ints, n), n)
      PROVE  Image'
  <2>1. ASSUME NEW m \in 1..n PROVE InImage(m)'
    <3>1. IF OnStack(m) THEN Holds(s, Count(Spilled, m), m)
          ELSE IF IsFloat(m) THEN Holds(f, Count(Floats, m), m)
          ELSE Holds(g, Count(Ints, m), m)
      <4>1. m = n \/ m \in 1..(n - 1)
        BY <1>2
      <4> QED
        BY <1>4, <1>8, <4>1 DEF InImage
    <3> QED
      BY <1>6, <1>8, <3>1 DEF InImage, Holds
  <2>2. Used(n, Len(ints), Len(floats), Len(stack))'
    BY <1>6, <1>8 DEF Used
  <2> QED
    BY <1>2, <2>1, <2>2, CountsAssumption DEF Image, Used, AtMost
<1>9. CASE /\ IsFloat(i) /\ InRegister(Len(floats), FloatRegs)
           /\ floats' = Append(floats, Stored(i))
           /\ UNCHANGED <<ints, stack>>
  <2> DEFINE f == Append(floats, Stored(n))
  <2>1. Used(n, Len(ints), Len(f), Len(stack)) /\ Len(f) = Len(floats) + 1
        /\ ~OnStack(n) /\ Len(floats) + 1 = Count(Floats, n) /\ IsFloat(n)
    BY <1>1, <1>2, <1>3, <1>4, <1>9, UsedNext, AppendShape
  <2>2. /\ \A m, k : Holds(floats, k, m) => Holds(f, k, m)
        /\ Holds(f, Count(Floats, n), n)
    BY <1>3, <1>5, <2>1, AppendHolds
  <2>3. floats' = f /\ ints' = ints /\ stack' = stack
    BY <1>1, <1>9
  <2> HIDE DEF f
  <2> QED
    BY <1>7, <1>8, <2>1, <2>2, <2>3 DEF Travel
<1>10. CASE /\ ~IsFloat(i) /\ InRegister(Len(ints), IntRegs)
            /\ ints' = Append(ints, Stored(i))
            /\ UNCHANGED <<floats, stack>>
  <2> DEFINE g == Append(ints, Stored(n))
  <2>1. Used(n, Len(g), Len(floats), Len(stack)) /\ Len(g) = Len(ints) + 1
        /\ ~OnStack(n) /\ Len(ints) + 1 = Count(Ints, n) /\ ~IsFloat(n)
    BY <1>1, <1>2, <1>3, <1>4, <1>10, UsedNext, AppendShape
  <2>2. /\ \A m, k : Holds(ints, k, m) => Holds(g, k, m)
        /\ Holds(g, Count(Ints, n), n)
    BY <1>3, <1>5, <2>1, AppendHolds
  <2>3. ints' = g /\ floats' = floats /\ stack' = stack
    BY <1>1, <1>10
  <2> HIDE DEF g
  <2> QED
    BY <1>7, <1>8, <2>1, <2>2, <2>3 DEF Travel
<1>11. CASE /\ ~InRegister(Len(IF IsFloat(i) THEN floats ELSE ints),
                           IF IsFloat(i) THEN FloatRegs ELSE IntRegs)
            /\ stack' = Append(stack, Stored(i))
            /\ UNCHANGED <<ints, floats>>
  <2> DEFINE s == Append(stack, Stored(n))
  <2>0. ~InRegister(IF IsFloat(n) THEN Len(floats) ELSE Len(ints),
                    IF IsFloat(n) THEN FloatRegs ELSE IntRegs)
    BY <1>1, <1>11
  <2>1. Used(n, Len(ints), Len(floats), Len(s)) /\ Len(s) = Len(stack) + 1
        /\ OnStack(n) /\ Len(stack) + 1 = Count(Spilled, n)
    BY <1>2, <1>3, <1>4, <2>0, UsedNext, AppendShape
  <2>2. /\ \A m, k : Holds(stack, k, m) => Holds(s, k, m)
        /\ Holds(s, Count(Spilled, n), n)
    BY <1>3, <1>5, <2>1, AppendHolds
  <2>3. stack' = s /\ floats' = floats /\ ints' = ints
    BY <1>1, <1>11
  <2> HIDE DEF s
  <2> QED
    BY <1>7, <1>8, <2>1, <2>2, <2>3 DEF Travel
<1> QED
  BY <1>9, <1>10, <1>11 DEF PrepArg

\* One turn of the loop of dyfn_closure_dispatch.
LEMMA ExtractTravel == Ind /\ Travel /\ ExtractArg => Travel'
<1> SUFFICES ASSUME Ind, Travel, ExtractArg PROVE Travel'
  OBVIOUS
<1>1. PICK n : n = i
  OBVIOUS
<1>2. /\ sig \in Signatures /\ Len(sig) \in Nat
      /\ n \in All /\ n \in 1..Len(sig)
      /\ phase = "extract" /\ phase' = "extract" /\ sig' = sig
  BY <1>1, SignatureSeq DEF Ind, Turn, ExtractArg, All
<1>3. /\ int_idx \in Nat /\ float_idx \in Nat /\ stack_idx \in Nat
      /\ Used(n - 1, int_idx, float_idx, stack_idx) /\ saved = CallerSaved
  BY <1>1, <1>2 DEF Ind, Shapes, Travel, Closure
<1>4. /\ All' = All /\ Ints' = Ints /\ Floats' = Floats
      /\ Spilled' = Spilled /\ CallerSaved' = CallerSaved
  BY <1>2, SameSignature
<1>5. ASSUME NEW bytes, StoreArg(bytes), bytes = BytesOf(n),
             Used(n, int_idx', float_idx', stack_idx')
      PROVE  Travel'
  <2>1. Storage' /\ i' = n + 1
    BY <1>1, <1>2, <1>5, StoreStorage DEF Travel, StoreArg
  <2>2. Image' /\ Pushed'
    BY <1>2 DEF ExtractArg, Travel, Image, Pushed, IsSeq
  <2>3. Used(i - 1, int_idx, float_idx, stack_idx)'
    BY <1>2, <1>4, <1>5, <2>1 DEF Used
  <2>4. Closure'
    BY <1>2, <1>3, <1>4, <2>3, CountsAssumption
       DEF ExtractArg, Closure, Used, AtMost
  <2> QED
    BY <2>1, <2>2, <2>4 DEF Travel
<1>6. CASE /\ IsFloat(i) /\ InRegister(float_idx, FloatRegs)
           /\ StoreArg(saved.floats[float_idx + 1])
           /\ float_idx' = float_idx + 1
           /\ UNCHANGED <<int_idx, stack_idx>>
  <2>1. /\ ~OnStack(n) /\ IsFloat(n) /\ float_idx + 1 = Count(Floats, n)
        /\ Used(n, int_idx, float_idx + 1, stack_idx)
    BY <1>1, <1>2, <1>3, <1>6, UsedNext
  <2>2. saved.floats[float_idx + 1] = BytesOf(n)
    BY <1>2, <1>3, <2>1, SavedAt
  <2> QED
    BY <1>5, <1>6, <2>1, <2>2
<1>7. CASE /\ ~IsFloat(i) /\ InRegister(int_idx, IntRegs)
           /\ StoreArg(saved.ints[int_idx + 1])
           /\ int_idx' = int_idx + 1
           /\ UNCHANGED <<float_idx, stack_idx>>
  <2>1. /\ ~OnStack(n) /\ ~IsFloat(n) /\ int_idx + 1 = Count(Ints, n)
        /\ Used(n, int_idx + 1, float_idx, stack_idx)
    BY <1>1, <1>2, <1>3, <1>7, UsedNext
  <2>2. saved.ints[int_idx + 1] = BytesOf(n)
    BY <1>2, <1>3, <2>1, SavedAt
  <2> QED
    BY <1>5, <1>7, <2>1, <2>2
<1>8. CASE /\ ~InRegister(IF IsFloat(i) THEN float_idx ELSE int_idx,
                          IF IsFloat(i) THEN FloatRegs ELSE IntRegs)
           /\ StoreArg(saved.stack[stack_idx + 1])
           /\ stack_idx' = stack_idx + 1
           /\ UNCHANGED <<int_idx, float_idx>>
  <2>1. /\ OnStack(n) /\ stack_idx + 1 = Count(Spilled, n)
        /\ Used(n, int_idx, float_idx, stack_idx + 1)
    BY <1>1, <1>2, <1>3, <1>8, UsedNext
  <2>2. saved.stack[stack_idx + 1] = BytesOf(n)
    BY <1>2, <1>3, <2>1, SavedAt
  <2> QED
    BY <1>5, <1>8, <2>1, <2>2
<1> QED
  BY <1>6, <1>7, <1>8 DEF ExtractArg

\* The loop of dyfn_call, and what lies between the loops.
LEMMA PushTravel ==
  /\ Ind /\ Travel
  /\ PackDone \/ PrepDone \/ PushArg \/ CallFunction \/ ExtractDone
  => Travel'
<1> SUFFICES ASSUME Ind, Travel,
                    \/ PackDone \/ PrepDone \/ PushArg \/ CallFunction
                    \/ ExtractDone
             PROVE  Travel'
  OBVIOUS
<1>1. /\ UNCHANGED <<sig, offset, args, arg_storage, ints, floats, stack,
                     saved, indices>>
      /\ Len(sig) \in Nat /\ sig \in Signatures
      /\ Len(stack) \in Nat
  BY SignatureSeq DEF PackDone, PrepDone, PushArg, CallFunction, ExtractDone,
     indices, Ind, Turn, Shapes, IsSeq
<1>2. /\ All' = All /\ CallerSaved' = CallerSaved
      /\ All = 1..Len(sig)
      /\ \A n : InImage(n)' = InImage(n)
  <2>1. /\ All' = All /\ CallerSaved' = CallerSaved
        /\ Ints' = Ints /\ Floats' = Floats /\ Spilled' = Spilled
        /\ \A m : /\ IsFloat(m)' = IsFloat(m) /\ OnStack(m)' = OnStack(m)
                  /\ BytesOf(m)' = BytesOf(m)
    BY <1>1, SameSignature
  <2> QED
    BY <1>1, <2>1, SignatureSeq DEF InImage, Holds, All
<1>3. Storage'
  <2>1. \A m \in 1..Len(args) : Packed(m)'
    BY <1>1, SameStorage DEF Travel, Storage
  <2> QED
    BY <1>1, <2>1 DEF PackDone, PrepDone, PushArg, CallFunction, ExtractDone,
       Travel, Storage, Ind, Turn
<1>4. Image'
  <2>1. CASE PackDone
    <3>1. ints = <<>> /\ floats = <<>> /\ stack = <<>>
      BY <2>1 DEF PackDone, Ind, Progress
    <3>2. Used(0, 0, 0, 0)'
      <4>1. Ints' = Ints /\ Floats' = Floats /\ Spilled' = Spilled
        BY <1>1, SameSignature
      <4> QED
        BY <1>1, <4>1, UsedNone DEF Used
    <3> QED
      BY <1>1, <2>1, <3>1, <3>2, CountsAssumption DEF PackDone, Image
  <2>2. CASE PrepDone
    <3>1. i = Len(sig) + 1
      BY <1>1, <2>2 DEF PrepDone, Ind, Turn
    <3>2. \A n \in All : InImage(n)
      BY <1>1, <1>2, <2>2, <3>1 DEF PrepDone, Travel, Image
    <3> QED
      BY <1>1, <1>2, <2>2, <3>2 DEF PrepDone, Travel, Image
  <2>3. CASE PushArg \/ CallFunction \/ ExtractDone
    BY <1>1, <1>2, <2>3 DEF PushArg, CallFunction, ExtractDone, Travel, Image
  <2> QED
    BY <2>1, <2>2, <2>3
<1>5. Pushed'
  <2>1. CASE PrepDone
    <3>1. Len(stack) <= Len(sig)
      BY <1>1, <2>1 DEF PrepDone, Ind, Turn, Progress, Placed, Shapes, IsSeq
    <3>2. /\ IsSeq(mstack') /\ Len(mstack') = Len(stack) % 2
      BY <1>1, <2>1 DEF PrepDone, IsSeq
    <3> QED
      BY <1>1, <2>1, <3>1, <3>2 DEF PrepDone, Pushed, IsSeq
  <2>2. CASE PushArg
    <3> DEFINE top == <<stack[i]>> \o mstack
    <3>1. /\ i \in 1..Len(stack) /\ i <= Len(sig) /\ IsSeq(mstack)
          /\ Len(mstack) = (Len(stack) - i) + (Len(stack) % 2)
          /\ \A k \in 1..(Len(stack) - i) : mstack[k] = stack[i + k]
      BY <1>1, <2>2 DEF PushArg, Travel, Pushed
    <3>2. /\ IsSeq(top) /\ Len(top) = Len(mstack) + 1 /\ top[1] = stack[i]
          /\ \A k \in 1..Len(mstack) : top[k + 1] = mstack[k]
      BY <3>1, ConsShape
    <3>3. mstack' = top /\ i' = i - 1
      BY <2>2 DEF PushArg
    <3> HIDE DEF top
    <3>4. ASSUME NEW k \in 1..(Len(stack) - i + 1)
          PROVE  top[k] = stack[i - 1 + k]
      <4>1. CASE k = 1
        BY <1>1, <3>1, <3>2, <4>1
      <4>2. CASE k > 1
        <5>1. k - 1 \in 1..(Len(stack) - i) /\ k - 1 \in 1..Len(mstack)
          BY <1>1, <3>1, <4>2
        <5>2. (k - 1) + 1 = k /\ i + (k - 1) = i - 1 + k
          BY <1>1, <3>1
        <5> QED
          BY <3>1, <3>2, <5>1, <5>2
      <4> QED
        BY <1>1, <3>1, <4>1, <4>2
    <3>5. /\ i' \in 0..Len(stack) /\ i' <= Len(sig) /\ IsSeq(mstack')
          /\ Len(mstack') = (Len(stack) - i') + (Len(stack) % 2)
          /\ \A k \in 1..(Len(stack) - i') : mstack'[k] = stack[i' + k]
      BY <1>1, <3>1, <3>2, <3>3, <3>4
    <3> QED
      BY <1>1, <2>2, <3>5 DEF PushArg, Pushed, IsSeq
  <2>3. CASE PackDone \/ CallFunction \/ ExtractDone
    BY <1>1, <2>3 DEF PackDone, CallFunction, ExtractDone, Travel, Pushed,
       IsSeq, Ind, Turn
  <2> QED
    BY <2>1, <2>2, <2>3
<1>6. Closure'
  BY <1>1, <1>2 DEF PackDone, PrepDone, PushArg, CallFunction, ExtractDone,
     indices, Travel, Closure
<1> QED
  BY <1>3, <1>4, <1>5, <1>6 DEF Travel

LEMMA StepTravel == Ind /\ Travel /\ [MarshalNext]_marshalVars => Travel'
<1> SUFFICES ASSUME Ind, Travel, UNCHANGED marshalVars PROVE Travel'
  BY PackTravel, PrepTravel, ExtractTravel, PushTravel DEF MarshalNext, Arrived
<1>1. /\ All' = All /\ CallerSaved' = CallerSaved
      /\ Ints' = Ints /\ Floats' = Floats /\ Spilled' = Spilled
      /\ \A m : /\ IsFloat(m)' = IsFloat(m) /\ OnStack(m)' = OnStack(m)
                /\ BytesOf(m)' = BytesOf(m)
  BY SameSignature DEF marshalVars
<1>2. Storage' /\ Pushed'
  BY SameStorage DEF marshalVars, Travel, Storage, Pushed, IsSeq
<1>3. Image' /\ Closure'
  BY <1>1
     DEF marshalVars, indices, Travel, Image, Closure, Used, InImage, Holds
<1> QED
  BY <1>2, <1>3 DEF Travel

----------------------------------------------------------------------------
\* Whatever the signature, every argument of a call is whole where the code
\* of the sandbox looks for it, and every argument of a callback where the
\* host does.
THEOREM EveryArgArrives == MarshalSpec => []ArgsArrive
<1>1. Ind /\ Travel => ArgsArrive
  <2> SUFFICES ASSUME Ind, Travel PROVE ArgsArrive
    OBVIOUS
  <2>1. /\ sig \in Signatures /\ Len(sig) \in Nat /\ All = 1..Len(sig)
        /\ offset \in Nat /\ offset <= 8 * Len(sig) /\ Len(sig) <= MaxArgs
    BY SignatureSeq DEF Ind, Turn, StorageInUse, All
  <2>2. CalleeGetsArgs
    <3> SUFFICES ASSUME phase = "callee"
                 PROVE  /\ \A n \in All : Passed(n) = BytesOf(n)
                        /\ Len(mstack) % 2 = 0
      BY DEF CalleeGetsArgs
    <3>1. /\ Len(stack) \in Nat /\ Len(mstack) = Len(stack) + (Len(stack) % 2)
          /\ \A k \in 1..Len(stack) : mstack[k] = stack[k]
      BY DEF Ind, Shapes, IsSeq, Travel, Pushed
    <3>2. ASSUME NEW n \in All PROVE Passed(n) = BytesOf(n)
      <4>1. InImage(n)
        BY <3>2 DEF Travel, Image
      <4>2. StackIndex(n) = Count(Spilled, n)
        <5>1. {m \in 1..n : OnStack(m)} = {m \in Spilled : m <= n}
          BY <2>1, <3>2 DEF Spilled
        <5> QED
          BY <5>1 DEF StackIndex, Count
      <4>3. /\ IsFloat(n) => Cardinality(Before(n)) + 1 = Count(Floats, n)
            /\ ~IsFloat(n) => Cardinality(Before(n)) + 1 = Count(Ints, n)
        BY <2>1, Convention
      <4> QED
        BY <3>1, <4>1, <4>2, <4>3 DEF Passed, InImage, Holds
    <3>3. Len(mstack) % 2 = 0
      BY <3>1
    <3> QED
      BY <3>2, <3>3
  <2>3. HostGetsArgs
    <3>1. ASSUME phase = "host", NEW n \in All PROVE Stored(n) = BytesOf(n)
      BY <2>1, <3>1 DEF Travel, Storage, Packed
    <3>2. ASSUME phase = "extract", NEW n \in DOMAIN args
          PROVE  args[n] < ArgStorage
      <4>1. n \in 1..Len(args) /\ n \in 1..Len(sig)
        BY <2>1, <3>2 DEF Travel, Storage, Ind, Turn
      <4>2. PICK z \in 1..8 : Size[sig[n]] = z
        BY <2>1, <4>1, SizeBound
      <4>3. args[n] \in Nat /\ args[n] + z <= offset
        BY <4>1, <4>2 DEF Travel, Storage, Packed
      <4> QED
        BY <2>1, <4>2, <4>3, StorageAssumption, CountsAssumption
    <3> QED
      BY <3>1, <3>2 DEF HostGetsArgs
  <2> QED
    BY <2>2, <2>3 DEF ArgsArrive
<1> QED
  BY <1>1, InitInd, InitTravel, StepInd, StepTravel, PTL DEF MarshalSpec

\* The type invariant, which the two invariants together contain.
THEOREM TypeCorrect == MarshalSpec => []MarshalTypeOK
<1>1. Ind /\ Travel => MarshalTypeOK
  <2> SUFFICES ASSUME Ind, Travel PROVE MarshalTypeOK
    OBVIOUS
  <2>1. Len(sig) \in Nat /\ Len(sig) <= MaxArgs /\ Len(stack) \in Nat
    BY SignatureSeq DEF Ind, Turn, Shapes, IsSeq
  <2>2. i \in 0..(MaxArgs + 1)
    BY <2>1, CountsAssumption DEF Ind, Turn, Travel, Pushed, Phases
  <2>3. Len(mstack) <= Len(stack) + 1
    BY <2>1 DEF Ind, Turn, Travel, Pushed, Phases
  <2> QED
    BY <2>2, <2>3 DEF Ind, Turn, Travel, Storage, Image, Closure, MarshalTypeOK
<1> QED
  BY <1>1, InitInd, InitTravel, StepInd, StepTravel, PTL DEF MarshalSpec
=============================================================================
