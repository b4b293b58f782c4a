------------------------------ MODULE Marshal ------------------------------
(***************************************************************************)
(* How the arguments of a call travel to the sandboxed function, and those *)
(* of a callback to the host function.  A call is packed into arg_storage  *)
(* by pbox_call, taken from there into an image of the argument registers  *)
(* and the stack by dyfn_prep_call, and loaded by dyfn_call.  The other    *)
(* way the closure saves the registers and four words of the caller's      *)
(* stack, dyfn_closure_dispatch packs them, and the host's dispatcher      *)
(* reads each argument at its offset.                                      *)
(*                                                                         *)
(* All of these are loops over the signature, one turn a step here.  The   *)
(* calling convention itself is defined without loops, as the reference.   *)
(***************************************************************************)
EXTENDS Naturals, Sequences, FiniteSets

CONSTANTS
  IntTypes, FloatTypes,   \* of DyfnType, by their DyfnClass
  Size,                   \* dyfn_type_size = pbox_type_size
  MaxArgs,                \* PBOX_MAX_ARGS (10)
  IntRegs, FloatRegs,     \* argument registers (6 or 8, and 8)
  StackSlots,             \* words in stack_args (4)
  ArgStorage              \* bytes of arg_storage (1024)

Types == IntTypes \cup FloatTypes

ASSUME ClassesAssumption == IntTypes \cap FloatTypes = {}
ASSUME SizeAssumption == Size \in [Types -> 1..8]
ASSUME CountsAssumption == /\ MaxArgs \in Nat /\ ArgStorage \in Nat
                           /\ IntRegs \in Nat /\ FloatRegs \in Nat
                           /\ StackSlots \in Nat

\* The static assertion of pbox_call, and what the size of stack_args needs.
ASSUME StorageAssumption == MaxArgs * 8 <= ArgStorage
ASSUME SpillAssumption == /\ MaxArgs <= IntRegs + StackSlots
                          /\ MaxArgs <= FloatRegs + StackSlots

VARIABLES
  phase,         \* which loop runs, see Phases
  sig,           \* arg_types, for nargs = Len(sig)
  i,             \* the argument whose turn it is
  offset,        \* bytes of arg_storage that are in use
  args,          \* offset of each argument in arg_storage
  arg_storage,   \* its bytes
  ints, floats,  \* int_regs and float_regs, as far as they are in use
  stack,         \* stack_args
  mstack,        \* words on the machine's stack, from the top
  saved,         \* what the closure saved: [ints, floats, stack]
  int_idx, float_idx, stack_idx   \* where dyfn_closure_dispatch reads them

marshalVars == <<phase, sig, i, offset, args, arg_storage, ints, floats, stack,
                 mstack, saved, int_idx, float_idx, stack_idx>>

indices == <<int_idx, float_idx, stack_idx>>

Phases == {"pack", "prep", "push", "callee", "extract", "host"}

Unset == <<0, 0>>                 \* a byte of something else
Pad   == <<>>                     \* the word that keeps the stack aligned

Signatures == UNION {[1..n -> Types] : n \in 0..MaxArgs}

\* An argument is the sequence of its bytes, the k-th of the n-th being
\* <<n, k>>; none of them may go missing or change its place.
BytesOf(n) == [k \in 1..Size[sig[n]] |-> <<n, k>>]

IsFloat(n) == sig[n] \in FloatTypes

----------------------------------------------------------------------------
(************************* The calling convention **************************)

\* External: the System V and AAPCS64 conventions, for arguments of one word.
\* Each class fills its registers in order, the rest is on the stack.
Before(n) == {m \in 1..(n - 1) : IsFloat(m) = IsFloat(n)}

OnStack(n) ==
  Cardinality(Before(n)) >= IF IsFloat(n) THEN FloatRegs ELSE IntRegs

StackIndex(n) == Cardinality({m \in 1..n : OnStack(m)})

\* Where the code of the callee looks for argument n.
Passed(n) == IF OnStack(n) THEN mstack[StackIndex(n)]
             ELSE IF IsFloat(n) THEN floats[Cardinality(Before(n)) + 1]
             ELSE ints[Cardinality(Before(n)) + 1]

Nth(S, j) == CHOOSE n \in S : Cardinality({m \in S : m <= n}) = j

\* What the code of a caller leaves in registers or on the stack: the values
\* of the arguments in S, in order.
Place(S) == [j \in 1..Cardinality(S) |-> BytesOf(Nth(S, j))]

All == DOMAIN sig

CallerSaved ==
  [ints   |-> Place({n \in All : ~IsFloat(n) /\ ~OnStack(n)}),
   floats |-> Place({n \in All : IsFloat(n) /\ ~OnStack(n)}),
   stack  |-> Place({n \in All : OnStack(n)})]

NoSaved == [ints |-> <<>>, floats |-> <<>>, stack |-> <<>>]

----------------------------------------------------------------------------
\* A call that is about to be packed, or a callback whose closure has saved
\* the registers.
MarshalInit == /\ sig \in Signatures
               /\ phase \in {"pack", "extract"}
               /\ saved = IF phase = "pack" THEN NoSaved ELSE CallerSaved
               /\ i = 1 /\ offset = 0
               /\ args = <<>>
               /\ arg_storage = [b \in 0..(ArgStorage - 1) |-> Unset]
               /\ ints = <<>> /\ floats = <<>> /\ stack = <<>> /\ mstack = <<>>
               /\ int_idx = 0 /\ float_idx = 0 /\ stack_idx = 0

\* A double underscore marks a deliberately wrong variant of the operator
\* that follows, which a property is validated with.

Room == offset..(offset + Size[sig[i]] - 1)

\* Every argument takes two words.
StoreArg__TwoWords(bytes) ==
  /\ args' = Append(args, offset)
  /\ arg_storage' = [b \in DOMAIN arg_storage |->
                       IF b \in Room THEN bytes[b - offset + 1]
                                     ELSE arg_storage[b]]
  /\ offset' = offset + 16
  /\ i' = i + 1

\* memcpy to the end of what is in use in arg_storage.
StoreArg(bytes) ==
  /\ args' = Append(args, offset)
  /\ arg_storage' = [b \in DOMAIN arg_storage |->
                       IF b \in Room THEN bytes[b - offset + 1]
                                     ELSE arg_storage[b]]
  /\ offset' = offset + Size[sig[i]]
  /\ i' = i + 1

\* The bytes found at the offset of argument n.
Stored(n) == [k \in 1..Size[sig[n]] |-> arg_storage[args[n] + k - 1]]

\* The loop of pbox_call.
PackArg == /\ phase = "pack"
           /\ i <= Len(sig)
           /\ StoreArg(BytesOf(i))
           /\ UNCHANGED <<phase, sig, ints, floats, stack, mstack, saved,
                          indices>>

PackDone == /\ phase = "pack"
            /\ i > Len(sig)
            /\ phase' = "prep"
            /\ i' = 1
            /\ UNCHANGED <<sig, offset, args, arg_storage, ints, floats, stack,
                           mstack, saved, indices>>

\* Is there a register of the class left?
InRegister(used, regs) == used < regs

\* The class of an argument, and how many registers it has, are not looked at.
PrepArg__Unlimited == /\ phase = "prep"
                      /\ i <= Len(sig)
                      /\ ints' = Append(ints, Stored(i))
                      /\ i' = i + 1
                      /\ UNCHANGED <<phase, sig, offset, args, arg_storage,
                                     floats, stack, mstack, saved, indices>>

\* The loop of dyfn_prep_call, on the values do_ffi_call points it at.
PrepArg == /\ phase = "prep"
           /\ i <= Len(sig)
           /\ \/ /\ IsFloat(i) /\ InRegister(Len(floats), FloatRegs)
                 /\ floats' = Append(floats, Stored(i))
                 /\ UNCHANGED <<ints, stack>>
              \/ /\ ~IsFloat(i) /\ InRegister(Len(ints), IntRegs)
                 /\ ints' = Append(ints, Stored(i))
                 /\ UNCHANGED <<floats, stack>>
              \/ /\ ~InRegister(Len(IF IsFloat(i) THEN floats ELSE ints),
                                IF IsFloat(i) THEN FloatRegs ELSE IntRegs)
                 /\ stack' = Append(stack, Stored(i))
                 /\ UNCHANGED <<ints, floats>>
           /\ i' = i + 1
           /\ UNCHANGED <<phase, sig, offset, args, arg_storage, mstack, saved,
                          indices>>

\* dyfn_call begins with a word of padding if the number of words is odd.
PrepDone == /\ phase = "prep"
            /\ i > Len(sig)
            /\ phase' = "push"
            /\ i' = Len(stack)
            /\ mstack' = IF Len(stack) % 2 = 1 THEN <<Pad>> ELSE <<>>
            /\ UNCHANGED <<sig, offset, args, arg_storage, ints, floats, stack,
                           saved, indices>>

\* Pushed from the first to the last.
PushArg__Ascending == /\ phase = "push"
                      /\ i > 0
                      /\ mstack' = <<stack[Len(stack) - i + 1]>> \o mstack
                      /\ i' = i - 1
                      /\ UNCHANGED <<phase, sig, offset, args, arg_storage,
                                     ints, floats, stack, saved, indices>>

\* The loop of dyfn_call: from the last word to the first, which is on top.
PushArg == /\ phase = "push"
           /\ i > 0
           /\ mstack' = <<stack[i]>> \o mstack
           /\ i' = i - 1
           /\ UNCHANGED <<phase, sig, offset, args, arg_storage, ints, floats,
                          stack, saved, indices>>

CallFunction == /\ phase = "push"
                /\ i = 0
                /\ phase' = "callee"
                /\ UNCHANGED <<sig, i, offset, args, arg_storage, ints, floats,
                               stack, mstack, saved, indices>>

\* The loop of dyfn_closure_dispatch.
ExtractArg ==
  /\ phase = "extract"
  /\ i <= Len(sig)
  /\ \/ /\ IsFloat(i) /\ InRegister(float_idx, FloatRegs)
        /\ StoreArg(saved.floats[float_idx + 1])
        /\ float_idx' = float_idx + 1
        /\ UNCHANGED <<int_idx, stack_idx>>
     \/ /\ ~IsFloat(i) /\ InRegister(int_idx, IntRegs)
        /\ StoreArg(saved.ints[int_idx + 1])
        /\ int_idx' = int_idx + 1
        /\ UNCHANGED <<float_idx, stack_idx>>
     \/ /\ ~InRegister(IF IsFloat(i) THEN float_idx ELSE int_idx,
                       IF IsFloat(i) THEN FloatRegs ELSE IntRegs)
        /\ StoreArg(saved.stack[stack_idx + 1])
        /\ stack_idx' = stack_idx + 1
        /\ UNCHANGED <<int_idx, float_idx>>
  /\ UNCHANGED <<phase, sig, ints, floats, stack, mstack, saved>>

\* The worker signals CALLBACK, and pbox_dispatch_callback finds every offset
\* in bounds.
ExtractDone == /\ phase = "extract"
               /\ i > Len(sig)
               /\ \A n \in DOMAIN args : args[n] < ArgStorage
               /\ phase' = "host"
               /\ UNCHANGED <<sig, i, offset, args, arg_storage, ints, floats,
                              stack, mstack, saved, indices>>

\* The function of the sandbox, or of the host, has its arguments.
Arrived == phase \in {"callee", "host"} /\ UNCHANGED marshalVars

MarshalNext == \/ PackArg \/ PackDone \/ PrepArg \/ PrepDone \/ PushArg
               \/ CallFunction \/ ExtractArg \/ ExtractDone
               \/ Arrived

MarshalSpec == MarshalInit /\ [][MarshalNext]_marshalVars

----------------------------------------------------------------------------
(******************************* Properties ********************************)

\* The counters are those of the loops, and no register image is longer than
\* the register file.
MarshalTypeOK ==
  /\ phase \in Phases
  /\ sig \in Signatures
  /\ i \in 0..(MaxArgs + 1)
  /\ args \in Seq(Nat) /\ offset \in Nat
  /\ DOMAIN arg_storage = 0..(ArgStorage - 1)
  /\ Len(ints) <= IntRegs /\ Len(floats) <= FloatRegs
  /\ Len(mstack) <= Len(stack) + 1
  /\ int_idx <= IntRegs /\ float_idx <= FloatRegs

\* No loop writes, or reads, past the end of an array: arg_storage holds what
\* any signature needs, and four stack words are enough for the arguments
\* that find no register, however the classes are mixed.
NoOverrun == /\ offset <= ArgStorage
             /\ Len(stack) <= StackSlots
             /\ stack_idx <= StackSlots

\* The sandboxed function finds every argument, whole, where the calling
\* convention puts it, and the stack aligned to two words.
CalleeGetsArgs ==
  phase = "callee" => /\ \A n \in All : Passed(n) = BytesOf(n)
                      /\ Len(mstack) % 2 = 0

\* The host function gets the arguments the sandboxed code passed to the
\* closure; the check of the offsets never stops a callback.
HostGetsArgs ==
  /\ phase = "host" => \A n \in All : Stored(n) = BytesOf(n)
  /\ phase = "extract" => \A n \in DOMAIN args : args[n] < ArgStorage

\* Both ways.
ArgsArrive == CalleeGetsArgs /\ HostGetsArgs
=============================================================================
