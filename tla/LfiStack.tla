------------------------------ MODULE LfiStack ------------------------------
(***************************************************************************)
(* The stack of a sandbox of the LFI backend, which the sandbox and the    *)
(* host share.  Every context of the runtime has one.  The host moves its  *)
(* stack pointer down for the parameters of a CallContext (stack_push) and *)
(* for the arguments that do not fit into registers (stage_stack_args); a  *)
(* sandboxed function has its own frame below, and the host functions it   *)
(* calls back use the stack again below that.  Nothing but the pointer     *)
(* says what is in use, so everybody has to leave it as it was found.      *)
(*                                                                         *)
(* A frame is what one scope of the host program or one call has on the    *)
(* stack: the pointer it found, and the parts it took, as [lo, hi).        *)
(***************************************************************************)
EXTENDS Integers, Sequences, SequencesExt

CONSTANTS
  Contexts,    \* the runtime's contexts
  StackTop,    \* the stack pointer a context starts with
  ParamTypes,  \* [size, align] of the types passed with in, out and inout
  Signatures,  \* [ints, floats], the arguments of the functions called
  IntRegs,     \* max_int_reg_args: 6 on x86-64, 8 on AArch64
  FloatRegs,   \* max_float_reg_args
  CalleeSizes  \* what a function has on the stack when it calls back

ASSUME StackAssumption ==
  /\ StackTop \in Int /\ IntRegs \in Nat /\ FloatRegs \in Nat
  /\ ParamTypes \subseteq [size : Nat \ {0}, align : Nat \ {0}]
  /\ Signatures \subseteq [ints : Nat, floats : Nat]
  /\ CalleeSizes \subseteq Nat \ {0}

VARIABLES sp,     \* of each context: the stack pointer in its LFIRegs
          frames  \* of each context: its frames, innermost last

stackVars == <<sp, frames>>

StackInit == /\ sp = [c \in Contexts |-> StackTop]
             /\ frames = [c \in Contexts |-> <<>>]

Part(lo, size) == [lo |-> lo, hi |-> lo + size]

Frame(kind, saved, parts) == [kind |-> kind, saved |-> saved, parts |-> parts]

\* The kind of the innermost frame; "none" is a host that uses no stack.
Top(c) == IF frames[c] = <<>> THEN "none" ELSE Last(frames[c]).kind

Enter(c, frame, low) == /\ frames' = [frames EXCEPT ![c] = Append(@, frame)]
                        /\ sp' = [sp EXCEPT ![c] = low]

Leave(c, low) == /\ frames' = [frames EXCEPT ![c] = Front(@)]
                 /\ sp' = [sp EXCEPT ![c] = low]

----------------------------------------------------------------------------
\* A double underscore marks a deliberately wrong variant of the operator
\* that follows, which a property is validated with.

\* x & ~(a - 1)
RoundDown(x, a) == x - (x % a)

\* The room is taken after the alignment, which undoes it.
Pushed__AlignFirst(low, p) == RoundDown(low, p.align)

\* stack_push
Pushed(low, p) == RoundDown(low - p.size, p.align)

\* marshal_args_lfi: how many words are left over by the registers.
Spilled(sig) == LET Over(n, regs) == IF n > regs THEN n - regs ELSE 0
                IN  Over(sig.ints, IntRegs) + Over(sig.floats, FloatRegs)

\* stage_stack_args: the pointer with the words left over at it.
Staged(low, n) == IF n = 0 THEN low ELSE RoundDown(low - 8 * n, 16)

\* CallContext: only the pointer is remembered.
OpenContext(c) == Enter(c, Frame("context", sp[c], {}), sp[c])

\* in, out and inout of the innermost context.  On an outer one the room
\* would be given back with the inner one.
Push(c, p) ==
  /\ Top(c) = "context"
  /\ LET low == Pushed(sp[c], p)  last == Len(frames[c])
     IN  /\ frames' = [frames EXCEPT ![c][last].parts =
                         @ \cup {Part(low, p.size)}]
         /\ sp' = [sp EXCEPT ![c] = low]

\* ~CallContext: the copy-backs read the parts, then the pointer goes back.
CloseContext(c) == /\ Top(c) = "context"
                   /\ Leave(c, Last(frames[c]).saved)

\* call_ptr, up to the trampoline.
Call(c, sig) ==
  LET n == Spilled(sig)  low == Staged(sp[c], n)
  IN  Enter(c, Frame("call", sp[c], IF n = 0 THEN {} ELSE {Part(low, 8 * n)}),
            low)

\* The trampoline leaves the staged value in the registers.
Return__Staged(c) == /\ Top(c) = "call"
                     /\ Leave(c, sp[c])

\* call_ptr, after the trampoline.
Return(c) == /\ Top(c) = "call"
             /\ Leave(c, Last(frames[c]).saved)

\* The function calls a host function; its frame, aligned, is on the stack.
CallBack(c, size) ==
  /\ Top(c) = "call"
  /\ LET low == RoundDown(sp[c] - size, 16)
     IN  Enter(c, Frame("callback", sp[c], {Part(low, sp[c] - low)}), low)

\* It goes on with the pointer it is given back, and pops its own frame.
EndCallBack(c) ==
  /\ Top(c) = "callback"
  /\ LET p == CHOOSE p \in Last(frames[c]).parts : TRUE
     IN  Leave(c, sp[c] + (p.hi - p.lo))

StackStep(c) == \/ /\ Top(c) # "call"
                   /\ \/ OpenContext(c)
                      \/ \E sig \in Signatures : Call(c, sig)
                \/ \E p \in ParamTypes : Push(c, p)
                \/ CloseContext(c) \/ Return(c) \/ EndCallBack(c)
                \/ \E size \in CalleeSizes : CallBack(c, size)

StackNext == \E c \in Contexts : StackStep(c)

StackSpec == StackInit /\ [][StackNext]_stackVars

----------------------------------------------------------------------------
(******************************* Properties ********************************)

Parts == [lo : Int, hi : Int]

StackTypeOK ==
  /\ sp \in [Contexts -> Int]
  /\ frames \in [Contexts -> Seq([kind : {"context", "call", "callback"},
                                  saved : Int, parts : SUBSET Parts])]

\* Where the pointer is when control is with the frame.
Low(f, at) == IF f.parts = {} THEN at = f.saved
              ELSE /\ \E p \in f.parts : p.lo = at
                   /\ \A p \in f.parts : at <= p.lo

\* Whoever goes on finds the pointer where it was left: a function that
\* called back at its own frame, a function that was called at its spilled
\* arguments, a context at the last of its parameters, and the host, with
\* nothing open, at the top of the stack.
StackBalanced ==
  \A c \in Contexts : IF frames[c] = <<>> THEN sp[c] = StackTop
                                          ELSE Low(Last(frames[c]), sp[c])

\* No two parameters, spilled arguments or functions' frames overlap, and all
\* of them are on the side of the pointer that nobody else writes.
PartsApart ==
  \A c \in Contexts : \A i, j \in DOMAIN frames[c] :
    \A p \in frames[c][i].parts, q \in frames[c][j].parts :
      /\ sp[c] <= p.lo /\ p.lo < p.hi /\ p.hi <= StackTop
      /\ (i = j /\ p = q) \/ p.hi <= q.lo \/ q.hi <= p.lo
=============================================================================
