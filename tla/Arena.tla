------------------------------- MODULE Arena -------------------------------
(***************************************************************************)
(* In, out and inout parameters of the process backend.  Each host thread  *)
(* has an arena, memory mapped at the same address on both sides, from     *)
(* which pbox_idmem_alloc cuts aligned pieces; a CallContext places the    *)
(* parameters of a call there, copies the outputs back once after the call *)
(* (finalize), and gives the whole arena back when it is destroyed.        *)
(*                                                                         *)
(* The arena belongs to one thread, so this is a sequential program; what  *)
(* is hard are the sequences of legal calls, the pieces that do not fit    *)
(* and the exception that unwinds the contexts then.                       *)
(***************************************************************************)
EXTENDS Naturals, Sequences, SequencesExt, FiniteSetsExt

CONSTANTS
  HostVars,      \* variables of the host program that are passed
  SizeOf,        \* the size of their types
  Vals,          \* what a variable may hold
  Initial,       \* what it holds at first
  ArenaSize,     \* PBOX_IDMEM_DEFAULT_SIZE
  Align,         \* pieces are multiples of this size (16)
  Word,          \* size_t is counted modulo this (2^64)
  MaxContexts    \* bound on the contexts alive at a time

ASSUME ArenaAssumption ==
         /\ ArenaSize \in Nat /\ Align \in Nat \ {0} /\ Word \in Nat
         /\ MaxContexts \in Nat
         /\ SizeOf \in [HostVars -> Nat \ {0}]
         /\ Word % Align = 0
         /\ \A v \in HostVars : ArenaSize + SizeOf[v] + Align < Word

ASSUME InitialAssumption == Initial \in Vals

Torn == "torn"        \* a value whose bytes come from different writes
Bytes == 0..(ArenaSize - 1)
Kinds == {"in", "out", "inout"}

VARIABLES
  mapped,   \* idmem_base # NULL: the arena is there
  idmem_offset,
  mem,      \* the bytes of the arena
  host,     \* the host's variables
  ctxs,     \* the contexts alive, innermost last
  stage,    \* what the thread does
  cur,      \* the context of the call under way
  wrote     \* history: what the sandboxed function stored for each variable

arenaVars == <<mapped, idmem_offset, mem, host, ctxs, stage, cur, wrote>>

NewCtx == [copybacks |-> <<>>, params |-> <<>>, finalized |-> FALSE]

\* The region comes from a memfd, which is all zero.
ArenaInit == /\ mapped = FALSE /\ idmem_offset = 0
             /\ mem = [b \in Bytes |-> Initial]
             /\ host = [v \in HostVars |-> Initial]
             /\ ctxs = <<>>
             /\ stage = "ready" /\ cur = 0
             /\ wrote = [v \in HostVars |-> Initial]

----------------------------------------------------------------------------
\* A double underscore marks a deliberately wrong variant of the operator
\* that follows, which a property is validated with.

Piece(ptr, v) == ptr..(ptr + SizeOf[v] - 1)

\* *ptr = x, for the type of v.
Store(m, ptr, v, x) ==
  [b \in Bytes |-> IF b \in Piece(ptr, v) THEN x ELSE m[b]]

\* *ptr, for the type of v.
Load(m, ptr, v) == LET xs == {m[b] : b \in Piece(ptr, v)}
                   IN  IF \E x \in xs : xs = {x} THEN CHOOSE x \in xs : TRUE
                                                 ELSE Torn

\* Rounded down.
RoundUp__Down(n) == (n \div Align) * Align

\* (size + 15) & ~15, in the arithmetic of size_t.
RoundUp(n) == (((n + Align - 1) % Word) \div Align) * Align

\* Only the start of the piece is compared.
HasRoom__Start(v) == idmem_offset < ArenaSize

\* pbox_idmem_alloc has room for a variable of the type of v.
HasRoom(v) == (idmem_offset + RoundUp(SizeOf[v])) % Word <= ArenaSize

----------------------------------------------------------------------------
(****************************** CallContext ********************************)

NewContext == /\ stage = "ready"
              /\ Len(ctxs) < MaxContexts
              /\ ctxs' = Append(ctxs, NewCtx)
              /\ UNCHANGED <<mapped, idmem_offset, mem, host, stage, cur,
                             wrote>>

\* Where a parameter can be made: for the first call with a context, or for
\* one that follows.
Ready(c, v) == /\ stage = "ready"
               /\ c \in DOMAIN ctxs
               /\ \A i \in DOMAIN ctxs[c].params : ctxs[c].params[i].var # v

\* The context with a parameter at the offset and, of an output, its copy
\* back.
WithParam(x, k, v) ==
  [params    |-> Append(x.params, [kind |-> k, var |-> v, ptr |-> idmem_offset,
                                   val |-> host[v]]),
   copybacks |-> IF k = "in" THEN x.copybacks
                 ELSE Append(x.copybacks, [var |-> v, ptr |-> idmem_offset]),
   finalized |-> x.finalized]

\* An inout parameter is not copied in.
Param__InOnly(c, k, v) ==
  /\ Ready(c, v)
  /\ HasRoom(v)
  /\ mapped' = TRUE
  /\ idmem_offset' = idmem_offset + RoundUp(SizeOf[v])
  /\ mem' = IF k = "in" THEN Store(mem, idmem_offset, v, host[v]) ELSE mem
  /\ ctxs' = [ctxs EXCEPT ![c] = WithParam(@, k, v)]
  /\ UNCHANGED <<host, stage, cur, wrote>>

\* in, out and inout: a piece of the arena, the value copied into it, the
\* copy back registered.
Param(c, k, v) ==
  /\ Ready(c, v)
  /\ HasRoom(v)
  /\ mapped' = TRUE
  /\ idmem_offset' = idmem_offset + RoundUp(SizeOf[v])
  /\ mem' = IF k = "out" THEN mem ELSE Store(mem, idmem_offset, v, host[v])
  /\ ctxs' = [ctxs EXCEPT ![c] = WithParam(@, k, v)]
  /\ UNCHANGED <<host, stage, cur, wrote>>

\* The region cannot be mapped, or the piece does not fit: runtime_error.
\* The call expression is abandoned; the exception may be caught at once.
ParamThrows(c, v) == /\ Ready(c, v)
                     /\ \/ ~mapped /\ UNCHANGED mapped
                        \/ ~HasRoom(v) /\ mapped' = TRUE
                     /\ ctxs' = [ctxs EXCEPT ![c].params = <<>>]
                     /\ stage' \in {"ready", "throwing"}
                     /\ UNCHANGED <<idmem_offset, mem, host, cur, wrote>>

\* The copy backs of a context, in the order they were registered: what the
\* last one for a variable reads stays there.
CopyBack(cbs) ==
  [v \in HostVars |->
     LET mine == {i \in DOMAIN cbs : cbs[i].var = v}
     IN  IF mine = {} THEN host[v] ELSE Load(mem, cbs[Max(mine)].ptr, v)]

\* finalize: idempotent.
Finalized(c) == IF ctxs[c].finalized THEN host ELSE CopyBack(ctxs[c].copybacks)

\* Sandbox::call(ctx, ...): the parameters are passed ...
CallBegins(c) == /\ stage = "ready"
                 /\ c \in DOMAIN ctxs
                 /\ ctxs[c].params # <<>>
                 /\ stage' = "running"
                 /\ cur' = c
                 /\ UNCHANGED <<mapped, idmem_offset, mem, host, ctxs, wrote>>

Params == {ctxs[cur].params[i] : i \in DOMAIN ctxs[cur].params}
Outs   == {p \in Params : p.kind # "in"}

\* ... the sandboxed function stores its outputs ...
FunctionReturns(out) ==
  /\ stage = "running"
  /\ mem' = [b \in Bytes |->
               IF \E p \in Outs : b \in Piece(p.ptr, p.var)
               THEN out[(CHOOSE p \in Outs : b \in Piece(p.ptr, p.var)).var]
               ELSE mem[b]]
  /\ wrote' = [v \in HostVars |-> IF \E p \in Outs : p.var = v
                                  THEN out[v] ELSE wrote[v]]
  /\ stage' = "finalize"
  /\ UNCHANGED <<mapped, idmem_offset, host, ctxs, cur>>

\* The copies are left to the destructor.
CallFinalizes__Deferred == /\ stage = "finalize"
                           /\ stage' = "returned"
                           /\ UNCHANGED <<mapped, idmem_offset, mem, host,
                                          ctxs, cur, wrote>>

\* ... and they are copied back before the caller goes on.
CallFinalizes == /\ stage = "finalize"
                 /\ host' = Finalized(cur)
                 /\ ctxs' = [ctxs EXCEPT ![cur].finalized = TRUE]
                 /\ stage' = "returned"
                 /\ UNCHANGED <<mapped, idmem_offset, mem, cur, wrote>>

CallReturns == /\ stage = "returned"
               /\ ctxs' = [ctxs EXCEPT ![cur].params = <<>>]
               /\ wrote' = [v \in HostVars |-> Initial]
               /\ stage' = "ready"
               /\ cur' = 0
               /\ UNCHANGED <<mapped, idmem_offset, mem, host>>

\* A context that has been finalized has nothing more to do.
Destroy__OnlyOnce ==
  /\ stage \in {"ready", "throwing"}
  /\ ctxs # <<>>
  /\ host' = Finalized(Len(ctxs))
  /\ idmem_offset' = IF ctxs[Len(ctxs)].finalized THEN idmem_offset ELSE 0
  /\ ctxs' = Front(ctxs)
  /\ stage' \in IF ctxs' = <<>> THEN {"ready"} ELSE {"ready", stage}
  /\ UNCHANGED <<mapped, mem, cur, wrote>>

\* Before there is an arena the offset is 0 anyway.
IdmemReset == idmem_offset' = 0

\* ~CallContext: of the innermost one, at the end of its scope or because an
\* exception goes through it, which is caught outside some of the contexts.
\* The outputs are copied back even if there was no call.
Destroy == /\ stage \in {"ready", "throwing"}
           /\ ctxs # <<>>
           /\ host' = Finalized(Len(ctxs))
           /\ IdmemReset
           /\ ctxs' = Front(ctxs)
           /\ stage' \in IF ctxs' = <<>> THEN {"ready"} ELSE {"ready", stage}
           /\ UNCHANGED <<mapped, mem, cur, wrote>>

----------------------------------------------------------------------------
ArenaNext == \/ NewContext
             \/ \E c \in 1..MaxContexts :
                  \/ \E v \in HostVars : \/ \E k \in Kinds : Param(c, k, v)
                                         \/ ParamThrows(c, v)
                  \/ CallBegins(c)
             \/ \E out \in [HostVars -> Vals] : FunctionReturns(out)
             \/ CallFinalizes \/ CallReturns
             \/ Destroy

ArenaSpec == ArenaInit /\ [][ArenaNext]_arenaVars

----------------------------------------------------------------------------
(******************************* Properties ********************************)

Copybacks  == [var : HostVars, ptr : 0..ArenaSize]
Parameters == [kind : Kinds, var : HostVars, ptr : 0..ArenaSize,
               val : Vals \cup {Torn}]

ArenaTypeOK ==
  /\ mapped \in BOOLEAN /\ idmem_offset \in 0..ArenaSize
  /\ mem \in [Bytes -> Vals \cup {Torn}]
  /\ host \in [HostVars -> Vals \cup {Torn}]
  /\ ctxs \in Seq([copybacks : Seq(Copybacks), params : Seq(Parameters),
                   finalized : BOOLEAN])
  /\ Len(ctxs) <= MaxContexts
  /\ stage \in {"ready", "throwing", "running", "finalize", "returned"}
  /\ cur \in 0..MaxContexts
  /\ wrote \in [HostVars -> Vals]

\* The parameters of a call do not overlap, whatever has been allocated,
\* thrown and reset before, and lie inside the arena.
ParamsApart ==
  \A c \in DOMAIN ctxs : \A i, j \in DOMAIN ctxs[c].params :
    LET p == ctxs[c].params[i]  q == ctxs[c].params[j]
    IN  /\ p.ptr + SizeOf[p.var] <= idmem_offset /\ idmem_offset <= ArenaSize
        /\ i # j => Piece(p.ptr, p.var) \cap Piece(q.ptr, q.var) = {}

\* The sandboxed function finds in the arena what the host passed with in
\* and inout, in the first call with a context and in later ones, whatever
\* earlier parameters, calls and contexts have left there.
FunctionSeesInputs ==
  stage = "running" =>
    \A p \in Params : p.kind # "out" => Load(mem, p.ptr, p.var) = p.val

\* The first call with a context brings the outputs back: the step that ends it
\* leaves in the host's variables what the function stored for the out and
\* inout parameters, although it is the context that copies, by what it has
\* registered.
FirstCallDelivers ==
  [][stage = "finalize" /\ ~ctxs[cur].finalized =>
       \A p \in Outs : host'[p.var] = wrote[p.var]]_arenaVars

\* Every call does, whether or not the context was used before, as in the
\* example of the repository's README.
OutsDelivered ==
  stage = "returned" => \A p \in Outs : host[p.var] = wrote[p.var]

\* No context alive, nothing of the arena in use: what fits once fits again,
\* whatever was thrown in between.
ArenaReclaimed == ctxs = <<>> => idmem_offset = 0
=============================================================================
