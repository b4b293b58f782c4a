---------------------------- MODULE IdentityMap ----------------------------
(***************************************************************************)
(* Memory that has the same address in the host and in the sandbox:        *)
(* pbox_mmap_identity and pbox_munmap_identity (src/src/pbox/pbox.c).      *)
(* The kernel picks an address in the host and the sandbox is asked to map *)
(* the same memfd there; if that is taken, both lists of mappings are read *)
(* and a common free address is searched (src/src/pbox/pbox_procmaps.c).   *)
(* Other threads of both programs map and unmap memory all the time, so    *)
(* what was free when it was looked at need not be when it is mapped.      *)
(*                                                                         *)
(* Addresses count pages.  A thread has one region at a time, and its name *)
(* stands for the memfd of that region.                                    *)
(***************************************************************************)
EXTENDS HostThreads, Integers, FiniteSets, FiniteSetsExt, Sequences

CONSTANTS
  NumPages,    \* of each address space
  Lengths,     \* of regions, in pages
  Candidates,  \* the addresses that are searched, in their order
  MaxOther     \* bound on the pages of each space in other use

ASSUME SizesAssumption == /\ NumPages \in Nat /\ MaxOther \in Nat
                          /\ Lengths \subseteq 1..NumPages

Pages == 0..(NumPages - 1)
Free  == "free"
Other == "other"     \* mapped by the program for something else
NULL  == -1          \* also MAP_FAILED

ASSUME CandidatesAssumption == Candidates \in Seq(Pages)

ASSUME ThreadsAssumption == {Free, Other} \cap Threads = {}

VARIABLES
  hmap, smap,  \* page of the host, of the sandbox -> what is mapped there
  pc,          \* thread -> where it is
  len,         \* thread -> length
  addr,        \* thread -> host_addr, later common_addr
  saddr,       \* thread -> sandbox_addr
  seen         \* thread -> the pages in use according to /proc/<pid>/maps

vars == <<hmap, smap, pc, len, addr, saddr, seen>>

Init == /\ hmap = [p \in Pages |-> Free]
        /\ smap = [p \in Pages |-> Free]
        /\ pc = [t \in Threads |-> "idle"]
        /\ len = [t \in Threads |-> 0]
        /\ addr = [t \in Threads |-> NULL]
        /\ saddr = [t \in Threads |-> NULL]
        /\ seen = [t \in Threads |-> {}]

Goto(t, l) == pc' = [pc EXCEPT ![t] = l]

\* As in Channel, a double underscore marks a deliberately wrong variant of
\* the operator that follows, which a property is validated with.

----------------------------------------------------------------------------
(**************************** Address spaces *******************************)

Extent(a, n) == a..(a + n - 1)

Fits(m, a, n) == /\ Extent(a, n) \subseteq Pages
                 /\ \A p \in Extent(a, n) : m[p] = Free

Put(m, a, n, x) == [p \in Pages |-> IF p \in Extent(a, n) THEN x ELSE m[p]]

Munmap(m, a, n) == Put(m, a, n, Free)

\* mmap(NULL, ...): anywhere, or not at all.
MmapAny(m, n, t) == {[map |-> Put(m, a, n, t), at |-> a] :
                       a \in {b \in Pages : Fits(m, b, n)}}
                    \cup {[map |-> m, at |-> NULL]}

\* MAP_FIXED, which replaces what it finds.
MmapAt__Replace(m, a, n, t) == {[map |-> Put(m, a, n, t), at |-> a]}

\* MAP_FIXED_NOREPLACE: there or not at all; a kernel that does not know the
\* flag takes the address for a hint.
MmapAt(m, a, n, t) ==
  IF Fits(m, a, n)
  THEN {[map |-> Put(m, a, n, t), at |-> a], [map |-> m, at |-> NULL]}
  ELSE MmapAny(m, n, t)

\* The rest of the two programs.
OtherMaps(m) == {Put(m, p, 1, Other) : p \in {q \in Pages : m[q] = Free}}

OtherUnmaps(m) == {Munmap(m, p, 1) : p \in {q \in Pages : m[q] = Other}}

OtherChanges(m) == {x \in OtherMaps(m) \cup OtherUnmaps(m) :
                      Cardinality({p \in Pages : x[p] = Other}) <= MaxOther}

HostChanges == /\ hmap' \in OtherChanges(hmap)
               /\ UNCHANGED <<smap, pc, len, addr, saddr, seen>>

SandboxChanges == /\ smap' \in OtherChanges(smap)
                  /\ UNCHANGED <<hmap, pc, len, addr, saddr, seen>>

----------------------------------------------------------------------------
(*************************** pbox_mmap_identity ****************************)

\* The answer is NULL, or the region is gone.
Forget(t) == /\ Goto(t, "idle")
             /\ len' = [len EXCEPT ![t] = 0]
             /\ addr' = [addr EXCEPT ![t] = NULL]
             /\ saddr' = [saddr EXCEPT ![t] = NULL]
             /\ seen' = [seen EXCEPT ![t] = {}]

\* The memfd is mapped in the host.
HostMaps(t, n) ==
  /\ pc[t] = "idle"
  /\ \E r \in MmapAny(hmap, n, t) :
       /\ r.at # NULL     \* else NULL is returned and nothing has changed
       /\ hmap' = r.map
       /\ addr' = [addr EXCEPT ![t] = r.at]
  /\ len' = [len EXCEPT ![t] = n]
  /\ Goto(t, "send")
  /\ UNCHANGED <<smap, saddr, seen>>

\* There is no channel, or the descriptor does not arrive.
SendFails(t) == /\ pc[t] = "send"
                /\ hmap' = Munmap(hmap, addr[t], len[t])
                /\ Forget(t)
                /\ UNCHANGED smap

\* Any address the sandbox chose will do.
SandboxMaps__Anywhere(t) ==
  /\ pc[t] = "send"
  /\ \E r \in MmapAt(smap, addr[t], len[t], t) :
       /\ smap' = r.map
       /\ saddr' = [saddr EXCEPT ![t] = r.at]
       /\ Goto(t, IF r.at # NULL THEN "have" ELSE "drop_sandbox")
  /\ UNCHANGED <<hmap, len, addr, seen>>

\* mmap is called in the sandbox for the address of the host.
SandboxMaps(t) ==
  /\ pc[t] = "send"
  /\ \E r \in MmapAt(smap, addr[t], len[t], t) :
       /\ smap' = r.map
       /\ saddr' = [saddr EXCEPT ![t] = r.at]
       /\ Goto(t, IF r.at = addr[t] THEN "have" ELSE "drop_sandbox")
  /\ UNCHANGED <<hmap, len, addr, seen>>

\* A mapping at a wrong address is left in the sandbox.
DropsSandbox__Kept(t) ==
  /\ pc[t] \in {"drop_sandbox", "drop_sandbox2"}
  /\ saddr' = [saddr EXCEPT ![t] = NULL]
  /\ Goto(t, IF pc[t] = "drop_sandbox" THEN "drop_host" ELSE "drop_host2")
  /\ UNCHANGED <<hmap, smap, len, addr, seen>>

\* It is not the same: whatever the sandbox mapped is given up ...
DropsSandbox(t) ==
  /\ pc[t] \in {"drop_sandbox", "drop_sandbox2"}
  /\ smap' = IF saddr[t] = NULL THEN smap ELSE Munmap(smap, saddr[t], len[t])
  /\ saddr' = [saddr EXCEPT ![t] = NULL]
  /\ Goto(t, IF pc[t] = "drop_sandbox" THEN "drop_host" ELSE "drop_host2")
  /\ UNCHANGED <<hmap, len, addr, seen>>

\* ... and the mapping of the host: the first time the search follows.
DropsHost(t) == /\ pc[t] = "drop_host"
                /\ hmap' = Munmap(hmap, addr[t], len[t])
                /\ addr' = [addr EXCEPT ![t] = NULL]
                /\ Goto(t, "host_maps")
                /\ UNCHANGED <<smap, len, saddr, seen>>

DropsHostAgain(t) == /\ pc[t] = "drop_host2"
                     /\ hmap' = Munmap(hmap, addr[t], len[t])
                     /\ Forget(t)
                     /\ UNCHANGED smap

----------------------------------------------------------------------------
(********************** pbox_find_common_free_address **********************)

\* parse_proc_maps: the regions <<start, end>>.
Regions(m) == {<<p, p + 1>> : p \in {q \in Pages : m[q] # Free}}

InUse(m) == {p \in Pages : m[p] # Free}

\* The comparison with the end is off by one.
RangeOverlaps(a, n, regions) ==
  \E r \in regions : a < r[2] /\ a + n > r[1]

\* The first candidate that overlaps no region of either program.
FirstFree(n, regions) ==
  LET good == {i \in DOMAIN Candidates :
                 ~RangeOverlaps(Candidates[i], n, regions)}
  IN  IF good = {} THEN NULL ELSE Candidates[Min(good)]

\* /proc/self/maps is read ...
ReadsHostMaps(t) == /\ pc[t] = "host_maps"
                    /\ seen' = [seen EXCEPT ![t] = InUse(hmap)]
                    /\ Goto(t, "sandbox_maps")
                    /\ UNCHANGED <<hmap, smap, len, addr, saddr>>

\* The answer NULL is not checked.
Searches__Unchecked(t) ==
  /\ pc[t] = "sandbox_maps"
  /\ seen' = [seen EXCEPT ![t] = @ \cup InUse(smap)]
  /\ addr' = [addr EXCEPT ![t] =
                FirstFree(len[t], {<<p, p + 1>> : p \in seen[t]}
                                  \cup Regions(smap))]
  /\ Goto(t, "host_fixed")
  /\ UNCHANGED <<hmap, smap, len, saddr>>

\* ... then that of the sandbox, and the search runs over what they said.
Searches(t) ==
  /\ pc[t] = "sandbox_maps"
  /\ LET found == FirstFree(len[t], {<<p, p + 1>> : p \in seen[t]}
                                    \cup Regions(smap))
     IN  IF found = NULL
         THEN Forget(t)
         ELSE /\ seen' = [seen EXCEPT ![t] = @ \cup InUse(smap)]
              /\ addr' = [addr EXCEPT ![t] = found]
              /\ Goto(t, "host_fixed")
              /\ UNCHANGED <<len, saddr>>
  /\ UNCHANGED <<hmap, smap>>

\* A file of /proc cannot be read.
SearchFails(t) == /\ pc[t] \in {"host_maps", "sandbox_maps"}
                  /\ Forget(t)
                  /\ UNCHANGED <<hmap, smap>>

----------------------------------------------------------------------------
(************************** The second attempt *****************************)

\* In the host first, where a wrong address is given up in the next call.
HostMapsFixed(t) ==
  /\ pc[t] = "host_fixed"
  /\ \E r \in MmapAt(hmap, addr[t], len[t], t) :
       /\ hmap' = r.map
       /\ addr' = [addr EXCEPT ![t] = r.at]
       /\ \/ r.at = addr[t] /\ Goto(t, "sandbox_fixed")
          \/ r.at # addr[t] /\ r.at # NULL /\ Goto(t, "drop_host2")
          \/ r.at = NULL /\ Goto(t, "no_region")
  /\ seen' = [seen EXCEPT ![t] = {}]
  /\ UNCHANGED <<smap, len, saddr>>

\* NULL: only the memfd is left to close.
GivesUp(t) == /\ pc[t] = "no_region"
              /\ Forget(t)
              /\ UNCHANGED <<hmap, smap>>

SandboxMapsFixed(t) ==
  /\ pc[t] = "sandbox_fixed"
  /\ \E r \in MmapAt(smap, addr[t], len[t], t) :
       /\ smap' = r.map
       /\ saddr' = [saddr EXCEPT ![t] = r.at]
       /\ Goto(t, IF r.at = addr[t] THEN "have" ELSE "drop_sandbox2")
  /\ UNCHANGED <<hmap, len, addr, seen>>

----------------------------------------------------------------------------
(****************** pbox_munmap_identity, channel_destructor ***************)

\* munmap is called in the sandbox, then in the host.
UnmapsSandbox(t) == /\ pc[t] = "have"
                    /\ smap' = Munmap(smap, addr[t], len[t])
                    /\ saddr' = [saddr EXCEPT ![t] = NULL]
                    /\ Goto(t, "unmap_host")
                    /\ UNCHANGED <<hmap, len, addr, seen>>

UnmapsHost(t) == /\ pc[t] = "unmap_host"
                 /\ hmap' = Munmap(hmap, addr[t], len[t])
                 /\ Forget(t)
                 /\ UNCHANGED smap

\* The thread exits with its arena: only the host's side goes.
Exits(t) == /\ pc[t] = "have"
            /\ hmap' = Munmap(hmap, addr[t], len[t])
            /\ addr' = [addr EXCEPT ![t] = NULL]
            /\ Goto(t, "gone")
            /\ UNCHANGED <<smap, len, saddr, seen>>

----------------------------------------------------------------------------
Next == \/ HostChanges \/ SandboxChanges
        \/ \E t \in Threads :
             \/ \E n \in Lengths : HostMaps(t, n)
             \/ SendFails(t) \/ SandboxMaps(t)
             \/ DropsSandbox(t) \/ DropsHost(t) \/ DropsHostAgain(t)
             \/ ReadsHostMaps(t) \/ Searches(t) \/ SearchFails(t)
             \/ HostMapsFixed(t) \/ GivesUp(t) \/ SandboxMapsFixed(t)
             \/ UnmapsSandbox(t) \/ UnmapsHost(t) \/ Exits(t)

Spec == Init /\ [][Next]_vars

----------------------------------------------------------------------------
(******************************* Properties ********************************)

\* Where a thread works on an address.
AtAddress == {"send", "drop_sandbox", "drop_host", "host_fixed",
              "sandbox_fixed", "drop_sandbox2", "drop_host2", "have",
              "unmap_host"}

TypeOK ==
  /\ hmap \in [Pages -> Threads \cup {Free, Other}]
  /\ smap \in [Pages -> Threads \cup {Free, Other}]
  /\ pc \in [Threads -> AtAddress \cup {"idle", "host_maps", "sandbox_maps",
                                        "no_region", "gone"}]
  /\ len \in [Threads -> Lengths \cup {0}]
  /\ addr \in [Threads -> Pages \cup {NULL}]
  /\ saddr \in [Threads -> Pages \cup {NULL}]
  /\ seen \in [Threads -> SUBSET Pages]
  /\ \A t \in Threads : pc[t] \in AtAddress => addr[t] # NULL

\* "The returned pointer is valid and identical in both processes" (pbox.h):
\* the pages at it are those of the region on both sides, all of them, until
\* the region is unmapped, and no page of it is mapped anywhere else.
SameAddress ==
  \A t \in Threads : pc[t] = "have" =>
    \A p \in Pages : /\ (hmap[p] = t) = (p \in Extent(addr[t], len[t]))
                     /\ (smap[p] = t) = (p \in Extent(addr[t], len[t]))

\* A pbox_mmap_identity that returns NULL, at whatever point it gave up,
\* leaves nothing mapped on either side.
NothingLeft ==
  \A t \in Threads : \A p \in Pages :
    /\ pc[t] \in {"idle", "no_region", "gone"} => hmap[p] # t
    /\ pc[t] = "idle" => smap[p] # t

\* No step of an operation unmaps or replaces what belongs to somebody else.
OthersKept ==
  [][\A t \in Threads : pc'[t] # pc[t] =>
       \A p \in Pages :
         /\ hmap[p] \notin {t, Free} => hmap'[p] = hmap[p]
         /\ smap[p] \notin {t, Free} => smap'[p] = smap[p]]_vars

=============================================================================
