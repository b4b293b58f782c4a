---------------------------- MODULE MemoryProofs ----------------------------
(***************************************************************************)
(* Memory that host and sandbox share, for all sizes: the regions that     *)
(* pbox_mmap_identity makes (IdentityMap), and the parameters that a       *)
(* thread keeps in one of them (Arena).                                    *)
(*                                                                         *)
(* Of the regions: each has the same pages in the host and the sandbox, an *)
(* attempt that gives up leaves nothing behind, and no operation touches   *)
(* what belongs to somebody else.  The invariant says at every step which  *)
(* pages of each space are those of a thread: of a region that it still    *)
(* works on, at the address that it remembers, and otherwise none.         *)
(*                                                                         *)
(* Of the arena: whatever callers do, no piece passes its end and it is    *)
(* all given back with the last context.  While a thread has one context   *)
(* at a time the invariant says that the parameters follow one another     *)
(* below the offset, so that nothing written for one reaches another, and  *)
(* that the last copy back registered for the variable of an output is     *)
(* that output's; both are needed to follow a value into the arena and     *)
(* back.                                                                   *)
(***************************************************************************)
EXTENDS IdentityMap, Arena, SequenceTheorems, WellFoundedInduction, TLAPS

HostPcs == AtAddress \ {"host_fixed"}

\* The pages of a region are those of its thread, or it has no page at all.
Mine(m, t, a, n) == \A p \in Pages : m[p] = t <=> p \in Extent(a, n)
None(m, t) == \A p \in Pages : m[p] # t

HostSide(t) ==
  /\ pc[t] \in HostPcs => Mine(hmap, t, addr[t], len[t])
  /\ pc[t] \notin HostPcs => None(hmap, t)

SandboxSide(t) ==
  /\ pc[t] = "have" => Mine(smap, t, addr[t], len[t])
  /\ pc[t] \in {"drop_sandbox", "drop_sandbox2"} =>
       IF saddr[t] = NULL THEN None(smap, t)
       ELSE Mine(smap, t, saddr[t], len[t])
  /\ pc[t] \notin {"have", "drop_sandbox", "drop_sandbox2", "gone"} =>
       None(smap, t)

Ind == TypeOK /\ \A t \in Threads : HostSide(t) /\ SandboxSide(t)

Spaces == [Pages -> Threads \cup {Free, Other}]

\* A region of the thread is new in x, where m had nothing.
Adds(m, x, t, a, n) ==
  \A p \in Pages : IF p \in Extent(a, n) THEN m[p] = Free /\ x[p] = t
                                         ELSE x[p] = m[p]

----------------------------------------------------------------------------
(***************************** Address spaces ******************************)

\* mmap without an address adds a region, or fails and changes nothing.
LEMMA MmapAnyAdds ==
  ASSUME NEW m \in Spaces, NEW n \in Int, NEW t \in Threads,
         NEW r \in MmapAny(m, n, t)
  PROVE  /\ r.map \in Spaces /\ r.at \in Pages \cup {NULL}
         /\ r.at = NULL => r.map = m
         /\ r.at # NULL => Adds(m, r.map, t, r.at, n)
<1>1. CASE r = [map |-> m, at |-> NULL]
  BY <1>1
<1>2. CASE r # [map |-> m, at |-> NULL]
  <2>1. PICK a \in Pages : /\ Fits(m, a, n)
                           /\ r = [map |-> Put(m, a, n, t), at |-> a]
    BY <1>2 DEF MmapAny
  <2>2. Put(m, a, n, t) \in Spaces /\ Adds(m, Put(m, a, n, t), t, a, n)
    BY <2>1 DEF Spaces, Put, Adds, Fits
  <2>3. a # NULL
    BY SizesAssumption DEF Pages, NULL
  <2> QED BY <2>1, <2>2, <2>3
<1> QED BY <1>1, <1>2

\* So does mmap with one.
LEMMA MmapAtAdds ==
  ASSUME NEW m \in Spaces, NEW a \in Pages, NEW n \in Int, NEW t \in Threads,
         NEW r \in MmapAt(m, a, n, t)
  PROVE  /\ r.map \in Spaces /\ r.at \in Pages \cup {NULL}
         /\ r.at = NULL => r.map = m
         /\ r.at # NULL => Adds(m, r.map, t, r.at, n)
<1>1. CASE Fits(m, a, n)
  <2>1. Put(m, a, n, t) \in Spaces /\ Adds(m, Put(m, a, n, t), t, a, n)
    BY <1>1 DEF Spaces, Put, Adds, Fits
  <2>2. a # NULL
    BY SizesAssumption DEF Pages, NULL
  <2>3. \/ r = [map |-> Put(m, a, n, t), at |-> a]
        \/ r = [map |-> m, at |-> NULL]
    BY <1>1 DEF MmapAt
  <2> QED BY <2>1, <2>2, <2>3
<1>2. CASE ~Fits(m, a, n)
  BY <1>2, MmapAnyAdds DEF MmapAt
<1> QED BY <1>1, <1>2

\* A region has a length.
LEMMA LengthIsInt ==
  ASSUME TypeOK, NEW t \in Threads
  PROVE  len[t] \in Int /\ Lengths \subseteq Int
<1>1. Lengths \subseteq Int
  BY SizesAssumption
<1>2. len[t] \in Lengths \/ len[t] = 0
  BY DEF TypeOK
<1>3. CASE len[t] \in Lengths
  BY <1>1, <1>3
<1>4. CASE len[t] = 0
  BY <1>1, <1>4
<1> QED BY <1>2, <1>3, <1>4

\* What a thread adds is its own, and all that it has if it had nothing; it
\* changes nothing for anybody else.
LEMMA AddsMine ==
  ASSUME NEW m \in Spaces, NEW x \in Spaces, NEW t \in Threads,
         NEW a, NEW n, Adds(m, x, t, a, n)
  PROVE  /\ None(m, t) => Mine(x, t, a, n)
         /\ \A u \in Threads \ {t} : \A p \in Pages : x[p] = u <=> m[p] = u
         /\ \A p \in Pages : m[p] # Free => x[p] = m[p]
<1>1. Free \notin Threads
  BY ThreadsAssumption
<1> QED BY <1>1 DEF Spaces, Adds, None, Mine

\* munmap of its region leaves a thread nothing, and everybody else what is
\* theirs.
LEMMA MunmapMine ==
  ASSUME NEW m \in Spaces, NEW t \in Threads, NEW a, NEW n, Mine(m, t, a, n)
  PROVE  /\ Munmap(m, a, n) \in Spaces /\ None(Munmap(m, a, n), t)
         /\ \A u \in Threads \ {t} : \A p \in Pages :
              Munmap(m, a, n)[p] = u <=> m[p] = u
         /\ \A p \in Pages : m[p] # t => Munmap(m, a, n)[p] = m[p]
<1>1. Free \notin Threads
  BY ThreadsAssumption
<1> QED BY <1>1 DEF Spaces, Munmap, Put, None, Mine

\* The rest of the programs maps what is free and unmaps what is its own.
LEMMA OtherKeepsMine ==
  ASSUME NEW m \in Spaces, NEW x \in OtherChanges(m)
  PROVE  /\ x \in Spaces
         /\ \A u \in Threads : \A p \in Pages : x[p] = u <=> m[p] = u
<1>1. {Free, Other} \cap Threads = {}
  BY ThreadsAssumption
<1>2. PICK q \in Pages :
        \/ m[q] = Free /\ x = Put(m, q, 1, Other)
        \/ m[q] = Other /\ x = Put(m, q, 1, Free)
  BY DEF OtherChanges, OtherMaps, OtherUnmaps, Munmap
<1>3. \A p \in Pages : p \in Extent(q, 1) <=> p = q
  BY SizesAssumption DEF Pages, Extent
<1> QED BY <1>1, <1>2, <1>3 DEF Spaces, Put

\* A set of naturals that is not empty has a smallest one.
LEMMA MinIn ==
  ASSUME NEW S, S \subseteq Nat, S # {}
  PROVE  Min(S) \in S /\ \A y \in S : Min(S) <= y
<1> DEFINE R == OpToRel(<, Nat)
<1>1. IsWellFoundedOn(R, Nat)
  BY NatLessThanWellFounded
<1>2. \A x, y \in Nat : y < x => <<y, x>> \in R
  BY Zenon DEF OpToRel
<1> HIDE DEF R
<1>3. PICK x \in S : \A y \in S : ~(<<y, x>> \in R)
  BY <1>1, WFMin
<1>4. ASSUME NEW y \in S PROVE x <= y
  <2>1. x \in Nat /\ y \in Nat
    OBVIOUS
  <2>2. ~(y < x)
    BY <1>2, <1>3, <2>1
  <2> QED BY <2>1, <2>2
<1> QED BY <1>3, <1>4 DEF Min

\* The search finds a page or nothing.
LEMMA FirstFreeIn ==
  ASSUME NEW n, NEW regions
  PROVE  FirstFree(n, regions) \in Pages \cup {NULL}
<1> DEFINE good == {i \in DOMAIN Candidates :
                      ~RangeOverlaps(Candidates[i], n, regions)}
<1>1. /\ Candidates \in Seq(Pages) /\ DOMAIN Candidates \subseteq Nat
      /\ \A i \in DOMAIN Candidates : Candidates[i] \in Pages
  BY CandidatesAssumption
<1>2. FirstFree(n, regions) = IF good = {} THEN NULL ELSE Candidates[Min(good)]
  BY DEF FirstFree
<1>3. good \subseteq DOMAIN Candidates
  OBVIOUS
<1> HIDE DEF good
<1>4. good # {} => Min(good) \in good
  BY <1>1, <1>3, MinIn
<1> QED BY <1>1, <1>2, <1>3, <1>4

----------------------------------------------------------------------------
(********************************* Steps ***********************************)

\* The rest of the two programs.
LEMMA OthersKeep ==
  ASSUME Ind, HostChanges \/ SandboxChanges
  PROVE  Ind'
<1>1. CASE HostChanges
  <2>1. /\ hmap' \in Spaces
        /\ \A u \in Threads : \A p \in Pages : hmap'[p] = u <=> hmap[p] = u
    BY <1>1, OtherKeepsMine DEF HostChanges, Ind, TypeOK, Spaces
  <2> QED BY <1>1, <2>1 DEF HostChanges, Ind, TypeOK, HostSide, SandboxSide,
             Mine, None, Spaces
<1>2. CASE SandboxChanges
  <2>1. /\ smap' \in Spaces
        /\ \A u \in Threads : \A p \in Pages : smap'[p] = u <=> smap[p] = u
    BY <1>2, OtherKeepsMine DEF SandboxChanges, Ind, TypeOK, Spaces
  <2> QED BY <1>2, <2>1 DEF SandboxChanges, Ind, TypeOK, HostSide, SandboxSide,
             Mine, None, Spaces
<1> QED BY <1>1, <1>2

\* What a step of a thread must not change for the others.
Apart(t) ==
  /\ \A u \in Threads \ {t} :
       /\ pc'[u] = pc[u] /\ len'[u] = len[u]
       /\ addr'[u] = addr[u] /\ saddr'[u] = saddr[u]
       /\ \A p \in Pages : /\ hmap'[p] = u <=> hmap[p] = u
                           /\ smap'[p] = u <=> smap[p] = u
  /\ \A p \in Pages : /\ hmap[p] \notin {t, Free} => hmap'[p] = hmap[p]
                      /\ smap[p] \notin {t, Free} => smap'[p] = smap[p]

LEMMA ApartKeeps ==
  ASSUME NEW t \in Threads, Ind,
         TypeOK', Apart(t), HostSide(t)', SandboxSide(t)'
  PROVE  Ind'
<1>1. ASSUME NEW u \in Threads \ {t} PROVE HostSide(u)' /\ SandboxSide(u)'
  <2>1. HostSide(u) /\ SandboxSide(u)
    BY DEF Ind
  <2>2. HostSide(u)'
    BY <2>1 DEF Apart, HostSide, Mine, None
  <2>3. SandboxSide(u)'
    BY <2>1 DEF Apart, SandboxSide, Mine, None
  <2> QED BY <2>2, <2>3
<1> QED BY <1>1 DEF Ind

Keeps(t) == TypeOK' /\ Apart(t) /\ HostSide(t)' /\ SandboxSide(t)'

\* Steps that map and unmap nothing.
LEMMA SearchKeeps ==
  ASSUME NEW t \in Threads, Ind,
         ReadsHostMaps(t) \/ Searches(t) \/ SearchFails(t) \/ GivesUp(t)
  PROVE  Keeps(t)
<1> USE DEF Ind, TypeOK, AtAddress, HostPcs, Goto, Forget
<1>1. hmap' = hmap /\ smap' = smap
  BY DEF ReadsHostMaps, Searches, SearchFails, GivesUp
<1>2. TypeOK'
  <2>1. CASE ReadsHostMaps(t)
    BY <2>1 DEF ReadsHostMaps, InUse
  <2>2. CASE Searches(t)
    <3> DEFINE found == FirstFree(len[t], {<<p, p + 1>> : p \in seen[t]}
                                          \cup Regions(smap))
    <3>1. found \in Pages \cup {NULL}
      BY FirstFreeIn
    <3>2. CASE found = NULL
      BY <2>2, <3>2 DEF Searches
    <3>3. CASE found # NULL
      <4>1. /\ seen' = [seen EXCEPT ![t] = @ \cup InUse(smap)]
            /\ addr' = [addr EXCEPT ![t] = found]
            /\ pc' = [pc EXCEPT ![t] = "host_fixed"]
            /\ UNCHANGED <<hmap, smap, len, saddr>>
        BY <2>2, <3>3 DEF Searches
      <4> HIDE DEF found
      <4> QED BY <3>1, <3>3, <4>1 DEF InUse
    <3> QED BY <3>2, <3>3
  <2>3. CASE SearchFails(t) \/ GivesUp(t)
    BY <2>3 DEF SearchFails, GivesUp
  <2> QED BY <2>1, <2>2, <2>3
<1>3. Apart(t)
  BY <1>1 DEF Apart, ReadsHostMaps, Searches, SearchFails, GivesUp
<1>4. None(hmap, t) /\ None(smap, t)
  BY DEF HostSide, SandboxSide, ReadsHostMaps, Searches, SearchFails, GivesUp
<1>5. pc'[t] \in {"idle", "sandbox_maps", "host_fixed"}
  BY DEF ReadsHostMaps, Searches, SearchFails, GivesUp
<1> QED BY <1>1, <1>2, <1>3, <1>4, <1>5 DEF Keeps, HostSide, SandboxSide, None

\* Steps that map in the host.
LEMMA HostMapsKeeps ==
  ASSUME NEW t \in Threads, Ind,
         HostMapsFixed(t) \/ \E n \in Lengths : HostMaps(t, n)
  PROVE  Keeps(t)
<1> USE DEF Ind, TypeOK, AtAddress, HostPcs, Goto
<1>1. /\ Lengths \subseteq Int /\ len[t] \in Int /\ hmap \in Spaces
  BY LengthIsInt DEF Spaces
<1>2. None(hmap, t) /\ None(smap, t) /\ smap' = smap
  BY DEF HostSide, SandboxSide, HostMaps, HostMapsFixed
<1>3. CASE HostMapsFixed(t)
  <2>1. addr[t] \in Pages
    BY <1>3 DEF HostMapsFixed
  <2>2. PICK r \in MmapAt(hmap, addr[t], len[t], t) :
          /\ hmap' = r.map
          /\ addr' = [addr EXCEPT ![t] = r.at]
          /\ \/ r.at = addr[t] /\ Goto(t, "sandbox_fixed")
             \/ r.at # addr[t] /\ r.at # NULL /\ Goto(t, "drop_host2")
             \/ r.at = NULL /\ Goto(t, "no_region")
    BY <1>3 DEF HostMapsFixed
  <2>3. /\ r.map \in Spaces /\ r.at \in Pages \cup {NULL}
        /\ r.at = NULL => r.map = hmap
        /\ r.at # NULL => Adds(hmap, r.map, t, r.at, len[t])
    BY <1>1, <2>1, MmapAtAdds
  <2>4. /\ seen' = [seen EXCEPT ![t] = {}]
        /\ UNCHANGED <<smap, len, saddr>>
    BY <1>3 DEF HostMapsFixed
  <2>5. PICK l \in {"sandbox_fixed", "drop_host2", "no_region"} :
          /\ pc' = [pc EXCEPT ![t] = l]
          /\ l = "no_region" <=> r.at = NULL
    <3>1. addr[t] # NULL
      BY <1>3 DEF HostMapsFixed
    <3> QED BY <2>2, <3>1
  <2> HIDE DEF Ind
  <2>6. TypeOK'
    BY <2>2, <2>3, <2>4, <2>5 DEF Spaces, Ind
  <2>7. CASE r.at = NULL
    <3>1. pc'[t] = "no_region" /\ hmap' = hmap
      BY <2>2, <2>3, <2>5, <2>7 DEF Ind
    <3>2. Apart(t)
      BY <2>2, <2>4, <3>1 DEF Apart, Ind
    <3> QED BY <1>2, <2>6, <3>1, <3>2 DEF Keeps, HostSide, SandboxSide, None
  <2>8. CASE r.at # NULL
    <3>1. /\ Mine(hmap', t, addr'[t], len'[t])
          /\ \A u \in Threads \ {t}, p \in Pages : hmap'[p] = u <=> hmap[p] = u
          /\ \A p \in Pages : hmap[p] # Free => hmap'[p] = hmap[p]
      BY <1>1, <1>2, <2>2, <2>3, <2>4, <2>8, AddsMine DEF Ind
    <3>2. pc'[t] \in {"sandbox_fixed", "drop_host2"}
      BY <2>5, <2>8 DEF Ind
    <3>3. Apart(t)
      BY <2>2, <2>4, <2>5, <3>1 DEF Apart, Ind
    <3> QED BY <1>2, <2>6, <3>1, <3>2, <3>3
            DEF Keeps, HostSide, SandboxSide, None, Mine
  <2> QED BY <2>7, <2>8
<1>4. ASSUME NEW n \in Lengths, HostMaps(t, n) PROVE Keeps(t)
  <2>1. PICK r \in MmapAny(hmap, n, t) :
          r.at # NULL /\ hmap' = r.map /\ addr' = [addr EXCEPT ![t] = r.at]
    BY <1>4 DEF HostMaps
  <2>2. /\ r.map \in Spaces /\ r.at \in Pages
        /\ Adds(hmap, r.map, t, r.at, n)
    BY <1>1, <2>1, MmapAnyAdds
  <2>3. /\ len' = [len EXCEPT ![t] = n] /\ pc' = [pc EXCEPT ![t] = "send"]
        /\ UNCHANGED <<smap, saddr, seen>>
    BY <1>4 DEF HostMaps
  <2>4. TypeOK'
    BY <2>1, <2>2, <2>3 DEF Spaces
  <2>5. /\ Mine(hmap', t, addr'[t], len'[t])
        /\ \A u \in Threads \ {t}, p \in Pages : hmap'[p] = u <=> hmap[p] = u
        /\ \A p \in Pages : hmap[p] # Free => hmap'[p] = hmap[p]
    BY <1>1, <1>2, <2>1, <2>2, <2>3, AddsMine
  <2>6. Apart(t)
    BY <2>1, <2>3, <2>5 DEF Apart
  <2> QED BY <1>2, <2>3, <2>4, <2>5, <2>6
          DEF Keeps, HostSide, SandboxSide, None, Mine
<1> QED BY <1>3, <1>4

\* Steps that unmap in the host.
LEMMA HostUnmapsKeeps ==
  ASSUME NEW t \in Threads, Ind,
         \/ SendFails(t) \/ DropsHost(t) \/ DropsHostAgain(t)
         \/ UnmapsHost(t) \/ Exits(t)
  PROVE  Keeps(t)
<1> USE DEF Ind, TypeOK, AtAddress, HostPcs, Goto, Forget
<1>1. hmap \in Spaces /\ Mine(hmap, t, addr[t], len[t])
  BY DEF Spaces, HostSide, SendFails, DropsHost, DropsHostAgain, UnmapsHost,
     Exits
<1>2. smap' = smap /\ hmap' = Munmap(hmap, addr[t], len[t])
  BY DEF SendFails, DropsHost, DropsHostAgain, UnmapsHost, Exits
<1>3. /\ hmap' \in Spaces /\ None(hmap', t)
      /\ \A u \in Threads \ {t}, p \in Pages : hmap'[p] = u <=> hmap[p] = u
      /\ \A p \in Pages : hmap[p] # t => hmap'[p] = hmap[p]
  BY <1>1, <1>2, MunmapMine
<1>4. TypeOK'
  BY <1>2, <1>3 DEF Spaces, SendFails, DropsHost, DropsHostAgain, UnmapsHost,
     Exits
<1>5. Apart(t)
  BY <1>2, <1>3 DEF Apart, SendFails, DropsHost, DropsHostAgain, UnmapsHost,
     Exits
<1>6. /\ pc'[t] \in {"idle", "host_maps", "gone"}
      /\ pc'[t] # "gone" => None(smap, t)
  BY DEF SandboxSide, SendFails, DropsHost, DropsHostAgain, UnmapsHost, Exits
<1> QED BY <1>2, <1>3, <1>4, <1>5, <1>6 DEF Keeps, HostSide, SandboxSide, None

\* Steps that map in the sandbox.
LEMMA SandboxMapsKeeps ==
  ASSUME NEW t \in Threads, Ind, SandboxMaps(t) \/ SandboxMapsFixed(t)
  PROVE  Keeps(t)
<1> USE DEF Ind, TypeOK, AtAddress, HostPcs, Goto
<1>1. /\ len[t] \in Int /\ smap \in Spaces
      /\ addr[t] \in Pages /\ addr[t] # NULL
  BY LengthIsInt DEF Spaces, SandboxMaps, SandboxMapsFixed
<1>2. /\ Mine(hmap, t, addr[t], len[t]) /\ None(smap, t)
      /\ UNCHANGED <<hmap, len, addr, seen>>
  BY DEF HostSide, SandboxSide, SandboxMaps, SandboxMapsFixed
<1>3. PICK r \in MmapAt(smap, addr[t], len[t], t),
             l \in {"have", "drop_sandbox", "drop_sandbox2"} :
        /\ smap' = r.map
        /\ saddr' = [saddr EXCEPT ![t] = r.at]
        /\ pc' = [pc EXCEPT ![t] = l]
        /\ l = "have" <=> r.at = addr[t]
  <2>1. CASE SandboxMaps(t)
    BY <2>1 DEF SandboxMaps
  <2>2. CASE SandboxMapsFixed(t)
    BY <2>2 DEF SandboxMapsFixed
  <2> QED BY <2>1, <2>2
<1>4. /\ r.map \in Spaces /\ r.at \in Pages \cup {NULL}
      /\ r.at = NULL => r.map = smap
      /\ r.at # NULL => Adds(smap, r.map, t, r.at, len[t])
  BY <1>1, MmapAtAdds
<1>5. TypeOK'
  BY <1>1, <1>2, <1>3, <1>4 DEF Spaces
<1>6. CASE r.at = NULL
  <2>1. smap' = smap /\ pc'[t] \in {"drop_sandbox", "drop_sandbox2"}
        /\ saddr'[t] = NULL
    BY <1>1, <1>3, <1>4, <1>6
  <2>2. Apart(t)
    BY <1>2, <1>3, <2>1 DEF Apart
  <2> QED BY <1>2, <1>5, <2>1, <2>2
          DEF Keeps, HostSide, SandboxSide, None, Mine
<1>7. CASE r.at # NULL
  <2>1. /\ Mine(smap', t, saddr'[t], len'[t])
        /\ \A u \in Threads \ {t}, p \in Pages : smap'[p] = u <=> smap[p] = u
        /\ \A p \in Pages : smap[p] # Free => smap'[p] = smap[p]
    BY <1>1, <1>2, <1>3, <1>4, <1>7, AddsMine
  <2>2. /\ saddr'[t] # NULL
        /\ pc'[t] \in {"have", "drop_sandbox", "drop_sandbox2"}
        /\ pc'[t] = "have" => saddr'[t] = addr'[t]
    BY <1>2, <1>3, <1>7
  <2>3. Apart(t)
    BY <1>2, <1>3, <2>1 DEF Apart
  <2> QED BY <1>2, <1>5, <2>1, <2>2, <2>3
          DEF Keeps, HostSide, SandboxSide, Mine
<1> QED BY <1>6, <1>7

\* Steps that unmap in the sandbox.
LEMMA SandboxUnmapsKeeps ==
  ASSUME NEW t \in Threads, Ind, DropsSandbox(t) \/ UnmapsSandbox(t)
  PROVE  Keeps(t)
<1> USE DEF Ind, TypeOK, AtAddress, HostPcs, Goto
<1>1. /\ smap \in Spaces /\ Mine(hmap, t, addr[t], len[t])
      /\ UNCHANGED <<hmap, len, addr, seen>>
  BY DEF Spaces, HostSide, DropsSandbox, UnmapsSandbox
<1>2. /\ smap' \in Spaces /\ None(smap', t)
      /\ \A u \in Threads \ {t}, p \in Pages : smap'[p] = u <=> smap[p] = u
      /\ \A p \in Pages : smap[p] # t => smap'[p] = smap[p]
  <2>1. CASE DropsSandbox(t) /\ saddr[t] = NULL
    <3>1. smap' = smap /\ None(smap, t)
      BY <2>1 DEF DropsSandbox, SandboxSide
    <3> QED BY <1>1, <3>1
  <2>2. CASE DropsSandbox(t) /\ saddr[t] # NULL
    <3>1. /\ smap' = Munmap(smap, saddr[t], len[t])
          /\ Mine(smap, t, saddr[t], len[t])
      BY <2>2 DEF DropsSandbox, SandboxSide
    <3> QED BY <1>1, <3>1, MunmapMine
  <2>3. CASE UnmapsSandbox(t)
    <3>1. /\ smap' = Munmap(smap, addr[t], len[t])
          /\ Mine(smap, t, addr[t], len[t])
      BY <2>3 DEF UnmapsSandbox, SandboxSide
    <3> QED BY <1>1, <3>1, MunmapMine
  <2> QED BY <2>1, <2>2, <2>3
<1>3. TypeOK'
  BY <1>1, <1>2 DEF Spaces, DropsSandbox, UnmapsSandbox
<1>4. Apart(t)
  BY <1>1, <1>2 DEF Apart, DropsSandbox, UnmapsSandbox
<1>5. pc'[t] \in {"drop_host", "drop_host2", "unmap_host"}
  BY DEF DropsSandbox, UnmapsSandbox
<1> QED BY <1>1, <1>2, <1>3, <1>4, <1>5
        DEF Keeps, HostSide, SandboxSide, None, Mine

----------------------------------------------------------------------------
LEMMA IndInit == Init => Ind
<1> SUFFICES ASSUME Init PROVE Ind
  OBVIOUS
<1>1. Free \notin Threads
  BY ThreadsAssumption
<1>2. TypeOK
  BY DEF Init, TypeOK, AtAddress
<1>3. \A t \in Threads : HostSide(t) /\ SandboxSide(t)
  BY <1>1 DEF Init, HostSide, SandboxSide, HostPcs, AtAddress, None
<1> QED BY <1>2, <1>3 DEF Ind

LEMMA ThreadKeeps ==
  ASSUME Ind, NEW t \in Threads,
         \/ \E n \in Lengths : HostMaps(t, n)
         \/ SendFails(t) \/ SandboxMaps(t)
         \/ DropsSandbox(t) \/ DropsHost(t) \/ DropsHostAgain(t)
         \/ ReadsHostMaps(t) \/ Searches(t) \/ SearchFails(t)
         \/ HostMapsFixed(t) \/ GivesUp(t) \/ SandboxMapsFixed(t)
         \/ UnmapsSandbox(t) \/ UnmapsHost(t) \/ Exits(t)
  PROVE  Keeps(t)
BY SearchKeeps, HostMapsKeeps, HostUnmapsKeeps, SandboxMapsKeeps,
   SandboxUnmapsKeeps

LEMMA IndNext == Ind /\ [Next]_vars => Ind'
<1> SUFFICES ASSUME Ind, [Next]_vars PROVE Ind'
  OBVIOUS
<1>1. CASE UNCHANGED vars
  BY <1>1 DEF vars, Ind, TypeOK, HostSide, SandboxSide, Mine, None
<1>2. CASE HostChanges \/ SandboxChanges
  BY <1>2, OthersKeep
<1>3. ASSUME NEW t \in Threads, Keeps(t) PROVE Ind'
  BY <1>3, ApartKeeps DEF Keeps
<1> QED BY <1>1, <1>2, <1>3, ThreadKeeps DEF Next

LEMMA Invariance == Spec => []Ind
BY IndInit, IndNext, PTL DEF Spec

----------------------------------------------------------------------------
\* The type invariant: whoever works on an address has one.
THEOREM TypeCorrect == Spec => []TypeOK
<1>1. Ind => TypeOK
  BY DEF Ind
<1> QED BY <1>1, Invariance, PTL

\* While a thread has a region, the pages at its address are mapped to it on
\* both sides, all of them, and no other page is (pbox_mmap_identity).
THEOREM RegionsAreIdentical == Spec => []SameAddress
<1>1. Ind => SameAddress
  BY DEF Ind, HostSide, SandboxSide, HostPcs, AtAddress, SameAddress, Mine
<1> QED BY <1>1, Invariance, PTL

\* Wherever pbox_mmap_identity gives up, it leaves nothing mapped.
THEOREM FailureLeavesNothing == Spec => []NothingLeft
<1>1. Ind => NothingLeft
  BY DEF Ind, HostSide, SandboxSide, HostPcs, AtAddress, NothingLeft, None
<1> QED BY <1>1, Invariance, PTL

\* No step of an operation unmaps or replaces what is not its own.
THEOREM OthersAreKept == Spec => OthersKept
<1>1. Ind /\ [Next]_vars =>
        [\A t \in Threads : pc'[t] # pc[t] =>
           \A p \in Pages :
             /\ hmap[p] \notin {t, Free} => hmap'[p] = hmap[p]
             /\ smap[p] \notin {t, Free} => smap'[p] = smap[p]]_vars
  <2> SUFFICES ASSUME Ind, [Next]_vars, NEW t \in Threads, pc'[t] # pc[t]
               PROVE  \A p \in Pages :
                        /\ hmap[p] \notin {t, Free} => hmap'[p] = hmap[p]
                        /\ smap[p] \notin {t, Free} => smap'[p] = smap[p]
    OBVIOUS
  <2>1. PICK u \in Threads : Keeps(u)
    BY ThreadKeeps DEF Next, vars, HostChanges, SandboxChanges
  <2>2. u = t
    BY <2>1 DEF Keeps, Apart
  <2> QED BY <2>1, <2>2 DEF Keeps, Apart
<1> QED BY <1>1, Invariance, PTL DEF Spec, OthersKept

----------------------------------------------------------------------------
(***************************************************************************)
(*                                The arena                                *)
(***************************************************************************)

\* The parameters of a call are one after the other below n.
Placed(ps, n) ==
  \A i \in 1..Len(ps) :
    /\ ps[i].ptr + SizeOf[ps[i].var] <= n
    /\ \A j \in 1..(i - 1) : ps[j].ptr + SizeOf[ps[j].var] <= ps[i].ptr

\* What was passed is still there.
Held(ps, m) ==
  \A i \in 1..Len(ps) : ps[i].kind # "out" =>
    \A b \in Piece(ps[i].ptr, ps[i].var) : m[b] = ps[i].val

\* The last copy back of the variable of an output is the output's.
Registered(ps, cbs) ==
  \A i \in 1..Len(ps) : ps[i].kind # "in" =>
    \E k \in 1..Len(cbs) :
      /\ cbs[k] = [var |-> ps[i].var, ptr |-> ps[i].ptr]
      /\ \A l \in 1..Len(cbs) : l > k => cbs[l].var # ps[i].var

\* The outputs are what the function stored.
Stored(ps, m) ==
  \A i \in 1..Len(ps) : ps[i].kind # "in" =>
    \A b \in Piece(ps[i].ptr, ps[i].var) : m[b] = wrote[ps[i].var]

\* What is copied back lies in the arena.
Inside(cbs) ==
  \A i \in 1..Len(cbs) : cbs[i].ptr + SizeOf[cbs[i].var] <= ArenaSize

\* What holds of all callers.
ArenaTypes ==
  /\ ArenaTypeOK /\ ArenaReclaimed
  /\ \A c \in 1..Len(ctxs) : Inside(ctxs[c].copybacks)
  /\ stage \in {"running", "finalize", "returned"} => cur \in 1..Len(ctxs)

ArenaInd ==
  /\ ArenaTypes
  /\ Len(ctxs) <= 1
  /\ \A c \in 1..Len(ctxs) :
       /\ Placed(ctxs[c].params, idmem_offset)
       /\ Registered(ctxs[c].params, ctxs[c].copybacks)
       /\ stage \in {"ready", "throwing", "running"} =>
            Held(ctxs[c].params, mem)
       /\ stage = "finalize" => Stored(ctxs[c].params, mem)

----------------------------------------------------------------------------
\* n rounded up is the next multiple of Align, if size_t can hold it.
LEMMA RoundUpBounds ==
  ASSUME NEW n \in Nat, n + Align < Word
  PROVE  RoundUp(n) \in Nat /\ n <= RoundUp(n) /\ RoundUp(n) < n + Align
<1>1. Align \in Nat \ {0} /\ Word \in Nat
  BY ArenaAssumption
<1> DEFINE x == n + Align - 1
           q == x \div Align
           r == x % Align
<1>2. x \in Nat /\ x < Word
  BY <1>1
<1>3. x % Word = x
  BY <1>1, <1>2
<1>4. q \in Nat /\ r \in 0..(Align - 1) /\ x = Align * q + r
  BY <1>1, <1>2
<1>5. RoundUp(n) = q * Align
  BY <1>3 DEF RoundUp
<1> HIDE DEF q, r
<1>6. q * Align = x - r
  BY <1>1, <1>2, <1>4
<1> QED BY <1>1, <1>4, <1>5, <1>6

\* Where there is room for a variable, its piece is inside the arena and the
\* sum does not wrap.
LEMMA RoomForPiece ==
  ASSUME idmem_offset \in 0..ArenaSize, NEW v \in HostVars, HasRoom(v)
  PROVE  /\ idmem_offset + RoundUp(SizeOf[v]) \in 0..ArenaSize
         /\ idmem_offset + SizeOf[v] <= idmem_offset + RoundUp(SizeOf[v])
<1> DEFINE s == SizeOf[v]
           u == RoundUp(s)
<1>1. /\ s \in Nat /\ ArenaSize \in Nat /\ Align \in Nat /\ Word \in Nat
      /\ ArenaSize + s + Align < Word
  BY ArenaAssumption
<1> HIDE DEF s, u
<1>2. u \in Nat /\ s <= u /\ u < s + Align
  BY <1>1, RoundUpBounds DEF u
<1>3. (idmem_offset + u) % Word = idmem_offset + u
  BY <1>1, <1>2
<1>4. (idmem_offset + u) % Word <= ArenaSize
  BY DEF HasRoom, u, s
<1> QED BY <1>1, <1>2, <1>3, <1>4 DEF u, s

\* What is read is something the arena holds, or torn.
LEMMA LoadIn ==
  ASSUME NEW m \in [Bytes -> Vals \cup {Torn}], NEW v \in HostVars,
         NEW ptr \in Nat, ptr + SizeOf[v] <= ArenaSize
  PROVE  Load(m, ptr, v) \in Vals \cup {Torn}
<1>1. /\ SizeOf[v] \in Nat /\ ArenaSize \in Nat
  BY ArenaAssumption
<1>2. \A b \in Piece(ptr, v) : b \in Bytes
  BY <1>1 DEF Piece, Bytes
<1> QED BY <1>2 DEF Load

\* A piece whose bytes are of one value is read as that value.
LEMMA LoadSame ==
  ASSUME NEW m, NEW v \in HostVars, NEW ptr \in Nat,
         \A b \in Piece(ptr, v) : m[b] = m[ptr]
  PROVE  Load(m, ptr, v) = m[ptr]
<1>1. SizeOf[v] \in Nat /\ SizeOf[v] > 0
  BY ArenaAssumption
<1>2. ptr \in Piece(ptr, v)
  BY <1>1 DEF Piece
<1>3. {m[b] : b \in Piece(ptr, v)} = {m[ptr]}
  BY <1>2
<1> QED BY <1>3 DEF Load

\* A set of indexes that is not empty has a largest one.
LEMMA MaxIn ==
  ASSUME NEW n \in Nat, NEW S, S \subseteq 1..n, S # {}
  PROVE  Max(S) \in S
<1> DEFINE R == {n - i : i \in S}
<1>1. R \subseteq Nat /\ R # {}
  <2>1. \A i \in S : n - i \in Nat
    OBVIOUS
  <2> QED BY <2>1
<1>2. Min(R) \in R /\ \A y \in R : Min(R) <= y
  <2> HIDE DEF R
  <2> QED BY <1>1, MinIn
<1>3. PICK k \in S : Min(R) = n - k
  BY <1>2
<1>4. \A i \in S : n - k <= n - i
  BY <1>2, <1>3
<1>5. \A i \in S : k >= i
  BY <1>4
<1> QED BY <1>5 DEF Max

\* The copy backs leave values.
LEMMA CopyBackIn ==
  ASSUME NEW cbs \in Seq(Copybacks), ArenaTypeOK, Inside(cbs)
  PROVE  CopyBack(cbs) \in [HostVars -> Vals \cup {Torn}]
<1> SUFFICES ASSUME NEW v \in HostVars
             PROVE  CopyBack(cbs)[v] \in Vals \cup {Torn}
  BY DEF CopyBack
<1> DEFINE mine == {i \in DOMAIN cbs : cbs[i].var = v}
<1>1. CopyBack(cbs)[v] = IF mine = {} THEN host[v]
                                      ELSE Load(mem, cbs[Max(mine)].ptr, v)
  BY DEF CopyBack
<1>2. CASE mine = {}
  BY <1>1, <1>2 DEF ArenaTypeOK
<1>3. CASE mine # {}
  <2>1. mine \subseteq 1..Len(cbs) /\ Len(cbs) \in Nat
    OBVIOUS
  <2>2. Max(mine) \in mine
    <3> HIDE DEF mine
    <3> QED BY <1>3, <2>1, MaxIn
  <2>3. PICK k \in 1..Len(cbs) : k = Max(mine) /\ cbs[k].var = v
    BY <2>1, <2>2
  <2>4. cbs[k] \in Copybacks
    BY <2>1
  <2>5. cbs[k].ptr \in Nat /\ cbs[k].ptr + SizeOf[v] <= ArenaSize
    <3>1. cbs[k].ptr \in 0..ArenaSize
      BY <2>4 DEF Copybacks
    <3>2. cbs[k].ptr + SizeOf[v] <= ArenaSize
      BY <2>3 DEF Inside
    <3> QED BY <3>1, <3>2
  <2>6. Load(mem, cbs[k].ptr, v) \in Vals \cup {Torn}
    BY <2>5, LoadIn DEF ArenaTypeOK
  <2> HIDE DEF mine
  <2> QED BY <1>1, <1>3, <2>3, <2>6
<1> QED BY <1>2, <1>3

\* An output whose copy back is the last of its variable arrives.
LEMMA CopyBackDelivers ==
  ASSUME NEW cbs \in Seq(Copybacks), NEW v \in HostVars, NEW p \in Nat,
         NEW k \in 1..Len(cbs), cbs[k] = [var |-> v, ptr |-> p],
         \A l \in 1..Len(cbs) : l > k => cbs[l].var # v,
         \A b \in Piece(p, v) : mem[b] = mem[p]
  PROVE  CopyBack(cbs)[v] = mem[p]
<1> DEFINE mine == {i \in DOMAIN cbs : cbs[i].var = v}
<1>1. /\ Len(cbs) \in Nat /\ mine \subseteq 1..Len(cbs) /\ k \in mine
      /\ \A i \in mine : i <= k
  OBVIOUS
<1>2. CopyBack(cbs)[v] = IF mine = {} THEN host[v]
                                      ELSE Load(mem, cbs[Max(mine)].ptr, v)
  BY DEF CopyBack
<1> HIDE DEF mine
<1>3. Max(mine) = k
  BY <1>1 DEF Max
<1>4. Load(mem, p, v) = mem[p]
  BY LoadSame
<1> QED BY <1>1, <1>2, <1>3, <1>4

----------------------------------------------------------------------------
\* A context alive.
Contexts == [copybacks : Seq(Copybacks), params : Seq(Parameters),
             finalized : BOOLEAN]

\* One context changes, and the others stay.
Only(c, x) == /\ ctxs' \in Seq(Contexts) /\ Len(ctxs') = Len(ctxs)
              /\ ctxs'[c] = x
              /\ \A d \in 1..Len(ctxs) : d # c => ctxs'[d] = ctxs[d]

\* What a context alive is.
LEMMA ContextIn ==
  ASSUME ArenaTypes, NEW c \in 1..Len(ctxs)
  PROVE  /\ ctxs \in Seq(Contexts) /\ Len(ctxs) \in Nat
         /\ DOMAIN ctxs = 1..Len(ctxs)
         /\ ctxs[c] \in Contexts
         /\ ctxs[c].copybacks \in Seq(Copybacks)
         /\ ctxs[c].params \in Seq(Parameters)
<1>1. ctxs \in Seq(Contexts)
  BY DEF ArenaTypes, ArenaTypeOK, Contexts
<1>2. Len(ctxs) \in Nat /\ DOMAIN ctxs = 1..Len(ctxs) /\ ctxs[c] \in Contexts
  BY <1>1
<1> QED BY <1>1, <1>2 DEF Contexts

\* An EXCEPT changes one context only.
LEMMA ExceptOnly ==
  ASSUME NEW c \in 1..Len(ctxs), NEW x \in Contexts, ctxs \in Seq(Contexts),
         ctxs' = [ctxs EXCEPT ![c] = x]
  PROVE  Only(c, x)
BY DEF Only

\* The parameter that Param makes.
NewParam(k, v) == [kind |-> k, var |-> v, ptr |-> idmem_offset,
                   val |-> host[v]]

\* The context that a parameter makes.
LEMMA ParamMakes ==
  ASSUME ArenaTypes, NEW c \in 1..Len(ctxs), NEW k \in Kinds,
         NEW v \in HostVars, Param(c, k, v)
  PROVE  /\ WithParam(ctxs[c], k, v) \in Contexts
         /\ Only(c, WithParam(ctxs[c], k, v))
<1> DEFINE x == ctxs[c]
           y == WithParam(x, k, v)
<1>1. /\ ctxs \in Seq(Contexts) /\ x \in Contexts
      /\ x.copybacks \in Seq(Copybacks) /\ x.params \in Seq(Parameters)
  BY ContextIn
<1>2. /\ NewParam(k, v) \in Parameters
      /\ [var |-> v, ptr |-> idmem_offset] \in Copybacks
  BY DEF ArenaTypes, ArenaTypeOK, NewParam, Parameters, Copybacks
<1>3. y \in Contexts
  <2>1. Append(x.params, NewParam(k, v)) \in Seq(Parameters)
    BY <1>1, <1>2
  <2>2. Append(x.copybacks, [var |-> v, ptr |-> idmem_offset])
          \in Seq(Copybacks)
    BY <1>1, <1>2
  <2>3. x.finalized \in BOOLEAN
    BY <1>1 DEF Contexts
  <2> QED BY <1>1, <2>1, <2>2, <2>3 DEF WithParam, NewParam, Contexts
<1>4. ctxs' = [ctxs EXCEPT ![c] = y]
  BY <1>1 DEF Param
<1> HIDE DEF y
<1>5. Only(c, y)
  BY <1>1, <1>3, <1>4, ExceptOnly
<1> QED BY <1>3, <1>5 DEF y

\* A change of one context keeps the types of all.
LEMMA OnlyKeeps ==
  ASSUME ArenaTypes, NEW c \in 1..Len(ctxs), NEW x, Only(c, x),
         Inside(x.copybacks)
  PROVE  /\ ctxs' \in Seq(Contexts) /\ Len(ctxs') \in Nat
         /\ Len(ctxs') <= MaxContexts /\ ctxs' # <<>>
         /\ \A d \in 1..Len(ctxs') : Inside(ctxs'[d].copybacks)
         /\ \A i \in 1..Len(ctxs) : i \in 1..Len(ctxs')
<1>1. Len(ctxs) \in Nat /\ Len(ctxs) # 0 /\ Len(ctxs') = Len(ctxs)
  BY ContextIn DEF Only
<1>2. ctxs' # <<>>
  BY <1>1
<1> QED BY <1>1, <1>2 DEF Only, ArenaTypes, ArenaTypeOK

\* A context without its parameters.
LEMMA DropParams ==
  ASSUME NEW x \in Contexts
  PROVE  /\ [x EXCEPT !.params = <<>>] \in Contexts
         /\ [x EXCEPT !.params = <<>>].copybacks = x.copybacks
         /\ [x EXCEPT !.params = <<>>].params = <<>>
<1>1. <<>> \in Seq(Parameters)
  OBVIOUS
<1>2. [x EXCEPT !.params = <<>>] =
        [copybacks |-> x.copybacks, params |-> <<>>, finalized |-> x.finalized]
  BY DEF Contexts
<1> QED BY <1>1, <1>2 DEF Contexts

\* The piece of a new parameter, and its copy back, are in the arena.
LEMMA ParamKeepsTypes ==
  ASSUME ArenaTypes, NEW c \in 1..Len(ctxs), NEW k \in Kinds,
         NEW v \in HostVars, Param(c, k, v)
  PROVE  ArenaTypes'
<1> DEFINE x == WithParam(ctxs[c], k, v)
<1>1. x \in Contexts /\ Only(c, x)
  BY ParamMakes
<1>2. /\ idmem_offset' \in 0..ArenaSize
      /\ idmem_offset' = idmem_offset + RoundUp(SizeOf[v])
      /\ idmem_offset + SizeOf[v] <= idmem_offset'
  BY RoomForPiece DEF Param, ArenaTypes, ArenaTypeOK
<1>3. mem' \in [Bytes -> Vals \cup {Torn}]
  BY DEF Param, ArenaTypes, ArenaTypeOK, Store
<1>4. Inside(x.copybacks)
  <2> DEFINE cbs == ctxs[c].copybacks
             cb == [var |-> v, ptr |-> idmem_offset]
  <2>1. cbs \in Seq(Copybacks) /\ Inside(cbs)
    BY ContextIn DEF ArenaTypes
  <2>2. CASE k = "in"
    BY <2>1, <2>2 DEF WithParam
  <2>3. CASE k # "in"
    <3>1. x.copybacks = Append(cbs, cb)
      BY <2>3 DEF WithParam
    <3>2. cb.ptr + SizeOf[cb.var] <= ArenaSize
      BY <1>2, ArenaAssumption DEF ArenaTypes, ArenaTypeOK
    <3> HIDE DEF cbs, cb, x
    <3>3. \A i \in 1..(Len(cbs) + 1) :
            Append(cbs, cb)[i] = IF i = Len(cbs) + 1 THEN cb ELSE cbs[i]
      BY <2>1
    <3>4. Len(cbs) \in Nat /\ Len(Append(cbs, cb)) = Len(cbs) + 1
      BY <2>1
    <3> QED BY <2>1, <3>1, <3>2, <3>3, <3>4 DEF Inside
  <2> QED BY <2>2, <2>3
<1> HIDE DEF x
<1>5. /\ ctxs' \in Seq(Contexts) /\ Len(ctxs') <= MaxContexts /\ ctxs' # <<>>
      /\ \A d \in 1..Len(ctxs') : Inside(ctxs'[d].copybacks)
      /\ \A i \in 1..Len(ctxs) : i \in 1..Len(ctxs')
  BY <1>1, <1>4, OnlyKeeps
<1>6. mapped' = TRUE /\ UNCHANGED <<host, stage, cur, wrote>>
  BY DEF Param
<1>7. ArenaTypeOK'
  BY <1>2, <1>3, <1>5, <1>6 DEF ArenaTypes, ArenaTypeOK, Contexts
<1> QED BY <1>5, <1>6, <1>7 DEF ArenaTypes, ArenaReclaimed

\* Actions that change one context.
LEMMA CallKeepsTypes ==
  ASSUME ArenaTypes,
         \/ \E c \in 1..Len(ctxs), v \in HostVars : ParamThrows(c, v)
         \/ \E c \in 1..Len(ctxs) : CallBegins(c)
         \/ \E out \in [HostVars -> Vals] : FunctionReturns(out)
         \/ CallFinalizes \/ CallReturns
  PROVE  ArenaTypes'
<1>1. ASSUME NEW c \in 1..Len(ctxs), NEW v \in HostVars, ParamThrows(c, v)
      PROVE  ArenaTypes'
  <2> DEFINE x == [ctxs[c] EXCEPT !.params = <<>>]
  <2>1. /\ ctxs \in Seq(Contexts) /\ ctxs[c] \in Contexts
        /\ Inside(ctxs[c].copybacks)
    BY ContextIn DEF ArenaTypes
  <2>2. x \in Contexts /\ Inside(x.copybacks)
    BY <2>1, DropParams
  <2>3. ctxs' = [ctxs EXCEPT ![c] = x]
    BY <1>1 DEF ParamThrows
  <2> HIDE DEF x
  <2>4. Only(c, x)
    BY <2>1, <2>2, <2>3, ExceptOnly
  <2>5. /\ ctxs' \in Seq(Contexts) /\ Len(ctxs') <= MaxContexts
        /\ ctxs' # <<>>
        /\ \A d \in 1..Len(ctxs') : Inside(ctxs'[d].copybacks)
    BY <2>2, <2>4, OnlyKeeps
  <2>6. /\ mapped' \in BOOLEAN /\ stage' \in {"ready", "throwing"}
        /\ UNCHANGED <<idmem_offset, mem, host, cur, wrote>>
    BY <1>1 DEF ParamThrows, ArenaTypes, ArenaTypeOK
  <2>7. ArenaTypeOK'
    BY <2>5, <2>6 DEF ArenaTypes, ArenaTypeOK, Contexts
  <2> QED BY <2>5, <2>6, <2>7 DEF ArenaTypes, ArenaReclaimed
<1>2. ASSUME NEW c \in 1..Len(ctxs), CallBegins(c) PROVE ArenaTypes'
  <2>1. Len(ctxs) \in Nat /\ Len(ctxs) <= MaxContexts /\ MaxContexts \in Nat
    BY ContextIn, ArenaAssumption DEF ArenaTypes, ArenaTypeOK
  <2>2. cur' = c /\ c \in 0..MaxContexts
    BY <1>2, <2>1 DEF CallBegins
  <2>3. /\ stage' = "running"
        /\ UNCHANGED <<mapped, idmem_offset, mem, host, ctxs, wrote>>
    BY <1>2 DEF CallBegins
  <2> QED BY <2>2, <2>3 DEF ArenaTypes, ArenaTypeOK, ArenaReclaimed, Inside
<1>3. ASSUME NEW out \in [HostVars -> Vals], FunctionReturns(out)
      PROVE  ArenaTypes'
  <2>1. \A p \in Outs : p.var \in HostVars
    <3>1. cur \in 1..Len(ctxs)
      BY <1>3 DEF FunctionReturns, ArenaTypes
    <3>2. ctxs[cur].params \in Seq(Parameters)
      BY <3>1, ContextIn
    <3>3. \A i \in DOMAIN ctxs[cur].params : ctxs[cur].params[i] \in Parameters
      BY <3>2
    <3> QED BY <3>3 DEF Outs, Params, Parameters
  <2>2. mem' \in [Bytes -> Vals \cup {Torn}]
    <3>1. ASSUME NEW b \in Bytes, \E p \in Outs : b \in Piece(p.ptr, p.var)
          PROVE  out[(CHOOSE p \in Outs :
                        b \in Piece(p.ptr, p.var)).var] \in Vals
      BY <2>1, <3>1
    <3>2. mem' = [b \in Bytes |->
                    IF \E p \in Outs : b \in Piece(p.ptr, p.var)
                    THEN out[(CHOOSE p \in Outs :
                                b \in Piece(p.ptr, p.var)).var]
                    ELSE mem[b]]
      BY <1>3 DEF FunctionReturns
    <3>3. mem \in [Bytes -> Vals \cup {Torn}]
      BY DEF ArenaTypes, ArenaTypeOK
    <3> QED BY <3>1, <3>2, <3>3
  <2>3. wrote' \in [HostVars -> Vals]
    BY <1>3 DEF FunctionReturns, ArenaTypes, ArenaTypeOK
  <2>4. /\ stage = "running" /\ stage' = "finalize"
        /\ UNCHANGED <<mapped, idmem_offset, host, ctxs, cur>>
    BY <1>3 DEF FunctionReturns
  <2> QED BY <2>2, <2>3, <2>4
          DEF ArenaTypes, ArenaTypeOK, ArenaReclaimed, Inside
<1>4. CASE CallFinalizes
  <2> DEFINE x == [ctxs[cur] EXCEPT !.finalized = TRUE]
  <2>1. /\ cur \in 1..Len(ctxs) /\ stage' = "returned"
        /\ UNCHANGED <<mapped, idmem_offset, mem, cur, wrote>>
    BY <1>4 DEF CallFinalizes, ArenaTypes
  <2>2. /\ ctxs \in Seq(Contexts) /\ ctxs[cur] \in Contexts
        /\ ctxs[cur].copybacks \in Seq(Copybacks)
        /\ Inside(ctxs[cur].copybacks)
    BY <2>1, ContextIn DEF ArenaTypes
  <2>3. x \in Contexts /\ Inside(x.copybacks)
    BY <2>2 DEF Contexts
  <2>4. ctxs' = [ctxs EXCEPT ![cur] = x]
    BY <1>4 DEF CallFinalizes
  <2> HIDE DEF x
  <2>5. Only(cur, x)
    BY <2>1, <2>2, <2>3, <2>4, ExceptOnly
  <2>6. /\ ctxs' \in Seq(Contexts) /\ Len(ctxs') <= MaxContexts
        /\ ctxs' # <<>>
        /\ \A d \in 1..Len(ctxs') : Inside(ctxs'[d].copybacks)
        /\ \A i \in 1..Len(ctxs) : i \in 1..Len(ctxs')
    BY <2>1, <2>3, <2>5, OnlyKeeps
  <2>7. host' \in [HostVars -> Vals \cup {Torn}]
    BY <1>4, <2>2, CopyBackIn
       DEF CallFinalizes, Finalized, ArenaTypes, ArenaTypeOK
  <2>8. ArenaTypeOK'
    BY <2>1, <2>6, <2>7 DEF ArenaTypes, ArenaTypeOK, Contexts
  <2> QED BY <2>1, <2>6, <2>8 DEF ArenaTypes, ArenaReclaimed
<1>5. CASE CallReturns
  <2> DEFINE x == [ctxs[cur] EXCEPT !.params = <<>>]
  <2>1. /\ cur \in 1..Len(ctxs) /\ stage' = "ready" /\ cur' = 0
        /\ wrote' = [v \in HostVars |-> Initial]
        /\ UNCHANGED <<mapped, idmem_offset, mem, host>>
    BY <1>5 DEF CallReturns, ArenaTypes
  <2>2. /\ ctxs \in Seq(Contexts) /\ ctxs[cur] \in Contexts
        /\ Inside(ctxs[cur].copybacks)
    BY <2>1, ContextIn DEF ArenaTypes
  <2>3. x \in Contexts /\ Inside(x.copybacks)
    BY <2>2, DropParams
  <2>4. ctxs' = [ctxs EXCEPT ![cur] = x]
    BY <1>5 DEF CallReturns
  <2> HIDE DEF x
  <2>5. Only(cur, x)
    BY <2>1, <2>2, <2>3, <2>4, ExceptOnly
  <2>6. /\ ctxs' \in Seq(Contexts) /\ Len(ctxs') <= MaxContexts
        /\ ctxs' # <<>>
        /\ \A d \in 1..Len(ctxs') : Inside(ctxs'[d].copybacks)
    BY <2>1, <2>3, <2>5, OnlyKeeps
  <2>7. wrote' \in [HostVars -> Vals] /\ 0 \in 0..MaxContexts
    BY <2>1, ArenaAssumption, InitialAssumption
  <2>8. ArenaTypeOK'
    BY <2>1, <2>6, <2>7 DEF ArenaTypes, ArenaTypeOK, Contexts
  <2> QED BY <2>1, <2>6, <2>8 DEF ArenaTypes, ArenaReclaimed
<1> QED BY <1>1, <1>2, <1>3, <1>4, <1>5

\* Contexts come and go.
LEMMA ScopeKeepsTypes ==
  ASSUME ArenaTypes, NewContext \/ Destroy
  PROVE  ArenaTypes'
<1>1. ctxs \in Seq(Contexts) /\ Len(ctxs) \in Nat
  BY DEF ArenaTypes, ArenaTypeOK, Contexts
<1>2. CASE NewContext
  <2>1. NewCtx \in Contexts /\ Inside(NewCtx.copybacks)
    BY DEF NewCtx, Contexts, Inside
  <2>2. /\ ctxs' = Append(ctxs, NewCtx) /\ Len(ctxs) < MaxContexts
        /\ UNCHANGED <<mapped, idmem_offset, mem, host, stage, cur, wrote>>
    BY <1>2 DEF NewContext
  <2>3. /\ ctxs' \in Seq(Contexts) /\ Len(ctxs') = Len(ctxs) + 1
        /\ ctxs' # <<>>
        /\ \A i \in 1..Len(ctxs') :
             ctxs'[i] = IF i = Len(ctxs) + 1 THEN NewCtx ELSE ctxs[i]
    BY <1>1, <2>1, <2>2
  <2>4. Len(ctxs') <= MaxContexts
    BY <1>1, <2>2, <2>3, ArenaAssumption
  <2>5. ArenaTypeOK'
    BY <2>2, <2>3, <2>4 DEF ArenaTypes, ArenaTypeOK, Contexts
  <2>6. \A i \in 1..Len(ctxs') : Inside(ctxs'[i].copybacks)
    BY <1>1, <2>1, <2>3 DEF ArenaTypes
  <2>7. stage' = "ready"
    BY <1>2 DEF NewContext
  <2> QED BY <2>3, <2>5, <2>6, <2>7 DEF ArenaTypes, ArenaReclaimed
<1>3. CASE Destroy
  <2>1. Len(ctxs) \in 1..Len(ctxs)
    BY <1>1, <1>3 DEF Destroy
  <2>2. /\ ctxs' = SubSeq(ctxs, 1, Len(ctxs) - 1)
        /\ idmem_offset' = 0 /\ host' = Finalized(Len(ctxs))
        /\ stage' \in {"ready", "throwing"}
        /\ UNCHANGED <<mapped, mem, cur, wrote>>
    BY <1>3 DEF Destroy, Front, IdmemReset
  <2>3. /\ ctxs' \in Seq(Contexts) /\ Len(ctxs') = Len(ctxs) - 1
        /\ \A i \in 1..Len(ctxs') : ctxs'[i] = ctxs[i] /\ i \in 1..Len(ctxs)
    <3> DEFINE n == Len(ctxs) - 1
    <3>1. n \in Nat /\ n <= Len(ctxs) /\ 1 \in 1..(Len(ctxs) + 1)
      BY <1>1, <2>1
    <3>2. /\ SubSeq(ctxs, 1, n) \in Seq(Contexts)
          /\ Len(SubSeq(ctxs, 1, n)) = n
          /\ \A i \in 1..n : SubSeq(ctxs, 1, n)[i] = ctxs[i]
      <4> HIDE DEF n
      <4> QED BY <1>1, <3>1
    <3> QED BY <1>1, <2>2, <3>1, <3>2
  <2>4. Len(ctxs') <= MaxContexts
    BY <1>1, <2>3, ArenaAssumption DEF ArenaTypes, ArenaTypeOK
  <2>5. host' \in [HostVars -> Vals \cup {Torn}]
    <3>1. /\ ctxs[Len(ctxs)].copybacks \in Seq(Copybacks)
          /\ Inside(ctxs[Len(ctxs)].copybacks)
      BY <2>1, ContextIn DEF ArenaTypes
    <3> QED BY <2>2, <3>1, CopyBackIn DEF Finalized, ArenaTypes, ArenaTypeOK
  <2>6. idmem_offset' \in 0..ArenaSize
    BY <2>2, ArenaAssumption
  <2>7. ArenaTypeOK'
    BY <2>2, <2>3, <2>4, <2>5, <2>6 DEF ArenaTypes, ArenaTypeOK, Contexts
  <2> QED BY <2>2, <2>3, <2>7 DEF ArenaTypes, ArenaReclaimed
<1> QED BY <1>2, <1>3

----------------------------------------------------------------------------
\* A parameter of a context, and the bytes of its piece.
LEMMA PieceIs ==
  ASSUME NEW p \in Parameters
  PROVE  /\ p.var \in HostVars /\ p.ptr \in Nat /\ SizeOf[p.var] \in Nat
         /\ SizeOf[p.var] > 0
         /\ \A b : b \in Piece(p.ptr, p.var) <=>
              b \in Int /\ p.ptr <= b /\ b < p.ptr + SizeOf[p.var]
<1>1. p.var \in HostVars /\ p.ptr \in 0..ArenaSize
  BY DEF Parameters
<1>2. p.ptr \in Nat /\ SizeOf[p.var] \in Nat /\ SizeOf[p.var] > 0
  BY <1>1, ArenaAssumption
<1> QED BY <1>1, <1>2 DEF Piece

\* No two parameters share a byte.
LEMMA PlacedApart ==
  ASSUME NEW ps \in Seq(Parameters), NEW n \in Nat, Placed(ps, n),
         NEW i \in 1..Len(ps), NEW j \in 1..Len(ps), i # j
  PROVE  Piece(ps[i].ptr, ps[i].var) \cap Piece(ps[j].ptr, ps[j].var) = {}
<1>1. ps[i] \in Parameters /\ ps[j] \in Parameters /\ i \in Nat /\ j \in Nat
  OBVIOUS
<1>2. i \in 1..(j - 1) \/ j \in 1..(i - 1)
  OBVIOUS
<1>3. \/ ps[i].ptr + SizeOf[ps[i].var] <= ps[j].ptr
      \/ ps[j].ptr + SizeOf[ps[j].var] <= ps[i].ptr
  BY <1>2 DEF Placed
<1> SUFFICES ASSUME NEW b \in Piece(ps[i].ptr, ps[i].var),
                    b \in Piece(ps[j].ptr, ps[j].var)
             PROVE  FALSE
  OBVIOUS
<1>4. /\ b \in Int /\ ps[i].ptr <= b /\ b < ps[i].ptr + SizeOf[ps[i].var]
      /\ ps[i].ptr \in Nat /\ SizeOf[ps[i].var] \in Nat
  BY <1>1, PieceIs
<1>5. /\ ps[j].ptr <= b /\ b < ps[j].ptr + SizeOf[ps[j].var]
      /\ ps[j].ptr \in Nat /\ SizeOf[ps[j].var] \in Nat
  BY <1>1, PieceIs
<1>6. CASE ps[i].ptr + SizeOf[ps[i].var] <= ps[j].ptr
  BY <1>4, <1>5, <1>6
<1>7. CASE ps[j].ptr + SizeOf[ps[j].var] <= ps[i].ptr
  BY <1>4, <1>5, <1>7
<1> QED BY <1>3, <1>6, <1>7

\* The parameters and one more.
LEMMA AppendIs ==
  ASSUME NEW ps \in Seq(Parameters), NEW q \in Parameters
  PROVE  /\ Len(ps) \in Nat /\ Len(Append(ps, q)) = Len(ps) + 1
         /\ \A i \in 1..Len(ps) : Append(ps, q)[i] = ps[i]
         /\ Append(ps, q)[Len(ps) + 1] = q
         /\ \A i \in 1..Len(ps) : ps[i] \in Parameters
OBVIOUS

\* A new parameter is placed after the others, which keep their values.
LEMMA ParamKeeps ==
  ASSUME ArenaInd, NEW c \in 1..Len(ctxs), NEW k \in Kinds,
         NEW v \in HostVars, Param(c, k, v)
  PROVE  ArenaInd'
<1> DEFINE ps == ctxs[c].params
           cbs == ctxs[c].copybacks
           q == NewParam(k, v)
           cb == [var |-> v, ptr |-> idmem_offset]
           x == WithParam(ctxs[c], k, v)
<1>1. ArenaTypes /\ ArenaTypes'
  BY ParamKeepsTypes DEF ArenaInd
<1>2. x \in Contexts /\ Only(c, x)
  BY <1>1, ParamMakes
<1>3. /\ ps \in Seq(Parameters) /\ cbs \in Seq(Copybacks) /\ Len(ctxs) \in Nat
  BY <1>1, ContextIn
<1>4. /\ q \in Parameters /\ q.ptr = idmem_offset /\ q.var = v /\ q.kind = k
      /\ q.val = host[v] /\ cb \in Copybacks
  BY <1>1 DEF ArenaTypes, ArenaTypeOK, NewParam, Parameters, Copybacks
<1>5. /\ Placed(ps, idmem_offset) /\ Registered(ps, cbs) /\ Held(ps, mem)
      /\ \A i \in 1..Len(ps) : ps[i].var # v
      /\ stage = "ready" /\ stage' = "ready"
  <2>1. Ready(c, v) /\ stage' = stage
    BY DEF Param
  <2> QED BY <1>3, <2>1 DEF ArenaInd, Ready
<1>6. /\ x.params = Append(ps, q)
      /\ x.copybacks = IF k = "in" THEN cbs ELSE Append(cbs, cb)
  BY DEF WithParam, NewParam
<1>7. /\ Len(ctxs') <= 1 /\ \A d \in 1..Len(ctxs') : d = c
      /\ ctxs'[c] = x
  BY <1>2, <1>3 DEF Only, ArenaInd
<1>8. /\ idmem_offset' = idmem_offset + RoundUp(SizeOf[v])
      /\ idmem_offset' \in 0..ArenaSize /\ idmem_offset \in 0..ArenaSize
      /\ idmem_offset + SizeOf[v] <= idmem_offset'
      /\ idmem_offset <= idmem_offset'
      /\ idmem_offset \in Nat /\ idmem_offset' \in Nat
  <2>1. /\ idmem_offset \in 0..ArenaSize /\ HasRoom(v)
        /\ idmem_offset' = idmem_offset + RoundUp(SizeOf[v])
    BY <1>1 DEF Param, ArenaTypes, ArenaTypeOK
  <2>2. /\ idmem_offset' \in 0..ArenaSize
        /\ idmem_offset + SizeOf[v] <= idmem_offset'
    BY <2>1, RoomForPiece
  <2> QED BY <2>1, <2>2, ArenaAssumption
<1> DEFINE h == Append(ps, q)
<1>9. /\ Len(ps) \in Nat /\ Len(h) = Len(ps) + 1
      /\ \A i \in 1..Len(ps) : h[i] = ps[i]
      /\ h[Len(ps) + 1] = q
      /\ \A i \in 1..Len(ps) : ps[i] \in Parameters
  BY <1>3, <1>4, AppendIs
<1>10. mem' = IF k = "out" THEN mem ELSE Store(mem, idmem_offset, v, host[v])
  BY DEF Param
<1> HIDE DEF ps, cbs, q, cb, x, h
<1>11. Placed(h, idmem_offset')
  <2> SUFFICES ASSUME NEW i \in 1..(Len(ps) + 1)
               PROVE  /\ h[i].ptr + SizeOf[h[i].var] <= idmem_offset'
                      /\ \A j \in 1..(i - 1) :
                           h[j].ptr + SizeOf[h[j].var] <= h[i].ptr
    BY <1>9 DEF Placed
  <2>1. CASE i = Len(ps) + 1
    <3>1. \A j \in 1..(i - 1) : ps[j].ptr + SizeOf[ps[j].var] <= idmem_offset
      BY <1>5, <1>9, <2>1 DEF Placed
    <3>2. h[i] = q /\ \A j \in 1..(i - 1) : h[j] = ps[j]
      BY <1>9, <2>1
    <3> QED BY <1>4, <1>8, <3>1, <3>2
  <2>2. CASE i \in 1..Len(ps)
    <3>1. /\ ps[i].ptr + SizeOf[ps[i].var] <= idmem_offset
          /\ \A j \in 1..(i - 1) : ps[j].ptr + SizeOf[ps[j].var] <= ps[i].ptr
      BY <1>5, <2>2 DEF Placed
    <3>2. h[i] = ps[i] /\ \A j \in 1..(i - 1) : h[j] = ps[j]
      BY <1>9, <2>2
    <3>3. ps[i].ptr \in Nat /\ SizeOf[ps[i].var] \in Nat
      BY <1>9, <2>2, PieceIs
    <3>4. ps[i].ptr + SizeOf[ps[i].var] \in Nat
      BY <3>3
    <3> QED BY <1>8, <3>1, <3>2, <3>4
  <2> QED BY <1>9, <2>1, <2>2
<1>12. Registered(h, x.copybacks)
  <2> SUFFICES ASSUME NEW i \in 1..(Len(ps) + 1), h[i].kind # "in"
               PROVE  \E l \in 1..Len(x.copybacks) :
                        /\ x.copybacks[l] =
                             [var |-> h[i].var, ptr |-> h[i].ptr]
                        /\ \A m \in 1..Len(x.copybacks) :
                             m > l => x.copybacks[m].var # h[i].var
    BY <1>9 DEF Registered
  <2>1. CASE k = "in"
    <3>1. i \in 1..Len(ps) /\ h[i] = ps[i]
      BY <1>4, <1>9, <2>1
    <3>2. x.copybacks = cbs /\ ps[i].kind # "in"
      BY <1>6, <2>1, <3>1
    <3>3. PICK l \in 1..Len(cbs) :
            /\ cbs[l] = [var |-> ps[i].var, ptr |-> ps[i].ptr]
            /\ \A m \in 1..Len(cbs) : m > l => cbs[m].var # ps[i].var
      BY <1>5, <3>1, <3>2 DEF Registered
    <3> QED BY <3>1, <3>2, <3>3
  <2>2. CASE k # "in"
    <3>1. /\ Len(cbs) \in Nat /\ Len(x.copybacks) = Len(cbs) + 1
          /\ \A l \in 1..Len(cbs) : x.copybacks[l] = cbs[l]
          /\ x.copybacks[Len(cbs) + 1] = cb
      BY <1>3, <1>4, <1>6, <2>2
    <3>2. CASE i = Len(ps) + 1
      <4>1. h[i].var = v /\ h[i].ptr = idmem_offset
        BY <1>4, <1>9, <3>2
      <4>2. Len(cbs) + 1 \in 1..Len(x.copybacks)
        BY <3>1
      <4>3. \A m \in 1..Len(x.copybacks) : ~(m > Len(cbs) + 1)
        BY <3>1
      <4> QED BY <3>1, <4>1, <4>2, <4>3 DEF cb
    <3>3. CASE i \in 1..Len(ps)
      <4>1. h[i] = ps[i] /\ ps[i].var # v
        BY <1>5, <1>9, <3>3
      <4>2. PICK l \in 1..Len(cbs) :
              /\ cbs[l] = [var |-> ps[i].var, ptr |-> ps[i].ptr]
              /\ \A m \in 1..Len(cbs) : m > l => cbs[m].var # ps[i].var
        BY <1>5, <3>3, <4>1 DEF Registered
      <4>3. cb.var = v
        BY DEF cb
      <4>4. ASSUME NEW m \in 1..Len(x.copybacks), m > l
            PROVE  x.copybacks[m].var # ps[i].var
        <5>1. CASE m = Len(cbs) + 1
          BY <3>1, <4>1, <4>3, <5>1
        <5>2. CASE m \in 1..Len(cbs)
          BY <3>1, <4>2, <4>4, <5>2
        <5> QED BY <3>1, <5>1, <5>2
      <4>5. l \in 1..Len(x.copybacks) /\ x.copybacks[l] = cbs[l]
        BY <3>1
      <4> QED BY <4>1, <4>2, <4>4, <4>5
    <3> QED BY <1>9, <3>2, <3>3
  <2> QED BY <2>1, <2>2
<1>13. Held(h, mem')
  <2> SUFFICES ASSUME NEW i \in 1..(Len(ps) + 1), h[i].kind # "out",
                      NEW b \in Piece(h[i].ptr, h[i].var)
               PROVE  mem'[b] = h[i].val
    BY <1>9 DEF Held
  <2>1. CASE i = Len(ps) + 1
    <3>1. h[i] = q /\ k # "out" /\ b \in Piece(idmem_offset, v)
      BY <1>4, <1>9, <2>1
    <3>2. b \in Bytes
      <4>1. b \in Int /\ idmem_offset <= b /\ b < idmem_offset + SizeOf[v]
        BY <1>4, <3>1, PieceIs
      <4>2. SizeOf[v] \in Nat /\ ArenaSize \in Nat
        BY ArenaAssumption
      <4> QED BY <1>8, <4>1, <4>2 DEF Bytes
    <3> QED BY <1>4, <1>10, <3>1, <3>2 DEF Store
  <2>2. CASE i \in 1..Len(ps)
    <3>1. h[i] = ps[i] /\ ps[i] \in Parameters
      BY <1>9, <2>2
    <3>2. /\ b \in Int /\ ps[i].ptr <= b /\ b < ps[i].ptr + SizeOf[ps[i].var]
          /\ ps[i].ptr \in Nat /\ SizeOf[ps[i].var] \in Nat
      BY <3>1, PieceIs
    <3>3. ps[i].ptr + SizeOf[ps[i].var] <= idmem_offset
      BY <1>5, <2>2 DEF Placed
    <3>4. b \in Bytes /\ b < idmem_offset
      <4>1. /\ ArenaSize \in Nat /\ idmem_offset \in Nat
            /\ idmem_offset <= ArenaSize
        BY <1>8, ArenaAssumption
      <4>2. b < idmem_offset /\ b >= 0
        BY <3>2, <3>3, <4>1
      <4> QED BY <3>2, <4>1, <4>2 DEF Bytes
    <3>5. b \notin Piece(idmem_offset, v)
      <4>1. b \in Piece(idmem_offset, v) => idmem_offset <= b
        BY <1>4, PieceIs
      <4> QED BY <1>8, <3>2, <3>4, <4>1
    <3>6. mem'[b] = mem[b]
      BY <1>1, <1>10, <3>4, <3>5 DEF Store
    <3> QED BY <1>5, <2>2, <3>1, <3>6 DEF Held
  <2> QED BY <1>9, <2>1, <2>2
<1>14. x.params = h
  BY <1>6 DEF h
<1> QED BY <1>1, <1>5, <1>6, <1>7, <1>11, <1>12, <1>13, <1>14
        DEF ArenaInd

\* When there is at most one context, it is the one that is used.
LEMMA OnlyOne ==
  ASSUME ArenaInd, NEW c \in 1..Len(ctxs)
  PROVE  c = 1 /\ Len(ctxs) = 1 /\ \A d \in 1..Len(ctxs) : d = c
<1>1. Len(ctxs) \in Nat /\ Len(ctxs) <= 1
  BY ContextIn DEF ArenaInd
<1> QED BY <1>1

\* Without parameters nothing is to be shown of them.
LEMMA NoParams ==
  ASSUME NEW n, NEW m, NEW cbs
  PROVE  /\ Placed(<<>>, n) /\ Registered(<<>>, cbs) /\ Held(<<>>, m)
         /\ Stored(<<>>, m)
<1>1. 1..Len(<<>>) = {}
  OBVIOUS
<1> QED BY <1>1 DEF Placed, Registered, Held, Stored

\* Where the parameters of the call are gone.
LEMMA DropKeeps ==
  ASSUME ArenaInd,
         \/ \E c \in 1..Len(ctxs), v \in HostVars : ParamThrows(c, v)
         \/ CallReturns
  PROVE  ArenaInd'
<1>1. ArenaTypes /\ ArenaTypes'
  BY CallKeepsTypes DEF ArenaInd
<1>2. PICK c \in 1..Len(ctxs) : ctxs' = [ctxs EXCEPT ![c].params = <<>>]
  BY <1>1 DEF ParamThrows, CallReturns, ArenaTypes
<1>3. stage' # "returned"
  BY DEF ParamThrows, CallReturns
<1>4. /\ ctxs \in Seq(Contexts) /\ ctxs[c] \in Contexts
  BY <1>1, ContextIn
<1> DEFINE x == [ctxs[c] EXCEPT !.params = <<>>]
<1>5. x \in Contexts /\ x.params = <<>> /\ ctxs' = [ctxs EXCEPT ![c] = x]
  BY <1>2, <1>4, DropParams
<1> HIDE DEF x
<1>6. Only(c, x)
  BY <1>4, <1>5, ExceptOnly
<1>7. /\ Len(ctxs') <= 1
      /\ \A d \in 1..Len(ctxs') : ctxs'[d].params = <<>>
  BY <1>5, <1>6, OnlyOne DEF Only, ArenaInd
<1>8. 1..Len(<<>>) = {}
  OBVIOUS
<1>9. \A d \in 1..Len(ctxs') :
        /\ Placed(ctxs'[d].params, idmem_offset')
        /\ Registered(ctxs'[d].params, ctxs'[d].copybacks)
        /\ Held(ctxs'[d].params, mem')
  BY <1>7, NoParams
<1>10. \A d \in 1..Len(ctxs') : 1..Len(ctxs'[d].params) = {}
  BY <1>7, <1>8
<1> QED BY <1>1, <1>3, <1>7, <1>9, <1>10 DEF ArenaInd, Stored

\* A call begins with what was passed.
LEMMA BeginKeeps ==
  ASSUME ArenaInd, NEW c \in 1..Len(ctxs), CallBegins(c)
  PROVE  ArenaInd'
<1>1. ArenaTypes /\ ArenaTypes'
  BY CallKeepsTypes DEF ArenaInd
<1>2. /\ stage = "ready" /\ stage' = "running"
      /\ UNCHANGED <<idmem_offset, mem, ctxs>>
  BY DEF CallBegins
<1> QED BY <1>1, <1>2 DEF ArenaInd

\* What the function stores for an output is stored in the output's piece:
\* no other output has a byte of it.
LEMMA FunctionKeeps ==
  ASSUME ArenaInd, NEW out \in [HostVars -> Vals], FunctionReturns(out)
  PROVE  ArenaInd'
<1>1. ArenaTypes /\ ArenaTypes'
  BY CallKeepsTypes DEF ArenaInd
<1> DEFINE ps == ctxs[cur].params
<1>2. /\ stage = "running" /\ stage' = "finalize"
      /\ UNCHANGED <<idmem_offset, ctxs, cur>> /\ cur \in 1..Len(ctxs)
  BY <1>1 DEF FunctionReturns, ArenaTypes
<1>3. ps \in Seq(Parameters) /\ Placed(ps, idmem_offset)
  BY <1>1, <1>2, ContextIn DEF ArenaInd
<1>4. idmem_offset \in Nat /\ idmem_offset <= ArenaSize /\ ArenaSize \in Nat
  BY <1>1, ArenaAssumption DEF ArenaTypes, ArenaTypeOK
<1>5. Stored(ps, mem)'
  <2>1. ps' = ps
    BY <1>2
  <2> SUFFICES ASSUME NEW i \in 1..Len(ps), ps[i].kind # "in",
                      NEW b \in Piece(ps[i].ptr, ps[i].var)
               PROVE  mem'[b] = wrote'[ps[i].var]
    BY <2>1 DEF Stored
  <2>2. ps[i] \in Parameters /\ ps[i] \in Outs
    BY <1>3 DEF Outs, Params
  <2>3. ps[i].var \in HostVars /\ b \in Bytes
    <3>1. /\ ps[i].var \in HostVars /\ ps[i].ptr \in Nat
          /\ SizeOf[ps[i].var] \in Nat /\ b \in Int
          /\ ps[i].ptr <= b /\ b < ps[i].ptr + SizeOf[ps[i].var]
      BY <2>2, PieceIs
    <3>2. ps[i].ptr + SizeOf[ps[i].var] <= idmem_offset
      BY <1>3 DEF Placed
    <3>3. 0 <= b /\ b <= ArenaSize - 1
      BY <1>4, <3>1, <3>2
    <3> QED BY <1>4, <3>1, <3>3 DEF Bytes
  <2> DEFINE p == CHOOSE p \in Outs : b \in Piece(p.ptr, p.var)
  <2>4. p \in Outs /\ b \in Piece(p.ptr, p.var)
    BY <2>2
  <2>5. p = ps[i]
    <3> HIDE DEF p
    <3>1. PICK j \in 1..Len(ps) : p = ps[j]
      BY <1>3, <2>4 DEF Outs, Params
    <3>2. CASE j = i
      BY <3>1, <3>2
    <3>3. CASE j # i
      <4> HIDE DEF ps
      <4>1. Piece(ps[i].ptr, ps[i].var) \cap Piece(ps[j].ptr, ps[j].var) = {}
        BY <1>3, <1>4, <3>3, PlacedApart
      <4> QED BY <2>4, <3>1, <4>1
    <3> QED BY <3>2, <3>3
  <2>6. mem'[b] = out[p.var]
    BY <2>2, <2>3 DEF FunctionReturns
  <2>7. wrote'[ps[i].var] = out[ps[i].var]
    BY <2>2, <2>3 DEF FunctionReturns
  <2> QED BY <2>5, <2>6, <2>7
<1>6. \A d \in 1..Len(ctxs') : d = cur /\ ctxs'[d] = ctxs[cur]
  BY <1>2, OnlyOne
<1> QED BY <1>1, <1>2, <1>5, <1>6 DEF ArenaInd

\* The parameters stay where they are while the outputs are copied back.
LEMMA FinalizeKeeps ==
  ASSUME ArenaInd, CallFinalizes
  PROVE  ArenaInd'
<1>1. ArenaTypes /\ ArenaTypes'
  BY CallKeepsTypes DEF ArenaInd
<1> DEFINE x == [ctxs[cur] EXCEPT !.finalized = TRUE]
<1>2. /\ stage = "finalize" /\ stage' = "returned" /\ cur \in 1..Len(ctxs)
      /\ UNCHANGED <<idmem_offset, cur>>
      /\ ctxs' = [ctxs EXCEPT ![cur].finalized = TRUE]
  BY <1>1 DEF CallFinalizes, ArenaTypes
<1>3. ctxs \in Seq(Contexts) /\ ctxs[cur] \in Contexts
  BY <1>1, <1>2, ContextIn
<1>4. /\ x \in Contexts /\ x.params = ctxs[cur].params
      /\ x.copybacks = ctxs[cur].copybacks
  BY <1>3 DEF Contexts
<1>5. ctxs' = [ctxs EXCEPT ![cur] = x]
  BY <1>2
<1> HIDE DEF x
<1>6. Only(cur, x)
  BY <1>2, <1>3, <1>4, <1>5, ExceptOnly
<1>7. /\ ctxs'[cur] = x /\ \A d \in 1..Len(ctxs') : d = cur
      /\ Len(ctxs') <= 1
  BY <1>2, <1>6, OnlyOne DEF Only, ArenaInd
<1> QED BY <1>1, <1>2, <1>4, <1>7 DEF ArenaInd

\* The copy backs of a context that is used for the first time bring the
\* outputs to their variables.
LEMMA FinalizeDelivers ==
  ASSUME ArenaInd, CallFinalizes, ~ctxs[cur].finalized, NEW q \in Outs
  PROVE  host'[q.var] = wrote[q.var]
<1>1. ArenaTypes /\ stage = "finalize" /\ cur \in 1..Len(ctxs)
  BY DEF ArenaInd, CallFinalizes, ArenaTypes
<1> DEFINE ps == ctxs[cur].params
           cbs == ctxs[cur].copybacks
<1>2. ps \in Seq(Parameters) /\ cbs \in Seq(Copybacks)
  BY <1>1, ContextIn
<1>3. Registered(ps, cbs) /\ Stored(ps, mem)
  BY <1>1 DEF ArenaInd
<1>4. PICK i \in 1..Len(ps) : q = ps[i] /\ ps[i].kind # "in"
  BY <1>2 DEF Outs, Params
<1> DEFINE v == ps[i].var
           p == ps[i].ptr
<1>5. v \in HostVars /\ p \in Nat /\ p \in Piece(p, v)
  <2>1. ps[i] \in Parameters
    BY <1>2
  <2>2. v \in HostVars /\ p \in Nat /\ SizeOf[v] \in Nat /\ SizeOf[v] > 0
    BY <2>1, PieceIs
  <2> QED BY <2>2 DEF Piece
<1>6. host' = CopyBack(cbs)
  BY DEF CallFinalizes, Finalized
<1>7. PICK k \in 1..Len(cbs) :
        /\ cbs[k] = [var |-> v, ptr |-> p]
        /\ \A l \in 1..Len(cbs) : l > k => cbs[l].var # v
  BY <1>3, <1>4 DEF Registered
<1>8. \A b \in Piece(p, v) : mem[b] = wrote[v]
  BY <1>3, <1>4 DEF Stored
<1>9. \A b \in Piece(p, v) : mem[b] = mem[p]
  BY <1>5, <1>8
<1>10. q.var = v
  BY <1>4
<1> HIDE DEF ps, cbs, v, p
<1>11. CopyBack(cbs)[v] = mem[p]
  BY <1>2, <1>5, <1>7, <1>9, CopyBackDelivers
<1> QED BY <1>5, <1>6, <1>8, <1>10, <1>11

\* A context begins without parameters, and none is left after the only one.
LEMMA ScopeKeeps ==
  ASSUME MaxContexts = 1, ArenaInd, NewContext \/ Destroy
  PROVE  ArenaInd'
<1>1. /\ ArenaTypes /\ ArenaTypes' /\ ctxs \in Seq(Contexts)
      /\ Len(ctxs) \in Nat /\ Len(ctxs) <= 1
  BY ScopeKeepsTypes DEF ArenaInd, ArenaTypes, ArenaTypeOK, Contexts
<1>2. \A i \in 1..Len(<<>>) : FALSE
  OBVIOUS
<1>3. CASE NewContext
  <2>1. ctxs = <<>> /\ stage = "ready" /\ UNCHANGED stage
        /\ ctxs' = Append(ctxs, NewCtx)
    BY <1>1, <1>3 DEF NewContext
  <2>2. Len(ctxs') = 1 /\ \A d \in 1..Len(ctxs') : ctxs'[d] = NewCtx
    BY <2>1
  <2>3. NewCtx.params = <<>>
    BY DEF NewCtx
  <2> QED BY <1>1, <1>2, <2>1, <2>2, <2>3
          DEF ArenaInd, Placed, Registered, Held, Stored
<1>4. CASE Destroy
  <2>1. ctxs # <<>> /\ ctxs' = SubSeq(ctxs, 1, Len(ctxs) - 1)
        /\ stage' \in {"ready", "throwing"}
    BY <1>4 DEF Destroy, Front
  <2>2. Len(ctxs) = 1
    <3>1. ctxs \in Seq(Contexts) /\ Len(ctxs) \in Nat /\ ctxs # <<>>
      BY <1>1, <2>1
    <3>2. Len(ctxs) # 0
      BY <3>1
    <3> QED BY <1>1, <3>1, <3>2
  <2>3. Len(ctxs') = 0
    BY <1>1, <2>1, <2>2
  <2> QED BY <1>1, <2>1, <2>3 DEF ArenaInd
<1> QED BY <1>3, <1>4

----------------------------------------------------------------------------
\* There is no context at first.
LEMMA ArenaStarts ==
  ASSUME ArenaInit
  PROVE  ArenaTypes /\ ArenaInd
<1>1. ctxs = <<>> /\ stage = "ready" /\ idmem_offset = 0 /\ cur = 0
  BY DEF ArenaInit
<1>2. ctxs \in Seq(Contexts) /\ Len(ctxs) = 0
  BY <1>1
<1>3. /\ 0 \in 0..ArenaSize /\ 0 \in 0..MaxContexts /\ 0 <= MaxContexts
  BY ArenaAssumption
<1>4. /\ mapped \in BOOLEAN /\ mem \in [Bytes -> Vals \cup {Torn}]
      /\ host \in [HostVars -> Vals \cup {Torn}]
      /\ wrote \in [HostVars -> Vals]
  BY InitialAssumption DEF ArenaInit
<1>5. ArenaTypeOK
  BY <1>1, <1>2, <1>3, <1>4 DEF ArenaTypeOK, Contexts
<1>6. ArenaTypes
  BY <1>1, <1>2, <1>5 DEF ArenaTypes, ArenaReclaimed
<1> QED BY <1>1, <1>2, <1>6 DEF ArenaInd

\* A context that a step names is one that is alive.
LEMMA ArenaSteps ==
  ASSUME ArenaTypes, ArenaNext
  PROVE  \/ NewContext \/ Destroy
         \/ \E c \in 1..Len(ctxs), k \in Kinds, v \in HostVars : Param(c, k, v)
         \/ \E c \in 1..Len(ctxs), v \in HostVars : ParamThrows(c, v)
         \/ \E c \in 1..Len(ctxs) : CallBegins(c)
         \/ \E out \in [HostVars -> Vals] : FunctionReturns(out)
         \/ CallFinalizes \/ CallReturns
<1>1. DOMAIN ctxs = 1..Len(ctxs)
  BY DEF ArenaTypes, ArenaTypeOK
<1>2. ASSUME NEW c \in 1..MaxContexts, NEW v \in HostVars,
             \/ \E k \in Kinds : Param(c, k, v)
             \/ ParamThrows(c, v)
      PROVE  c \in 1..Len(ctxs)
  BY <1>1, <1>2 DEF Param, ParamThrows, Ready
<1>3. ASSUME NEW c \in 1..MaxContexts, CallBegins(c)
      PROVE  c \in 1..Len(ctxs)
  BY <1>1, <1>3 DEF CallBegins
<1> QED BY <1>2, <1>3 DEF ArenaNext

\* What holds of all callers.
LEMMA ArenaTypesHold == ArenaSpec => []ArenaTypes
<1>1. ArenaInit => ArenaTypes
  BY ArenaStarts
<1>2. ArenaTypes /\ [ArenaNext]_arenaVars => ArenaTypes'
  <2> SUFFICES ASSUME ArenaTypes, [ArenaNext]_arenaVars
               PROVE  ArenaTypes'
    OBVIOUS
  <2>1. CASE ArenaNext
    BY <2>1, ArenaSteps, ParamKeepsTypes, CallKeepsTypes, ScopeKeepsTypes
  <2>2. CASE UNCHANGED arenaVars
    BY <2>2 DEF arenaVars, ArenaTypes, ArenaTypeOK, ArenaReclaimed, Inside
  <2> QED BY <2>1, <2>2
<1> QED BY <1>1, <1>2, PTL DEF ArenaSpec

\* What holds when no two contexts are alive at a time.
LEMMA ArenaIndHolds ==
  ASSUME MaxContexts = 1
  PROVE  ArenaSpec => []ArenaInd
<1>1. ArenaInit => ArenaInd
  BY ArenaStarts
<1>2. ArenaInd /\ [ArenaNext]_arenaVars => ArenaInd'
  <2> SUFFICES ASSUME ArenaInd, [ArenaNext]_arenaVars
               PROVE  ArenaInd'
    OBVIOUS
  <2>1. CASE ArenaNext
    <3>1. ArenaTypes
      BY DEF ArenaInd
    <3> QED BY <2>1, <3>1, ArenaSteps, ParamKeeps, DropKeeps, BeginKeeps,
               FunctionKeeps, FinalizeKeeps, ScopeKeeps
  <2>2. CASE UNCHANGED arenaVars
    <3>1. ArenaTypes'
      BY <2>2 DEF arenaVars, ArenaInd, ArenaTypes, ArenaTypeOK,
                  ArenaReclaimed, Inside
    <3>2. \A c \in 1..Len(ctxs) :
            Stored(ctxs[c].params, mem) => (Stored(ctxs[c].params, mem))'
      BY <2>2 DEF arenaVars, Stored
    <3> QED BY <2>2, <3>1, <3>2 DEF arenaVars, ArenaInd
  <2> QED BY <2>1, <2>2
<1> QED BY <1>1, <1>2, PTL DEF ArenaSpec

\* The state of a thread's arena and contexts always has its types, whatever
\* callers do: the offset never passes the end of the arena, and no value
\* but those passed or stored reaches the host's variables.
THEOREM ArenaTypeCorrect == ArenaSpec => []ArenaTypeOK
<1>1. ArenaTypes => ArenaTypeOK
  BY DEF ArenaTypes
<1> QED BY <1>1, ArenaTypesHold, PTL

\* After the last context is destroyed the whole arena is free again
\* (pbox_idmem_reset in ~CallContext), whatever was thrown, nested or used
\* again before.
THEOREM ArenaIsReclaimed == ArenaSpec => []ArenaReclaimed
<1>1. ArenaTypes => ArenaReclaimed
  BY DEF ArenaTypes
<1> QED BY <1>1, ArenaTypesHold, PTL

\* While a thread has one context at a time, the parameters of a call lie
\* inside the arena and share no byte (pbox_idmem_alloc under in, out and
\* inout).
THEOREM ParametersApart ==
  ASSUME MaxContexts = 1
  PROVE  ArenaSpec => []ParamsApart
<1>1. ASSUME ArenaInd PROVE ParamsApart
  <2> SUFFICES ASSUME NEW c \in 1..Len(ctxs),
                      NEW i \in 1..Len(ctxs[c].params),
                      NEW j \in 1..Len(ctxs[c].params)
               PROVE  LET p == ctxs[c].params[i]  q == ctxs[c].params[j]
                      IN  /\ p.ptr + SizeOf[p.var] <= idmem_offset
                          /\ idmem_offset <= ArenaSize
                          /\ i # j => Piece(p.ptr, p.var)
                                        \cap Piece(q.ptr, q.var) = {}
    <3>1. ArenaTypes
      BY <1>1 DEF ArenaInd
    <3>2. \A c \in 1..Len(ctxs) :
            DOMAIN ctxs[c].params = 1..Len(ctxs[c].params)
      BY <3>1, ContextIn
    <3>3. DOMAIN ctxs = 1..Len(ctxs)
      BY <3>1 DEF ArenaTypes, ArenaTypeOK
    <3> QED BY <3>2, <3>3 DEF ParamsApart
  <2>1. /\ ctxs[c].params \in Seq(Parameters)
        /\ Placed(ctxs[c].params, idmem_offset)
        /\ idmem_offset \in Nat /\ idmem_offset <= ArenaSize
    BY <1>1, ContextIn, ArenaAssumption DEF ArenaInd, ArenaTypes, ArenaTypeOK
  <2> DEFINE ps == ctxs[c].params
  <2>2. ps[i].ptr + SizeOf[ps[i].var] <= idmem_offset
    BY <2>1 DEF Placed
  <2>3. i # j => Piece(ps[i].ptr, ps[i].var)
                   \cap Piece(ps[j].ptr, ps[j].var) = {}
    <3> HIDE DEF ps
    <3> QED BY <2>1, PlacedApart DEF ps
  <2> QED BY <2>1, <2>2, <2>3
<1> QED BY <1>1, ArenaIndHolds, PTL

\* While a thread has one context at a time, the sandboxed function finds the
\* values of the in and inout parameters, in the first call with a context
\* and in those that follow (in, out and inout of CallContext).
THEOREM ParametersArrive ==
  ASSUME MaxContexts = 1
  PROVE  ArenaSpec => []FunctionSeesInputs
<1>1. ASSUME ArenaInd PROVE FunctionSeesInputs
  <2> SUFFICES ASSUME stage = "running", NEW p \in Params, p.kind # "out"
               PROVE  Load(mem, p.ptr, p.var) = p.val
    BY DEF FunctionSeesInputs
  <2>1. ArenaTypes /\ cur \in 1..Len(ctxs)
    BY <1>1 DEF ArenaInd, ArenaTypes
  <2> DEFINE ps == ctxs[cur].params
  <2>2. ps \in Seq(Parameters) /\ Held(ps, mem)
    BY <1>1, <2>1, ContextIn DEF ArenaInd
  <2>3. PICK i \in 1..Len(ps) : p = ps[i]
    BY <2>2 DEF Params
  <2>4. /\ p.var \in HostVars /\ p.ptr \in Nat /\ SizeOf[p.var] > 0
        /\ p.ptr \in Piece(p.ptr, p.var)
    <3>1. p \in Parameters
      BY <2>2, <2>3
    <3>2. /\ p.var \in HostVars /\ p.ptr \in Nat /\ SizeOf[p.var] \in Nat
          /\ SizeOf[p.var] > 0
      BY <3>1, PieceIs
    <3> QED BY <3>2 DEF Piece
  <2>5. \A b \in Piece(p.ptr, p.var) : mem[b] = p.val
    BY <2>2, <2>3 DEF Held
  <2>6. \A b \in Piece(p.ptr, p.var) : mem[b] = mem[p.ptr]
    BY <2>4, <2>5
  <2> QED BY <2>4, <2>5, <2>6, LoadSame
<1> QED BY <1>1, ArenaIndHolds, PTL

\* While a thread has one context at a time, the first call with it brings
\* the outputs back: the host's variables hold what the sandboxed function
\* stored for the out and inout parameters before the caller goes on
\* (CallContext and the finalize of Sandbox::call).
THEOREM FirstCallBringsOutputs ==
  ASSUME MaxContexts = 1
  PROVE  ArenaSpec => FirstCallDelivers
<1>1. ASSUME ArenaInd, [ArenaNext]_arenaVars
      PROVE  [stage = "finalize" /\ ~ctxs[cur].finalized =>
                \A p \in Outs : host'[p.var] = wrote[p.var]]_arenaVars
  <2> SUFFICES ASSUME ArenaNext, stage = "finalize", ~ctxs[cur].finalized,
                      NEW p \in Outs
               PROVE  host'[p.var] = wrote[p.var]
    BY <1>1
  <2>1. CallFinalizes
    BY DEF ArenaNext, NewContext, Param, ParamThrows, Ready, CallBegins,
           FunctionReturns, CallReturns, Destroy
  <2> QED BY <1>1, <2>1, FinalizeDelivers
<1> QED BY <1>1, ArenaIndHolds, PTL DEF ArenaSpec, FirstCallDelivers
=============================================================================
