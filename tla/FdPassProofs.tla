--------------------------- MODULE FdPassProofs ----------------------------
(***************************************************************************)
(* For any number of threads, files and descriptors: as long as callers    *)
(* keep to the contract, a descriptor denotes the same file on both sides, *)
(* and the cache says what is true.                                        *)
(*                                                                         *)
(* First the cache is shown to be a map from host to sandbox descriptors,  *)
(* Table, to which CacheFd adds an entry and from which Uncache takes one  *)
(* away; everything else is said of that map.                              *)
(***************************************************************************)
EXTENDS FdPass, SequenceTheorems, FiniteSetTheorems, WellFoundedInduction,
        TLAPS

Entries == [host : HostFds, sandbox : SandboxFds]

\* What pbox_lookup_fd finds in the direct table d and the vector o.
Found(d, o) ==
  [h \in HostFds |->
     IF h < DirectMax THEN d[h]
     ELSE LET hits == {i \in DOMAIN o : o[i].host = h}
          IN  IF hits = {} THEN NoFd ELSE o[Min(hits)].sandbox]

Table == Found(direct, overflow)

\* No descriptor has two entries, on either side.
Shape(d, o) ==
  /\ d \in [HostFds -> SandboxFds \cup {NoFd}] /\ o \in Seq(Entries)
  /\ \A i \in 1..Len(o) : o[i].host >= DirectMax
  /\ \A i, j \in 1..Len(o) : o[i].host = o[j].host => i = j
  /\ \A g, h \in HostFds :
       Found(d, o)[g] = Found(d, o)[h] /\ Found(d, o)[g] # NoFd => g = h

Types ==
  /\ htab \in [HostFds -> Files \cup {Closed}]
  /\ stab \in [SandboxFds -> Files \cup {Closed}]
  /\ fdlock \in BOOLEAN
  /\ fdpc \in [Threads ->
              {"idle", "c_call", "c_uncache"} \cup SendPcs \cup RawPcs]
  /\ arg \in [Threads -> HostFds \cup SandboxFds \cup Files \cup {NoFd}]
  /\ got \in [Threads -> SandboxFds \cup {NoFd}]
  /\ owned \subseteq SandboxFds

ClosePcs == {"c_call", "c_uncache"}
LockPcs  == {"s_send", "s_recv", "s_cache"}  \* fd_lock is held

\* What the arguments of the functions are.
Arguments ==
  \A t \in Threads :
    /\ fdpc[t] \in SendPcs => arg[t] \in HostFds /\ htab[arg[t]] \in Files
    /\ fdpc[t] \in ClosePcs => arg[t] \in SandboxFds
    /\ fdpc[t] \in RawPcs => arg[t] \in Files

\* Who may be there at the same time: by the contract, and by fd_lock.
Exclusion ==
  /\ \A t, u \in Threads :
       /\ fdpc[t] \in SendPcs => fdpc[u] \notin RawPcs \cup ClosePcs
       /\ fdpc[t] \in RawPcs /\ fdpc[u] \in RawPcs => t = u
       /\ fdpc[t] \in LockPcs /\ fdpc[u] \in LockPcs => t = u
  /\ fdlock <=> \E t \in Threads : fdpc[t] \in LockPcs

\* At most one file is in flight, that of the thread whose worker is to
\* receive it.
Socket ==
  /\ \A t \in Threads : /\ fdpc[t] = "s_recv" => sock = <<htab[arg[t]]>>
                        /\ fdpc[t] = "r_recv" => sock = <<arg[t]>>
  /\ (\A t \in Threads : fdpc[t] \notin {"s_recv", "r_recv"}) => sock = <<>>

\* The entry for s is about to be removed.
Pending(s) == \E u \in Threads : fdpc[u] = "c_uncache" /\ arg[u] = s

\* What a thread has received.
Received ==
  \A t \in Threads :
    /\ fdpc[t] \in LockPcs => Table[arg[t]] = NoFd
    /\ fdpc[t] = "s_cache" /\ got[t] # NoFd =>
         /\ stab[got[t]] = htab[arg[t]]
         /\ \A h \in HostFds : Table[h] # got[t]
    /\ fdpc[t] = "s_ret" /\ got[t] # NoFd => stab[got[t]] = htab[arg[t]]
    /\ fdpc[t] = "r_map" /\ got[t] # NoFd =>
         /\ stab[got[t]] = arg[t] /\ got[t] \notin owned
         /\ \A u \in Threads : fdpc[u] = "c_call" => arg[u] # got[t]
         /\ \A h \in HostFds : Table[h] = got[t] => Pending(got[t])

\* What callers may close is open, and closed once.
Owners ==
  /\ \A s \in owned : stab[s] \in Files
  /\ \A t \in Threads : fdpc[t] \in ClosePcs => arg[t] \notin owned
  /\ \A t \in Threads : fdpc[t] = "c_call" => stab[arg[t]] \in Files
  /\ \A t, u \in Threads :
       fdpc[t] = "c_call" /\ fdpc[u] = "c_call" /\ arg[t] = arg[u] => t = u

\* An entry is true, or about to be removed.
Truthful ==
  \A h \in HostFds : Table[h] # NoFd =>
    (htab[h] \in Files /\ htab[h] = stab[Table[h]]) \/ Pending(Table[h])

Ind == /\ Types /\ Shape(direct, overflow)
       /\ Arguments /\ Exclusion /\ Socket /\ Received /\ Owners /\ Truthful

----------------------------------------------------------------------------
(********************************* The cache *******************************)

\* A set of descriptors that is not empty has a smallest one.
LEMMA MinIn ==
  ASSUME NEW S, S \subseteq Nat, S # {}
  PROVE  Min(S) \in S
<1> DEFINE R == OpToRel(<, Nat)
<1>1. IsWellFoundedOn(R, Nat)
  BY NatLessThanWellFounded
<1>2. \A x, y \in Nat : y < x => <<y, x>> \in R
  BY Zenon DEF OpToRel
<1> HIDE DEF R
<1>3. PICK x \in S : \A y \in S : ~(<<y, x>> \in R)
  BY <1>1, WFMin
<1>4. ASSUME NEW y \in S PROVE x <= y
  <2>1. x \in Nat /\ y \in Nat
    OBVIOUS
  <2>2. ~(y < x)
    BY <1>2, <1>3, <2>1
  <2> QED BY <2>1, <2>2
<1> QED BY <1>3, <1>4 DEF Min

\* The only member is the smallest one.
LEMMA MinOnly ==
  ASSUME NEW x \in Nat
  PROVE  Min({x}) = x
BY MinIn

LEMMA FoundIs ==
  ASSUME NEW d, NEW o \in Seq(Entries), NEW h \in HostFds,
         d \in [HostFds -> SandboxFds \cup {NoFd}],
         \A i, j \in 1..Len(o) : o[i].host = o[j].host => i = j
  PROVE  /\ h < DirectMax => Found(d, o)[h] = d[h]
         /\ h >= DirectMax =>
              /\ \A i \in 1..Len(o) :
                   o[i].host = h => Found(d, o)[h] = o[i].sandbox
              /\ (\A i \in 1..Len(o) : o[i].host # h) => Found(d, o)[h] = NoFd
<1> DEFINE hits == {i \in DOMAIN o : o[i].host = h}
<1>1. DOMAIN o = 1..Len(o) /\ Len(o) \in Nat
  OBVIOUS
<1>2. h \in Int /\ DirectMax \in Int
  BY FdSizesAssumption DEF HostFds
<1>3. Found(d, o)[h] = IF h < DirectMax THEN d[h]
                       ELSE IF hits = {} THEN NoFd ELSE o[Min(hits)].sandbox
  BY DEF Found
<1>4. ASSUME NEW i \in 1..Len(o), o[i].host = h
      PROVE  hits # {} /\ Min(hits) = i
  <2>1. hits = {i}
    BY <1>1, <1>4
  <2> QED BY <2>1, MinOnly
<1>5. (\A i \in 1..Len(o) : o[i].host # h) => hits = {}
  BY <1>1
<1> HIDE DEF hits
<1>6. h >= DirectMax <=> ~(h < DirectMax)
  BY <1>2
<1> QED BY <1>3, <1>4, <1>5, <1>6

\* What it finds, or NoFd.
LEMMA FoundType ==
  ASSUME NEW d, NEW o, Shape(d, o)
  PROVE  Found(d, o) \in [HostFds -> SandboxFds \cup {NoFd}]
<1>1. ASSUME NEW h \in HostFds
      PROVE  Found(d, o)[h] \in SandboxFds \cup {NoFd}
  <2>1. CASE h < DirectMax
    BY <2>1, FoundIs DEF Shape
  <2>2. CASE ~(h < DirectMax) /\ \E i \in 1..Len(o) : o[i].host = h
    <3>1. PICK i \in 1..Len(o) : o[i].host = h
      BY <2>2
    <3>2. h >= DirectMax
      BY <2>2, FdSizesAssumption DEF HostFds
    <3>3. Found(d, o)[h] = o[i].sandbox /\ o[i] \in Entries
      BY <3>1, <3>2, FoundIs DEF Shape
    <3> QED BY <3>3 DEF Entries
  <2>3. CASE ~(h < DirectMax) /\ \A i \in 1..Len(o) : o[i].host # h
    <3>1. h >= DirectMax
      BY <2>3, FdSizesAssumption DEF HostFds
    <3> QED BY <2>3, <3>1, FoundIs DEF Shape
  <2> QED BY <2>1, <2>2, <2>3
<1> QED BY <1>1 DEF Found

\* pbox_cache_fd adds an entry, or does nothing.
LEMMA CacheFdAdds ==
  ASSUME Shape(direct, overflow), NEW a \in HostFds, NEW s \in SandboxFds,
         Table[a] = NoFd, \A h \in HostFds : Table[h] # s, CacheFd(a, s)
  PROVE  /\ Shape(direct, overflow)'
         /\ Table' = Table \/ Table' = [Table EXCEPT ![a] = s]
<1> DEFINE T == Found(direct, overflow)  U == Found(direct', overflow')
<1>1. /\ direct \in [HostFds -> SandboxFds \cup {NoFd}]
      /\ overflow \in Seq(Entries) /\ a \in Int /\ DirectMax \in Int
      /\ \A i \in 1..Len(overflow) : overflow[i].host >= DirectMax
      /\ \A i, j \in 1..Len(overflow) :
           overflow[i].host = overflow[j].host => i = j
      /\ T \in [HostFds -> SandboxFds \cup {NoFd}]
      /\ \A g, h \in HostFds : T[g] = T[h] /\ T[g] # NoFd => g = h
      /\ T[a] = NoFd /\ \A h \in HostFds : T[h] # s
  BY FoundType, FdSizesAssumption DEF Shape, HostFds, Table
<1>2. ASSUME /\ direct' \in [HostFds -> SandboxFds \cup {NoFd}]
             /\ overflow' \in Seq(Entries)
             /\ \A i \in 1..Len(overflow') : overflow'[i].host >= DirectMax
             /\ \A i, j \in 1..Len(overflow') :
                  overflow'[i].host = overflow'[j].host => i = j,
             \A h \in HostFds : U[h] = IF h = a THEN s ELSE T[h]
      PROVE  Shape(direct', overflow') /\ U = [T EXCEPT ![a] = s]
  <2>1. U = [h \in HostFds |-> U[h]]
    BY DEF Found
  <2> HIDE DEF T, U
  <2>2. U = [T EXCEPT ![a] = s]
    BY <1>1, <1>2, <2>1
  <2>3. \A g, h \in HostFds : U[g] = U[h] /\ U[g] # NoFd => g = h
    BY <1>1, <1>2
  <2> QED BY <1>2, <2>2, <2>3 DEF Shape, U
<1>3. CASE UNCHANGED cache
  BY <1>3 DEF cache, Table
<1>4. CASE /\ a < DirectMax /\ UNCHANGED overflow
           /\ direct' = [direct EXCEPT ![a] = s]
  <2>1. ASSUME NEW h \in HostFds PROVE U[h] = IF h = a THEN s ELSE T[h]
    BY <1>1, <1>4 DEF Found
  <2> QED BY <1>1, <1>2, <1>4, <2>1 DEF Table
<1>5. CASE /\ a >= DirectMax /\ UNCHANGED direct
           /\ overflow' = Append(overflow, [host |-> a, sandbox |-> s])
  <2> DEFINE e == [host |-> a, sandbox |-> s]  n == Len(overflow)
  <2>1. /\ e \in Entries /\ n \in Nat /\ e.host = a /\ e.sandbox = s
        /\ overflow' \in Seq(Entries) /\ Len(overflow') = n + 1
        /\ overflow'[n + 1] = e
        /\ \A i \in 1..n : overflow'[i] = overflow[i]
    BY <1>1, <1>5 DEF Entries
  <2> HIDE DEF e, n
  <2>2. \A i \in 1..n : overflow[i].host # a
    <3>1. SUFFICES ASSUME NEW i \in 1..n, overflow[i].host = a PROVE FALSE
      OBVIOUS
    <3>2. T[a] = overflow[i].sandbox /\ overflow[i] \in Entries
      BY <1>1, <1>5, <3>1, FoundIs DEF n
    <3> QED BY <1>1, <3>2, FdSizesAssumption DEF Entries, SandboxFds, NoFd
  <2>3. \A i \in 1..(n + 1) : i \in 1..n \/ i = n + 1
    BY <2>1
  <2>4. /\ \A i \in 1..Len(overflow') : overflow'[i].host >= DirectMax
        /\ \A i, j \in 1..Len(overflow') :
             overflow'[i].host = overflow'[j].host => i = j
    BY <1>1, <1>5, <2>1, <2>2, <2>3 DEF n
  <2>5. ASSUME NEW h \in HostFds PROVE U[h] = IF h = a THEN s ELSE T[h]
    <3> DEFINE o == overflow'
    <3>1. /\ o \in Seq(Entries)
          /\ \A i, j \in 1..Len(o) : o[i].host = o[j].host => i = j
      BY <2>1, <2>4
    <3> HIDE DEF o
    <3>2. /\ h < DirectMax => Found(direct, o)[h] = direct[h]
          /\ h >= DirectMax =>
               /\ \A i \in 1..Len(o) :
                    o[i].host = h => Found(direct, o)[h] = o[i].sandbox
               /\ (\A i \in 1..Len(o) : o[i].host # h)
                     => Found(direct, o)[h] = NoFd
      BY <1>1, <3>1, FoundIs
    <3>3. U[h] = Found(direct, o)[h]
      BY <1>5 DEF o
    <3>4. CASE h < DirectMax
      BY <1>1, <1>5, <3>4, <3>2, <3>3, FoundIs
    <3>5. CASE ~(h < DirectMax) /\ h = a
      <4>1. n + 1 \in 1..Len(o) /\ o[n + 1] = e
        BY <2>1 DEF o
      <4> QED BY <1>5, <2>1, <3>5, <3>2, <3>3, <4>1
    <3>6. CASE ~(h < DirectMax) /\ h # a
      <4>1. h >= DirectMax
        BY <1>1, <3>6 DEF HostFds
      <4>2. CASE \E i \in 1..n : overflow[i].host = h
        <5>1. PICK i \in 1..n : overflow[i].host = h
          BY <4>2
        <5>2. i \in 1..Len(o) /\ o[i] = overflow[i]
          BY <2>1, <5>1 DEF o
        <5>3. T[h] = overflow[i].sandbox
          BY <1>1, <4>1, <5>1, FoundIs DEF n
        <5>4. U[h] = o[i].sandbox
          BY <3>2, <3>3, <4>1, <5>1, <5>2
        <5> QED BY <3>6, <5>2, <5>3, <5>4
      <4>3. CASE \A i \in 1..n : overflow[i].host # h
        <5>1. T[h] = NoFd
          BY <1>1, <4>1, <4>3, FoundIs DEF n
        <5>2. \A i \in 1..Len(o) : o[i].host # h
          BY <2>1, <2>3, <3>6, <4>3 DEF o
        <5>3. U[h] = NoFd
          BY <3>2, <3>3, <4>1, <5>2
        <5> QED BY <3>6, <5>1, <5>3
      <4> QED BY <4>2, <4>3
    <3> QED BY <3>4, <3>5, <3>6
  <2> QED BY <1>1, <1>2, <1>5, <2>1, <2>4, <2>5 DEF Table
<1> QED BY <1>3, <1>4, <1>5 DEF CacheFd

\* The vector without its entry k, into which the last one moves.
Without(o, k) == SubSeq([o EXCEPT ![k] = o[Len(o)]], 1, Len(o) - 1)

LEMMA WithoutEntry ==
  ASSUME NEW o \in Seq(Entries), NEW k \in 1..Len(o)
  PROVE  /\ Without(o, k) \in Seq(Entries) /\ Len(Without(o, k)) = Len(o) - 1
         /\ \A i \in 1..(Len(o) - 1) :
              Without(o, k)[i] = IF i = k THEN o[Len(o)] ELSE o[i]
<1> DEFINE n == Len(o)  e == [o EXCEPT ![k] = o[n]]  q == Without(o, k)
<1>1. n \in Nat /\ n >= 1 /\ k \in 1..n /\ o[n] \in Entries
  OBVIOUS
<1>2. /\ e \in Seq(Entries) /\ Len(e) = n
      /\ \A i \in 1..n : e[i] = IF i = k THEN o[n] ELSE o[i]
  BY <1>1
<1>3. q = SubSeq(e, 1, n - 1)
  BY DEF Without
<1> HIDE DEF e, n, q
<1>4. 1 \in 1..(Len(e) + 1) /\ n - 1 \in (1 - 1)..Len(e)
  BY <1>1, <1>2
<1>5. /\ q \in Seq(Entries) /\ Len(q) = n - 1
      /\ \A i \in 1..(n - 1) : q[i] = e[i]
  BY <1>1, <1>2, <1>3, <1>4, SubSeqProperties
<1> QED BY <1>1, <1>2, <1>5 DEF n, q

\* pbox_uncache_fd removes the entry for a sandbox descriptor.
LEMMA UncacheRemoves ==
  ASSUME Shape(direct, overflow), NEW s \in SandboxFds, Uncache(s)
  PROVE  /\ Shape(direct, overflow)'
         /\ Table' = [h \in HostFds |->
                        IF Table[h] = s THEN NoFd ELSE Table[h]]
<1> DEFINE T == Found(direct, overflow)  U == Found(direct', overflow')
           hits == {h \in HostFds : h < DirectMax /\ direct[h] = s}
           over == {i \in DOMAIN overflow : overflow[i].sandbox = s}
           n == Len(overflow)
<1>1. /\ direct \in [HostFds -> SandboxFds \cup {NoFd}]
      /\ overflow \in Seq(Entries) /\ DirectMax \in Int /\ n \in Nat
      /\ HostFds \subseteq Nat /\ s # NoFd
      /\ \A i \in 1..n : /\ overflow[i].host >= DirectMax
                          /\ overflow[i] \in Entries
      /\ \A i, j \in 1..n : overflow[i].host = overflow[j].host => i = j
      /\ T \in [HostFds -> SandboxFds \cup {NoFd}]
      /\ \A g, h \in HostFds : T[g] = T[h] /\ T[g] # NoFd => g = h
  <2>1. DirectMax \in Int /\ HostFds \subseteq Nat /\ s # NoFd
    BY FdSizesAssumption DEF HostFds, SandboxFds, NoFd
  <2>2. overflow \in Seq(Entries)
    BY DEF Shape
  <2>3. n \in Nat /\ \A i \in 1..n : overflow[i] \in Entries
    BY <2>2
  <2> QED BY <2>1, <2>2, <2>3, FoundType DEF Shape
<1>2. ASSUME /\ direct' \in [HostFds -> SandboxFds \cup {NoFd}]
             /\ overflow' \in Seq(Entries)
             /\ \A i \in 1..Len(overflow') : overflow'[i].host >= DirectMax
             /\ \A i, j \in 1..Len(overflow') :
                  overflow'[i].host = overflow'[j].host => i = j,
             \A h \in HostFds : U[h] = IF T[h] = s THEN NoFd ELSE T[h]
      PROVE  /\ Shape(direct', overflow')
             /\ U = [h \in HostFds |-> IF T[h] = s THEN NoFd ELSE T[h]]
  <2>1. U = [h \in HostFds |-> U[h]]
    BY DEF Found
  <2> HIDE DEF T, U
  <2>2. U = [h \in HostFds |-> IF T[h] = s THEN NoFd ELSE T[h]]
    BY <1>2, <2>1
  <2>3. \A g, h \in HostFds : U[g] = U[h] /\ U[g] # NoFd => g = h
    BY <1>1, <1>2
  <2> QED BY <1>2, <2>2, <2>3 DEF Shape, U
<1>3. \A h \in HostFds : h < DirectMax => T[h] = direct[h]
  BY <1>1, FoundIs
<1>4. \A h \in HostFds : h >= DirectMax =>
        /\ \A i \in 1..n : overflow[i].host = h => T[h] = overflow[i].sandbox
        /\ (\A i \in 1..n : overflow[i].host # h) => T[h] = NoFd
  BY <1>1, FoundIs
<1>5. \A i \in 1..n : /\ overflow[i].host \in HostFds
                      /\ T[overflow[i].host] = overflow[i].sandbox
  BY <1>1, <1>4 DEF Entries
<1>6. \A h \in HostFds : h < DirectMax \/ h >= DirectMax
  BY <1>1
<1> HIDE DEF T
<1>7. CASE hits # {}
  <2>1. PICK x \in hits : TRUE
    BY <1>7
  <2>2. T[x] = s /\ x \in HostFds /\ x < DirectMax /\ direct[x] = s
    BY <1>3, <2>1
  <2>3. hits = {x}
    BY <1>1, <1>3, <2>2
  <2>4. Min(hits) = x
    BY <1>1, <2>2, <2>3, MinOnly
  <2>5. direct' = [direct EXCEPT ![x] = NoFd] /\ overflow' = overflow
    BY <1>7, <2>4 DEF Uncache
  <2>6. ASSUME NEW h \in HostFds PROVE U[h] = IF T[h] = s THEN NoFd ELSE T[h]
    <3>1. T[h] = s <=> h = x
      BY <1>1, <2>2
    <3>2. U[h] = IF h = x THEN NoFd ELSE T[h]
      BY <1>1, <2>2, <2>5 DEF Found, T
    <3> QED BY <3>1, <3>2
  <2> QED BY <1>1, <1>2, <2>5, <2>6 DEF Table, T
<1>8. CASE hits = {} /\ over = {}
  <2>1. direct' = direct /\ overflow' = overflow
    BY <1>8 DEF Uncache
  <2>2. \A i \in 1..n : overflow[i].sandbox # s
    BY <1>1, <1>8
  <2>3. ASSUME NEW h \in HostFds PROVE T[h] # s
    <3>1. CASE h < DirectMax
      BY <1>3, <1>8, <3>1
    <3>2. CASE h >= DirectMax
      BY <1>1, <1>4, <2>2, <3>2
    <3> QED BY <1>6, <3>1, <3>2
  <2>4. ASSUME NEW h \in HostFds PROVE U[h] = IF T[h] = s THEN NoFd ELSE T[h]
    BY <2>1, <2>3 DEF T
  <2> QED BY <1>1, <1>2, <2>1, <2>4 DEF Table, T
<1>9. CASE hits = {} /\ over # {}
  <2>1. PICK k \in over : TRUE
    BY <1>9
  <2>2. k \in 1..n /\ overflow[k].sandbox = s
    BY <1>1, <2>1
  <2>3. \A i \in 1..n : overflow[i].sandbox = s => i = k
    <3> TAKE i \in 1..n
    <3> HAVE overflow[i].sandbox = s
    <3>1. T[overflow[i].host] = s /\ T[overflow[k].host] = s
      BY <1>5, <2>2
    <3>2. overflow[i].host = overflow[k].host
      BY <1>1, <1>5, <2>2, <3>1
    <3> QED BY <1>1, <2>2, <3>2
  <2>4. over = {k}
    BY <1>1, <2>2, <2>3
  <2>5. Min(over) = k
    BY <2>2, <2>4, MinOnly
  <2>6. /\ direct' = direct
        /\ overflow' = SubSeq([overflow EXCEPT ![k] = overflow[n]], 1, n - 1)
    BY <1>9, <2>5 DEF Uncache
  <2> DEFINE q == overflow'
  <2>7. /\ q \in Seq(Entries) /\ Len(q) = n - 1
        /\ \A i \in 1..Len(q) :
             q[i] = IF i = k THEN overflow[n] ELSE overflow[i]
    <3>1. overflow \in Seq(Entries) /\ k \in 1..Len(overflow)
      BY <1>1, <2>2
    <3>2. q = Without(overflow, k)
      BY <2>6 DEF Without
    <3>3. /\ Without(overflow, k) \in Seq(Entries)
          /\ Len(Without(overflow, k)) = n - 1
          /\ \A i \in 1..(n - 1) : Without(overflow, k)[i] =
               IF i = k THEN overflow[n] ELSE overflow[i]
      BY <3>1, WithoutEntry
    <3> HIDE DEF q, n
    <3> QED BY <3>2, <3>3
  <2> HIDE DEF q, n
  <2>8. /\ \A i \in 1..Len(q) : q[i].host >= DirectMax
        /\ \A i, j \in 1..Len(q) : q[i].host = q[j].host => i = j
    <3>1. \A i \in 1..Len(q) : /\ i \in 1..n /\ i # n /\ n \in 1..n
                              /\ q[i] = IF i = k THEN overflow[n]
                                                       ELSE overflow[i]
      BY <1>1, <2>2, <2>7
    <3>2. \A i \in 1..Len(q) : q[i].host >= DirectMax
      BY <1>1, <3>1
    <3>3. \A i, j \in 1..Len(q) : q[i].host = q[j].host => i = j
      BY <1>1, <2>2, <3>1
    <3> QED BY <3>2, <3>3
  <2>9. /\ \A h \in HostFds : h < DirectMax => U[h] = direct[h]
        /\ \A h \in HostFds : h >= DirectMax =>
             /\ \A i \in 1..Len(q) : q[i].host = h => U[h] = q[i].sandbox
             /\ (\A i \in 1..Len(q) : q[i].host # h) => U[h] = NoFd
    <3>1. U = Found(direct, q)
      BY <2>6 DEF q
    <3> QED BY <1>1, <2>7, <2>8, <3>1, FoundIs
  <2> HIDE DEF U
  <2>10. ASSUME NEW h \in HostFds PROVE U[h] = IF T[h] = s THEN NoFd ELSE T[h]
    <3>1. CASE h < DirectMax
      BY <1>3, <1>9, <2>9, <3>1
    <3>2. CASE h >= DirectMax /\ \A i \in 1..n : overflow[i].host # h
      <4>1. \A i \in 1..Len(q) : q[i].host # h
        <5>1. \A i \in 1..Len(q) : /\ i \in 1..n /\ n \in 1..n
                                  /\ q[i] \in {overflow[i], overflow[n]}
          BY <1>1, <2>7
        <5> QED BY <3>2, <5>1
      <4> QED BY <1>1, <1>4, <2>9, <3>2, <4>1
    <3>3. CASE h >= DirectMax /\ overflow[k].host = h
      <4>1. T[h] = s
        BY <1>5, <2>2, <3>3
      <4>2. \A i \in 1..Len(q) : q[i].host # h
        <5> SUFFICES ASSUME NEW i \in 1..Len(q), q[i].host = h PROVE FALSE
          OBVIOUS
        <5>1. CASE i = k
          <6>1. q[i] = overflow[n] /\ n \in 1..n /\ k # n
            BY <1>1, <2>2, <2>7, <5>1
          <6> QED BY <1>1, <2>2, <3>3, <6>1
        <5>2. CASE i # k
          <6>1. q[i] = overflow[i] /\ i \in 1..n
            BY <1>1, <2>7, <5>2
          <6> QED BY <1>1, <2>2, <3>3, <5>2, <6>1
        <5> QED BY <5>1, <5>2
      <4> QED BY <2>9, <3>3, <4>1, <4>2
    <3>4. CASE /\ h >= DirectMax /\ overflow[k].host # h
               /\ \E i \in 1..n : overflow[i].host = h
      <4>1. PICK i \in 1..n : overflow[i].host = h
        BY <3>4
      <4>2. i # k /\ T[h] = overflow[i].sandbox /\ T[h] # s
        BY <1>5, <2>3, <3>4, <4>1
      <4>3. CASE i = n
        <5>1. k \in 1..Len(q) /\ q[k] = overflow[i]
          BY <1>1, <2>2, <2>7, <4>2, <4>3
        <5> QED BY <2>9, <3>4, <4>1, <4>2, <5>1
      <4>4. CASE i # n
        <5>1. i \in 1..Len(q) /\ q[i] = overflow[i]
          BY <1>1, <2>7, <4>2, <4>4
        <5> QED BY <2>9, <3>4, <4>1, <4>2, <5>1
      <4> QED BY <4>3, <4>4
    <3> QED BY <1>6, <3>1, <3>2, <3>3, <3>4
  <2> QED BY <1>1, <1>2, <2>6, <2>7, <2>8, <2>10 DEF Table, T, U, q
<1> QED BY <1>7, <1>8, <1>9

----------------------------------------------------------------------------
(****************************** The invariant ******************************)

USE DEF SendPcs, RawPcs, ClosePcs, LockPcs

\* pbox_lookup_fd looks up the table.
LEMMA LookupIsTable ==
  ASSUME NEW h \in HostFds
  PROVE  Lookup(h) = Table[h]
BY DEF Lookup, Table, Found

\* What the numbers and marks are, for the steps below.
LEMMA Marks ==
  /\ NoFd \notin SandboxFds /\ SandboxFds \subseteq Nat
  /\ HostFds \subseteq Nat
  /\ \A s \in SandboxFds \cup {NoFd} : s >= 0 <=> s # NoFd
BY FdSizesAssumption DEF NoFd, SandboxFds, HostFds

LEMMA SameCache ==
  ASSUME Ind, UNCHANGED cache
  PROVE  Shape(direct, overflow)' /\ Table' = Table
BY DEF Ind, cache, Table

LEMMA TableType ==
  ASSUME Ind
  PROVE  Table \in [HostFds -> SandboxFds \cup {NoFd}]
BY FoundType DEF Ind, Table

LEMMA HostOpensKeeps ==
  ASSUME Relaxed = {}, Ind, NEW h \in HostFds, HostOpens(h)
  PROVE  Ind'
<1>1. /\ Types /\ Arguments /\ Exclusion /\ Socket /\ Received /\ Owners
      /\ Truthful
  BY DEF Ind
<1>2. Shape(direct, overflow)' /\ Table' = Table
  BY SameCache DEF HostOpens, cache
<1>3. Types'
  BY <1>1 DEF Types, HostOpens, FreshFiles
<1>4. Arguments'
  BY <1>1 DEF Arguments, HostOpens, FreshFiles
<1>5. Exclusion'
  BY <1>1 DEF Exclusion, HostOpens
<1>6. Socket'
  BY <1>1, ClosedAssumption DEF Socket, Arguments, HostOpens
<1>7. Received'
  BY <1>1, <1>2, ClosedAssumption DEF Received, Arguments, Pending, HostOpens
<1>8. Owners'
  BY <1>1 DEF Owners, HostOpens
<1>9. Truthful'
  BY <1>1, <1>2, ClosedAssumption DEF Pending, Truthful, HostOpens
<1> QED BY <1>2, <1>3, <1>4, <1>5, <1>6, <1>7, <1>8, <1>9 DEF Ind

LEMMA HostClosesKeeps ==
  ASSUME Relaxed = {}, Ind, NEW h \in HostFds, HostCloses(h)
  PROVE  Ind'
<1>1. /\ Types /\ Arguments /\ Exclusion /\ Socket /\ Received /\ Owners
      /\ Truthful
  BY DEF Ind
<1>2. Shape(direct, overflow)' /\ Table' = Table
  BY SameCache DEF HostCloses, cache
<1>3. Types'
  BY <1>1 DEF Types, HostCloses
<1>4. Arguments'
  BY <1>1 DEF Arguments, HostCloses
<1>5. Exclusion'
  BY <1>1 DEF Exclusion, HostCloses
<1>6. Socket'
  BY <1>1 DEF Socket, HostCloses
<1>7. Received'
  BY <1>1, <1>2 DEF Received, Pending, HostCloses
<1>8. Owners'
  BY <1>1 DEF Owners, HostCloses
<1>9. Truthful'
  BY <1>1, <1>2, LookupIsTable DEF Pending, Truthful, HostCloses
<1> QED BY <1>2, <1>3, <1>4, <1>5, <1>6, <1>7, <1>8, <1>9 DEF Ind

LEMMA SendBeginsKeeps ==
  ASSUME Relaxed = {}, Ind, NEW t \in Threads, NEW h \in HostFds,
         SendBegins(t, h)
  PROVE  Ind'
<1>1. /\ Types /\ Arguments /\ Exclusion /\ Socket /\ Received /\ Owners
      /\ Truthful
  BY DEF Ind
<1>2. Shape(direct, overflow)' /\ Table' = Table
  BY SameCache DEF SendBegins, cache
<1>3. Types'
  BY <1>1 DEF Types, SendBegins, FdGoto, tables
<1>4. Arguments'
  BY <1>1 DEF Types, Arguments, SendBegins, FdGoto, tables
<1>5. Exclusion'
  BY <1>1 DEF Exclusion, SendBegins, AnyAt, FdGoto
<1>6. Socket'
  BY <1>1 DEF Socket, SendBegins, FdGoto, tables
<1>7. Received'
  BY <1>1, <1>2 DEF Received, SendBegins, AnyAt, FdGoto, tables
<1>8. Owners'
  BY <1>1 DEF Owners, SendBegins, FdGoto, tables
<1>9. Truthful'
  BY <1>1, <1>2 DEF Pending, Truthful, SendBegins, FdGoto, tables
<1> QED BY <1>2, <1>3, <1>4, <1>5, <1>6, <1>7, <1>8, <1>9 DEF Ind

LEMMA SendLocksKeeps ==
  ASSUME Relaxed = {}, Ind, NEW t \in Threads, SendLocks(t)
  PROVE  Ind'
<1>1. /\ Types /\ Arguments /\ Exclusion /\ Socket /\ Received /\ Owners
      /\ Truthful
  BY DEF Ind
<1>2. Shape(direct, overflow)' /\ Table' = Table
  BY SameCache DEF SendLocks, cache
<1>3. /\ arg[t] \in HostFds /\ Table[arg[t]] \in SandboxFds \cup {NoFd}
      /\ \/ /\ Table[arg[t]] # NoFd /\ got' = [got EXCEPT ![t] = Table[arg[t]]]
            /\ fdpc' = [fdpc EXCEPT ![t] = "s_ret"] /\ fdlock' = fdlock
         \/ /\ Table[arg[t]] = NoFd /\ got' = got
            /\ fdpc' = [fdpc EXCEPT ![t] = "s_send"] /\ fdlock'
  <2>1. arg[t] \in HostFds
    BY <1>1 DEF Arguments, SendLocks
  <2>2. /\ Table[arg[t]] \in SandboxFds \cup {NoFd}
        /\ Lookup(arg[t]) = Table[arg[t]]
    BY <2>1, TableType, LookupIsTable
  <2> QED BY <2>1, <2>2, Marks DEF SendLocks, FdGoto
<1>4. Types'
  BY <1>1, <1>3 DEF Types, SendLocks, tables
<1>5. Arguments'
  BY <1>1 DEF Types, Arguments, SendLocks, FdGoto, tables
<1>6. Exclusion'
  BY <1>1 DEF Types, Exclusion, SendLocks, FdGoto
<1>7. Socket'
  BY <1>1 DEF Types, Socket, SendLocks, FdGoto, tables
<1>8. Table[arg[t]] # NoFd => stab[Table[arg[t]]] = htab[arg[t]]
  BY <1>1, <1>3 DEF Exclusion, Pending, Truthful, SendLocks
<1>9. Received'
  BY <1>3, <1>8, <1>1, <1>2 DEF Types, Exclusion, Received, SendLocks, tables
<1>10. Owners'
  BY <1>1 DEF Types, Owners, SendLocks, FdGoto, tables
<1>11. Truthful'
  BY <1>1, <1>2 DEF Exclusion, Pending, Truthful, SendLocks, tables
<1> QED BY <1>2, <1>4, <1>5, <1>6, <1>7, <1>9, <1>10, <1>11 DEF Ind

LEMMA SendSendsKeeps ==
  ASSUME Relaxed = {}, Ind, NEW t \in Threads, SendSends(t)
  PROVE  Ind'
<1>1. /\ Types /\ Arguments /\ Exclusion /\ Socket /\ Received /\ Owners
      /\ Truthful
  BY DEF Ind
<1>2. Shape(direct, overflow)' /\ Table' = Table
  BY SameCache DEF SendSends, cache
<1>3. Types'
  BY <1>1 DEF Types, SendSends, FdGoto
<1>4. Arguments'
  BY <1>1 DEF Arguments, SendSends, FdGoto
<1>5. Exclusion'
  BY <1>1 DEF Exclusion, SendSends, FdGoto
<1>6. sock = <<>>
  BY <1>1 DEF Exclusion, Socket, SendSends
<1>7. sock' = <<htab[arg[t]]>>
  BY <1>6 DEF SendSends
<1>8. Socket'
  BY <1>7, <1>1 DEF Types, Exclusion, Socket, SendSends, FdGoto
<1>9. Received'
  BY <1>1, <1>2 DEF Exclusion, Received, SendSends, FdGoto
<1>10. Owners'
  BY <1>1 DEF Owners, SendSends, FdGoto
<1>11. Truthful'
  BY <1>1, <1>2 DEF Exclusion, Pending, Truthful, SendSends
<1> QED BY <1>2, <1>3, <1>4, <1>5, <1>8, <1>9, <1>10, <1>11 DEF Ind

LEMMA SendmsgFailsKeeps ==
  ASSUME Relaxed = {}, Ind, NEW t \in Threads, SendmsgFails(t)
  PROVE  Ind'
<1>1. /\ Types /\ Arguments /\ Exclusion /\ Socket /\ Received /\ Owners
      /\ Truthful
  BY DEF Ind
<1>2. Shape(direct, overflow)' /\ Table' = Table
  BY SameCache DEF SendmsgFails, cache
<1>3. Types'
  BY <1>1 DEF Types, SendmsgFails, FdGoto, tables
<1>4. Arguments'
  BY <1>1 DEF Types, Arguments, SendmsgFails, FdGoto, tables
<1>5. Exclusion'
  BY <1>1 DEF Types, Exclusion, SendmsgFails, FdGoto
<1>6. Socket'
  BY <1>1 DEF Types, Socket, SendmsgFails, FdGoto, tables
<1>7. Received'
  BY <1>1, <1>2 DEF Types, Exclusion, Received, SendmsgFails, FdGoto, tables
<1>8. Owners'
  BY <1>1 DEF Types, Owners, SendmsgFails, FdGoto, tables
<1>9. Truthful'
  BY <1>1, <1>2 DEF Exclusion, Pending, Truthful, SendmsgFails, tables
<1> QED BY <1>2, <1>3, <1>4, <1>5, <1>6, <1>7, <1>8, <1>9 DEF Ind

LEMMA RawFailsKeeps ==
  ASSUME Relaxed = {}, Ind, NEW t \in Threads, RawFails(t)
  PROVE  Ind'
<1>1. /\ Types /\ Arguments /\ Exclusion /\ Socket /\ Received /\ Owners
      /\ Truthful
  BY DEF Ind
<1>2. Shape(direct, overflow)' /\ Table' = Table
  BY SameCache DEF RawFails, cache
<1>3. Types'
  BY <1>1 DEF Types, RawFails, FdGoto, tables
<1>4. Arguments'
  BY <1>1 DEF Types, Arguments, RawFails, FdGoto, tables
<1>5. Exclusion'
  BY <1>1 DEF Exclusion, RawFails, FdGoto
<1>6. Socket'
  BY <1>1 DEF Types, Socket, RawFails, FdGoto, tables
<1>7. Received'
  BY <1>1, <1>2 DEF Types, Received, Pending, RawFails, FdGoto, tables
<1>8. Owners'
  BY <1>1 DEF Types, Owners, RawFails, FdGoto, tables
<1>9. Truthful'
  BY <1>1, <1>2 DEF Types, Pending, Truthful, RawFails, FdGoto, tables
<1> QED BY <1>2, <1>3, <1>4, <1>5, <1>6, <1>7, <1>8, <1>9 DEF Ind

LEMMA SendReturnsKeeps ==
  ASSUME Relaxed = {}, Ind, NEW t \in Threads, SendReturns(t)
  PROVE  Ind'
<1>1. /\ Types /\ Arguments /\ Exclusion /\ Socket /\ Received /\ Owners
      /\ Truthful
  BY DEF Ind
<1>2. Shape(direct, overflow)' /\ Table' = Table
  BY SameCache DEF SendReturns, cache
<1>3. Types'
  BY <1>1 DEF Types, SendReturns, FdGoto, tables
<1>4. Arguments'
  BY <1>1 DEF Types, Arguments, SendReturns, FdGoto, tables
<1>5. Exclusion'
  BY <1>1 DEF Exclusion, SendReturns, FdGoto
<1>6. Socket'
  BY <1>1 DEF Socket, SendReturns, FdGoto, tables
<1>7. Received'
  BY <1>1, <1>2 DEF Types, Exclusion, Received, SendReturns, FdGoto, tables
<1>8. Owners'
  BY <1>1, Marks DEF Exclusion, Received, Arguments, Owners, SendReturns,
     FdGoto, tables
<1>9. Truthful'
  BY <1>1, <1>2 DEF Exclusion, Pending, Truthful, SendReturns, tables
<1> QED BY <1>2, <1>3, <1>4, <1>5, <1>6, <1>7, <1>8, <1>9 DEF Ind

LEMMA CloseBeginsKeeps ==
  ASSUME Relaxed = {}, Ind, NEW t \in Threads, NEW s \in SandboxFds,
         CloseBegins(t, s)
  PROVE  Ind'
<1>1. /\ Types /\ Arguments /\ Exclusion /\ Socket /\ Received /\ Owners
      /\ Truthful
  BY DEF Ind
<1>2. Shape(direct, overflow)' /\ Table' = Table
  BY SameCache DEF CloseBegins, cache
<1>3. Types'
  BY <1>1 DEF Types, CloseBegins, FdGoto, tables
<1>4. Arguments'
  BY <1>1 DEF Types, Arguments, CloseBegins, FdGoto, tables
<1>5. Exclusion'
  BY <1>1 DEF Exclusion, CloseBegins, AnyAt, FdGoto
<1>6. Socket'
  BY <1>1 DEF Socket, CloseBegins, FdGoto, tables
<1>7. Received'
  BY <1>1, <1>2 DEF Types, Received, Pending, CloseBegins, FdGoto, tables
<1>8. Owners'
  BY <1>1 DEF Types, Owners, CloseBegins, FdGoto, tables
<1>9. Truthful'
  BY <1>1, <1>2 DEF Pending, Truthful, CloseBegins, FdGoto, tables
<1> QED BY <1>2, <1>3, <1>4, <1>5, <1>6, <1>7, <1>8, <1>9 DEF Ind

LEMMA CloseCallsKeeps ==
  ASSUME Relaxed = {}, Ind, NEW t \in Threads, CloseCalls(t)
  PROVE  Ind'
<1>1. /\ Types /\ Arguments /\ Exclusion /\ Socket /\ Received /\ Owners
      /\ Truthful
  BY DEF Ind
<1>2. Shape(direct, overflow)' /\ Table' = Table
  BY SameCache DEF CloseCalls, cache
<1>3. Types'
  BY <1>1 DEF Types, Arguments, CloseCalls, FdGoto
<1>4. Arguments'
  BY <1>1 DEF Types, Arguments, CloseCalls, FdGoto
<1>5. Exclusion'
  BY <1>1 DEF Types, Exclusion, CloseCalls, FdGoto
<1>6. Socket'
  BY <1>1 DEF Types, Socket, CloseCalls, FdGoto
<1>7. Received'
  BY <1>1, <1>2 DEF Types, Exclusion, Received, Pending, CloseCalls, FdGoto
<1>8. Owners'
  BY <1>1 DEF Types, Owners, CloseCalls, FdGoto
<1>9. Truthful'
  BY <1>1, <1>2 DEF Types, Pending, Truthful, CloseCalls, FdGoto
<1> QED BY <1>2, <1>3, <1>4, <1>5, <1>6, <1>7, <1>8, <1>9 DEF Ind

LEMMA RawBeginsKeeps ==
  ASSUME Relaxed = {}, Ind, NEW t \in Threads, RawBegins(t)
  PROVE  Ind'
<1>1. /\ Types /\ Arguments /\ Exclusion /\ Socket /\ Received /\ Owners
      /\ Truthful
  BY DEF Ind
<1>2. Shape(direct, overflow)' /\ Table' = Table
  BY SameCache DEF RawBegins, cache
<1>3. Types'
  BY <1>1 DEF Types, RawBegins, FdGoto, FreshFiles, tables
<1>4. Arguments'
  BY <1>1 DEF Types, Arguments, RawBegins, FdGoto, FreshFiles, tables
<1>5. Exclusion'
  BY <1>1 DEF Exclusion, RawBegins, AnyAt, FdGoto
<1>6. Socket'
  BY <1>1 DEF Socket, RawBegins, FdGoto, tables
<1>7. Received'
  BY DEF Received, RawBegins, AnyAt, FdGoto
<1>8. Owners'
  BY <1>1 DEF Owners, RawBegins, FdGoto, tables
<1>9. Truthful'
  BY <1>1, <1>2 DEF Pending, Truthful, RawBegins, FdGoto, tables
<1> QED BY <1>2, <1>3, <1>4, <1>5, <1>6, <1>7, <1>8, <1>9 DEF Ind

LEMMA RawSendsKeeps ==
  ASSUME Relaxed = {}, Ind, NEW t \in Threads, RawSends(t)
  PROVE  Ind'
<1>1. /\ Types /\ Arguments /\ Exclusion /\ Socket /\ Received /\ Owners
      /\ Truthful
  BY DEF Ind
<1>2. Shape(direct, overflow)' /\ Table' = Table
  BY SameCache DEF RawSends, cache
<1>3. Types'
  BY <1>1 DEF Types, RawSends, FdGoto
<1>4. Arguments'
  BY <1>1 DEF Arguments, RawSends, FdGoto
<1>5. Exclusion'
  BY <1>1 DEF Exclusion, RawSends, FdGoto
<1>6. sock = <<>>
  BY <1>1 DEF Exclusion, Socket, RawSends
<1>7. sock' = <<arg[t]>>
  BY <1>6 DEF RawSends
<1>8. Socket'
  BY <1>7, <1>1 DEF Types, Exclusion, Socket, RawSends, FdGoto
<1>9. Received'
  BY <1>1 DEF Exclusion, Received, RawSends, FdGoto
<1>10. Owners'
  BY <1>1 DEF Owners, RawSends, FdGoto
<1>11. Truthful'
  BY <1>1, <1>2 DEF Pending, Truthful, RawSends, FdGoto
<1> QED BY <1>2, <1>3, <1>4, <1>5, <1>8, <1>9, <1>10, <1>11 DEF Ind

LEMMA RawMapsKeeps ==
  ASSUME Relaxed = {}, Ind, NEW t \in Threads, RawMaps(t)
  PROVE  Ind'
<1>1. /\ Types /\ Arguments /\ Exclusion /\ Socket /\ Received /\ Owners
      /\ Truthful
  BY DEF Ind
<1>2. Shape(direct, overflow)' /\ Table' = Table
  BY SameCache DEF RawMaps, cache
<1>3. Types'
  BY <1>1 DEF Types, RawMaps, FdGoto
<1>4. Arguments'
  BY <1>1 DEF Types, Arguments, RawMaps, FdGoto
<1>5. Exclusion'
  BY <1>1 DEF Exclusion, RawMaps, FdGoto
<1>6. Socket'
  BY <1>1 DEF Socket, RawMaps, FdGoto
<1>7. Received'
  BY <1>1 DEF Types, Exclusion, Received, RawMaps, FdGoto
<1>8. Owners'
  <2>1. \A s \in SandboxFds : stab'[s] # stab[s] => s = got[t] /\ got[t] # NoFd
    BY <1>1, Marks DEF Types, RawMaps
  <2>2. got[t] # NoFd =>
          /\ got[t] \notin owned
          /\ \A u \in Threads : fdpc[u] = "c_call" => arg[u] # got[t]
    BY <1>1 DEF Received, RawMaps
  <2>3. \A u \in Threads : fdpc'[u] \in ClosePcs =>
          fdpc'[u] = fdpc[u] /\ arg'[u] = arg[u] /\ arg[u] \in SandboxFds
    BY <1>1 DEF Types, Arguments, RawMaps, FdGoto
  <2> QED BY <1>1, <2>1, <2>2, <2>3 DEF Types, Owners, RawMaps
<1>9. \A f : Pending(f) => Pending(f)'
  BY DEF Pending, RawMaps, FdGoto
<1>10. ASSUME NEW h \in HostFds, Table[h] # NoFd
      PROVE  \/ (htab[h] \in Files /\ htab[h] = stab[Table[h]])'
             \/ Pending(Table[h])'
  <2>1. CASE Pending(Table[h])
    BY <1>9, <2>1, <1>2
  <2>2. CASE ~Pending(Table[h])
    <3>1. htab[h] \in Files /\ htab[h] = stab[Table[h]]
      BY <1>10, <2>2, <1>1 DEF Truthful
    <3>2. got[t] # NoFd => Table[h] # got[t]
      BY <2>2, <1>1 DEF Received, RawMaps
    <3> QED BY <1>10, <3>1, <3>2, <1>1, <1>2, TableType DEF Types, RawMaps
  <2> QED BY <2>1, <2>2
<1>11. Truthful'
  BY <1>10, <1>2 DEF Truthful
<1> QED BY <1>2, <1>3, <1>4, <1>5, <1>6, <1>7, <1>8, <1>11 DEF Ind

LEMMA SendReceivesKeeps ==
  ASSUME Relaxed = {}, Ind, NEW t \in Threads, SendReceives(t)
  PROVE  Ind'
<1>1. /\ Types /\ Arguments /\ Exclusion /\ Socket /\ Received /\ Owners
      /\ Truthful
  BY DEF Ind
<1>2. Shape(direct, overflow)' /\ Table' = Table
  BY SameCache DEF SendReceives, Receive
<1> DEFINE free == {s \in SandboxFds : stab[s] = Closed}
<1>3. sock = <<htab[arg[t]]>> /\ sock' = <<>> /\ Head(sock) = htab[arg[t]]
  <2>1. sock = <<htab[arg[t]]>> /\ sock' = Tail(sock)
    BY <1>1 DEF SendReceives, Receive, Socket
  <2> QED BY <2>1
<1>4. /\ got' = [got EXCEPT ![t] = got'[t]]
      /\ \/ got'[t] = NoFd /\ stab' = stab
         \/ /\ got'[t] \in SandboxFds /\ stab[got'[t]] = Closed
            /\ stab' = [stab EXCEPT ![got'[t]] = htab[arg[t]]]
  <2>1. free # {} => Min(free) \in free
    BY MinIn, Marks
  <2>2. got \in [Threads -> SandboxFds \cup {NoFd}]
    BY <1>1 DEF Types
  <2> QED BY <1>3, <2>1, <2>2 DEF SendReceives, Receive
<1>5. /\ htab[arg[t]] \in Files /\ htab' = htab /\ fdlock' = fdlock
      /\ arg' = arg /\ owned' = owned /\ fdpc[t] = "s_recv"
      /\ fdpc' = [fdpc EXCEPT ![t] = "s_cache"]
  BY <1>1 DEF SendReceives, Receive, FdGoto, Arguments
<1>6. Types'
  BY <1>1, <1>4, <1>5 DEF Types
<1>7. Arguments'
  BY <1>1, <1>5 DEF Arguments
<1>8. Exclusion'
  BY <1>1, <1>5 DEF Exclusion
<1>9. Socket'
  BY <1>1, <1>3, <1>5 DEF Types, Exclusion, Socket
<1>10. \A s : Pending(s)' <=> Pending(s)
  BY <1>5 DEF Pending
<1>11. got'[t] # NoFd =>
        /\ got'[t] \notin owned
        /\ \A u \in Threads : fdpc[u] = "c_call" => arg[u] # got'[t]
        /\ \A h \in HostFds : Table[h] = got'[t] => Pending(got'[t])
  <2> HAVE got'[t] # NoFd
  <2>1. stab[got'[t]] = Closed /\ stab[got'[t]] \notin Files
    BY <1>4, ClosedAssumption
  <2>2. \A h \in HostFds : Table[h] = got'[t] => Pending(got'[t])
    BY <2>1, <1>1 DEF Truthful
  <2> QED BY <2>1, <2>2, <1>1 DEF Owners
<1>12. \A u \in Threads : /\ fdpc[u] \notin RawPcs
                          /\ fdpc[u] \in LockPcs => u = t
  BY <1>1, <1>5 DEF Exclusion
<1>13. \A h \in HostFds : got'[t] # NoFd => Table[h] # got'[t]
  BY <1>1, <1>5, <1>11 DEF Exclusion, Pending
<1>14. \A u \in Threads :
         fdpc[u] = "s_ret" /\ got[u] # NoFd => stab'[got[u]] = stab[got[u]]
  BY <1>1, <1>4, ClosedAssumption DEF Types, Arguments, Received
<1>15. Received'
  BY <1>1, <1>2, <1>4, <1>5, <1>12, <1>13, <1>14 DEF Types, Received
<1>16. Owners'
  BY <1>1, <1>4, <1>5 DEF Types, Exclusion, Owners
<1>17. Truthful'
  BY <1>10, <1>11, <1>1, <1>2, <1>4, <1>5, TableType DEF Types, Truthful
<1> QED BY <1>2, <1>6, <1>7, <1>8, <1>9, <1>15, <1>16, <1>17 DEF Ind

LEMMA RawReceivesKeeps ==
  ASSUME Relaxed = {}, Ind, NEW t \in Threads, RawReceives(t)
  PROVE  Ind'
<1>1. /\ Types /\ Arguments /\ Exclusion /\ Socket /\ Received /\ Owners
      /\ Truthful
  BY DEF Ind
<1>2. Shape(direct, overflow)' /\ Table' = Table
  BY SameCache DEF RawReceives, Receive
<1> DEFINE free == {s \in SandboxFds : stab[s] = Closed}
<1>3. sock = <<arg[t]>> /\ sock' = <<>> /\ Head(sock) = arg[t]
  <2>1. sock = <<arg[t]>> /\ sock' = Tail(sock)
    BY <1>1 DEF RawReceives, Receive, Socket
  <2> QED BY <2>1
<1>4. /\ got' = [got EXCEPT ![t] = got'[t]]
      /\ \/ got'[t] = NoFd /\ stab' = stab
         \/ /\ got'[t] \in SandboxFds /\ stab[got'[t]] = Closed
            /\ stab' = [stab EXCEPT ![got'[t]] = arg[t]]
  <2>1. free # {} => Min(free) \in free
    BY MinIn, Marks
  <2>2. got \in [Threads -> SandboxFds \cup {NoFd}]
    BY <1>1 DEF Types
  <2> QED BY <1>3, <2>1, <2>2 DEF RawReceives, Receive
<1>5. /\ arg[t] \in Files /\ htab' = htab /\ fdlock' = fdlock /\ arg' = arg
      /\ owned' = owned /\ fdpc[t] = "r_recv"
      /\ fdpc' = [fdpc EXCEPT ![t] = "r_map"]
  BY <1>1 DEF RawReceives, Receive, FdGoto, Arguments
<1>6. Types'
  BY <1>1, <1>4, <1>5 DEF Types
<1>7. Arguments'
  BY <1>1, <1>5 DEF Arguments
<1>8. Exclusion'
  BY <1>1, <1>5 DEF Exclusion
<1>9. Socket'
  BY <1>1, <1>3, <1>5 DEF Types, Exclusion, Socket
<1>10. \A s : Pending(s)' <=> Pending(s)
  BY <1>5 DEF Pending
<1>11. got'[t] # NoFd =>
        /\ got'[t] \notin owned
        /\ \A u \in Threads : fdpc[u] = "c_call" => arg[u] # got'[t]
        /\ \A h \in HostFds : Table[h] = got'[t] => Pending(got'[t])
  <2> HAVE got'[t] # NoFd
  <2>1. stab[got'[t]] = Closed /\ stab[got'[t]] \notin Files
    BY <1>4, ClosedAssumption
  <2>2. \A h \in HostFds : Table[h] = got'[t] => Pending(got'[t])
    BY <2>1, <1>1 DEF Truthful
  <2> QED BY <2>1, <2>2, <1>1 DEF Owners
<1>12. Received'
  BY <1>10, <1>11, <1>1, <1>2, <1>4, <1>5 DEF Types, Exclusion, Received
<1>13. Owners'
  <2>1. \A s \in SandboxFds : stab[s] \in Files => stab'[s] = stab[s]
    BY <1>1, <1>4, ClosedAssumption DEF Types
  <2>2. \A u \in Threads :
          fdpc'[u] \in ClosePcs => fdpc'[u] = fdpc[u] /\ arg[u] \in SandboxFds
    BY <1>1, <1>5 DEF Types, Arguments
  <2> QED BY <1>1, <1>5, <2>1, <2>2 DEF Types, Owners
<1>14. Truthful'
  BY <1>10, <1>11, <1>1, <1>2, <1>4, <1>5, TableType DEF Types, Truthful
<1> QED BY <1>2, <1>6, <1>7, <1>8, <1>9, <1>12, <1>13, <1>14 DEF Ind

LEMMA SendCachesKeeps ==
  ASSUME Relaxed = {}, Ind, NEW t \in Threads, SendCaches(t)
  PROVE  Ind'
<1>1. /\ Types /\ Arguments /\ Exclusion /\ Socket /\ Received /\ Owners
      /\ Truthful
  BY DEF Ind
<1>2. /\ Shape(direct, overflow)'
      /\ \/ Table' = Table
         \/ got[t] # NoFd /\ Table' = [Table EXCEPT ![arg[t]] = got[t]]
  <2>1. CASE got[t] = NoFd
    BY <2>1, SameCache, Marks DEF SendCaches
  <2>2. CASE got[t] # NoFd
    <3>1. /\ arg[t] \in HostFds /\ got[t] \in SandboxFds
          /\ Table[arg[t]] = NoFd /\ \A h \in HostFds : Table[h] # got[t]
          /\ Shape(direct, overflow) /\ CacheFd(arg[t], got[t])
      BY <1>1, <2>2, Marks DEF Ind, SendCaches, Types, Arguments, Received
    <3> QED BY <2>2, <3>1, CacheFdAdds
  <2> QED BY <2>1, <2>2
<1>3. Types'
  BY <1>1, <1>2, TableType, Marks DEF Types, SendCaches, FdGoto, tables
<1>4. Arguments'
  BY <1>1 DEF Arguments, SendCaches, FdGoto, tables
<1>5. Exclusion'
  BY <1>1 DEF Types, Exclusion, SendCaches, FdGoto
<1>6. Socket'
  BY <1>1 DEF Socket, SendCaches, FdGoto, tables
<1>7. Received'
  BY <1>1 DEF Types, Exclusion, Received, SendCaches, FdGoto, tables
<1>8. Owners'
  BY <1>1 DEF Owners, SendCaches, FdGoto, tables
<1>9. Truthful'
  BY <1>1, <1>2, TableType DEF Exclusion, Received, Arguments, Pending,
     Truthful, SendCaches, tables
<1> QED BY <1>2, <1>3, <1>4, <1>5, <1>6, <1>7, <1>8, <1>9 DEF Ind

LEMMA CloseUncachesKeeps ==
  ASSUME Relaxed = {}, Ind, NEW t \in Threads, CloseUncaches(t)
  PROVE  Ind'
<1>1. /\ Types /\ Arguments /\ Exclusion /\ Socket /\ Received /\ Owners
      /\ Truthful
  BY DEF Ind
<1>2. /\ Shape(direct, overflow)' /\ arg[t] \in SandboxFds
      /\ Table' = [h \in HostFds |->
                     IF Table[h] = arg[t] THEN NoFd ELSE Table[h]]
  <2>1. arg[t] \in SandboxFds /\ Shape(direct, overflow) /\ Uncache(arg[t])
    BY DEF Ind, CloseUncaches, Arguments
  <2> QED BY <2>1, UncacheRemoves
<1>3. \A s : Pending(s) /\ s # arg[t] => Pending(s)'
  BY DEF Pending, CloseUncaches, FdGoto
<1>4. Types'
  BY <1>1 DEF Types, CloseUncaches, FdGoto, tables
<1>5. Arguments'
  BY <1>1 DEF Types, Arguments, CloseUncaches, FdGoto, tables
<1>6. Exclusion'
  BY <1>1 DEF Exclusion, CloseUncaches, FdGoto
<1>7. Socket'
  BY <1>1 DEF Socket, CloseUncaches, FdGoto, tables
<1>8. Received'
  BY <1>3, <1>1, <1>2 DEF Exclusion, Received, CloseUncaches, FdGoto, tables
<1>9. Owners'
  BY <1>1 DEF Types, Owners, CloseUncaches, FdGoto, tables
<1>10. Truthful'
  BY <1>3, <1>1, <1>2 DEF Truthful, CloseUncaches, tables
<1> QED BY <1>2, <1>4, <1>5, <1>6, <1>7, <1>8, <1>9, <1>10 DEF Ind

LEMMA InitInd == FdInit => Ind
<1> SUFFICES ASSUME FdInit PROVE Ind
  OBVIOUS
<1>1. Table = [h \in HostFds |-> NoFd]
  BY DEF FdInit, Table, Found
<1>2. Shape(direct, overflow)
  BY <1>1 DEF FdInit, Shape, Table
<1>3. Types
  BY <1>1 DEF Types, FdInit
<1>4. Arguments /\ Exclusion /\ Socket /\ Received /\ Owners /\ Truthful
  BY <1>1 DEF Arguments, Exclusion, Socket, Received, Owners, Truthful, FdInit
<1> QED BY <1>2, <1>3, <1>4 DEF Ind

LEMMA StepInd == Relaxed = {} /\ Ind /\ [FdNext]_fdVars => Ind'
<1> SUFFICES ASSUME Relaxed = {}, Ind, [FdNext]_fdVars PROVE Ind'
  OBVIOUS
<1>1. ASSUME NEW h \in HostFds, HostOpens(h) \/ HostCloses(h) PROVE Ind'
  BY <1>1, HostOpensKeeps, HostClosesKeeps
<1>2. ASSUME NEW t \in Threads, NEW h \in HostFds, SendBegins(t, h) PROVE Ind'
  BY <1>2, SendBeginsKeeps
<1>3. ASSUME NEW t \in Threads, NEW s \in SandboxFds, CloseBegins(t, s)
      PROVE  Ind'
  BY <1>3, CloseBeginsKeeps
<1>4. ASSUME NEW t \in Threads, RawBegins(t) PROVE Ind'
  BY <1>4, RawBeginsKeeps
<1>5. ASSUME NEW t \in Threads, Step(t) PROVE Ind'
  BY <1>5, SendLocksKeeps, SendSendsKeeps, SendmsgFailsKeeps,
     SendReceivesKeeps, SendCachesKeeps, SendReturnsKeeps, CloseCallsKeeps,
     CloseUncachesKeeps, RawSendsKeeps, RawFailsKeeps, RawReceivesKeeps,
     RawMapsKeeps DEF Step
<1>6. CASE UNCHANGED fdVars
  BY <1>6, SameCache DEF fdVars, tables, Ind, Types, Arguments, Exclusion,
     Socket, Received, Owners, Truthful, Pending
<1> QED BY <1>1, <1>2, <1>3, <1>4, <1>5, <1>6 DEF FdNext

\* As long as callers keep to the contract, the descriptor pbox_send_fd
\* returns, and the one a channel or an identity region is mapped from,
\* denote the file that was sent.
THEOREM SameFile ==
  ASSUME Relaxed = {}
  PROVE  FdSpec => []FdIsSameFile
<1>1. Ind => FdIsSameFile
  BY Marks DEF Ind, Types, Received, FdIsSameFile, SentFdIsSameFile,
     RawFdIsSameFile
<1>2. Ind /\ [FdNext]_fdVars => Ind'
  BY StepInd
<1> QED BY <1>1, <1>2, InitInd, PTL DEF FdSpec

\* Under the same contract the cache is true of both descriptor tables, and
\* has one entry for each descriptor.
THEOREM CacheIsSound ==
  ASSUME Relaxed = {}
  PROVE  FdSpec => []CacheSound
<1>1. Ind => CacheSound
  <2> SUFFICES ASSUME Ind PROVE CacheSound
    OBVIOUS
  <2>1. /\ \A h \in HostFds : Lookup(h) = Table[h]
        /\ \A h \in Cached : h \in HostFds /\ Table[h] # NoFd
    BY LookupIsTable, TableType, Marks DEF Cached
  <2> QED BY <2>1, ClosedAssumption DEF Ind, Shape, Table, Truthful, Pending,
             CacheSound
<1>2. Ind /\ [FdNext]_fdVars => Ind'
  BY StepInd
<1> QED BY <1>1, <1>2, InitInd, PTL DEF FdSpec

\* An overflow vector with one entry for each descriptor has no more entries
\* than there are descriptors.
LEMMA OverflowIsShort ==
  ASSUME Shape(direct, overflow)
  PROVE  Len(overflow) <= NumHostFds
<1> DEFINE n == Len(overflow)
           f == [i \in 1..n |-> overflow[i].host]
<1>1. /\ n \in Nat /\ \A i \in 1..n : overflow[i].host \in HostFds
      /\ \A i, j \in 1..n : overflow[i].host = overflow[j].host => i = j
  <2>1. /\ overflow \in Seq(Entries)
        /\ \A i, j \in 1..n : overflow[i].host = overflow[j].host => i = j
    BY DEF Shape
  <2>2. n \in Nat /\ \A i \in 1..n : overflow[i] \in Entries
    BY <2>1
  <2> QED BY <2>1, <2>2 DEF Entries
<1> HIDE DEF n
<1>2. f \in Injection(1..n, HostFds)
  BY <1>1 DEF Injection, IsInjective
<1> HIDE DEF f
<1>3. NumHostFds \in Nat /\ 0 \in Int /\ 1 \in Int /\ NumHostFds - 1 \in Int
  BY FdSizesAssumption
<1>4. IsFiniteSet(HostFds) /\ Cardinality(HostFds) = NumHostFds
  <2>1. /\ IsFiniteSet(0..(NumHostFds - 1))
        /\ Cardinality(0..(NumHostFds - 1)) =
             IF 0 > NumHostFds - 1 THEN 0 ELSE NumHostFds - 1 - 0 + 1
    BY <1>3, FS_Interval
  <2> QED BY <1>3, <2>1 DEF HostFds
<1>5. Cardinality(1..n) = n
  <2>1. Cardinality(1..n) = IF 1 > n THEN 0 ELSE n - 1 + 1
    BY <1>1, <1>3, FS_Interval
  <2> QED BY <1>1, <2>1
<1>6. Cardinality(1..n) <= Cardinality(HostFds)
  BY <1>2, <1>4, FS_Injection
<1> QED BY <1>4, <1>5, <1>6 DEF n

\* The type invariant, under the same contract: at most as many files are in
\* flight as there are threads, and the overflow vector cannot grow beyond
\* the host's descriptors.
THEOREM TypeCorrect ==
  ASSUME Relaxed = {}
  PROVE  FdSpec => []FdTypeOK
<1>1. Ind => FdTypeOK
  <2> SUFFICES ASSUME Ind PROVE FdTypeOK
    OBVIOUS
  <2>1. sock \in Seq(Files) /\ Len(sock) <= Cardinality(Threads)
    <3>1. Cardinality(Threads) \in Nat
      BY FdThreadsAssumption, FS_CardinalityType
    <3>2. CASE sock = <<>>
      BY <3>1, <3>2
    <3>3. CASE sock # <<>>
      <4>1. PICK t \in Threads : fdpc[t] \in {"s_recv", "r_recv"}
        BY <3>3 DEF Ind, Socket
      <4>2. PICK f \in Files : sock = <<f>>
        BY <4>1 DEF Ind, Socket, Arguments, SendPcs, RawPcs
      <4>3. Cardinality(Threads) # 0
        BY <4>1, FdThreadsAssumption, FS_EmptySet
      <4>4. sock \in Seq(Files) /\ Len(sock) = 1
        BY <4>2
      <4> QED BY <3>1, <4>3, <4>4
    <3> QED BY <3>2, <3>3
  <2>2. Len(overflow) <= NumHostFds
    BY OverflowIsShort DEF Ind
  <2> QED BY <2>1, <2>2 DEF Ind, Types, Shape, Entries, FdTypeOK
<1>2. Ind /\ [FdNext]_fdVars => Ind'
  BY StepInd
<1> QED BY <1>1, <1>2, InitInd, PTL DEF FdSpec
=============================================================================
