------------------------------- MODULE FdPass -------------------------------
(***************************************************************************)
(* Passing descriptors to the sandbox (src/src/pbox/pbox.c).  All threads  *)
(* share one stream socket and one cache of what was sent; the descriptor  *)
(* put on the socket by a host thread is taken off by the recvmsg of *its* *)
(* worker.  pbox_send_fd does the two under fd_lock, pbox_mmap_identity    *)
(* and create_channel_locked ("raw" sends) do not take that lock.          *)
(***************************************************************************)
EXTENDS HostThreads, Integers, Sequences, FiniteSets, SequencesExt,
        FiniteSetsExt

CONSTANTS
  NumHostFds,     \* host descriptors are 0 .. NumHostFds - 1
  DirectMax,      \* PBOX_FD_DIRECT_MAX: larger ones go to the overflow vector
  NumSandboxFds,  \* descriptors the sandbox may have open
  Files,          \* open files
  Relaxed         \* what callers may do beyond the contract, see below

HostFds    == 0..(NumHostFds - 1)
SandboxFds == 0..(NumSandboxFds - 1)

ASSUME FdSizesAssumption == /\ NumHostFds \in Nat /\ DirectMax \in Nat
                            /\ NumSandboxFds \in Nat
ASSUME FdThreadsAssumption == IsFiniteSet(Threads)

\* "raw":   raw sends at the same time as other sends
\* "close": pbox_close at the same time as sends
\* "reuse": the host closes a descriptor it has sent without pbox_close
ASSUME RelaxedAssumption == Relaxed \subseteq {"raw", "close", "reuse"}

Closed == "closed"     \* the entry of a descriptor table that is not open
NoFd   == -1

ASSUME ClosedAssumption == Closed \notin Files

VARIABLES
  htab,      \* host descriptor -> open file
  stab,      \* sandbox descriptor -> open file
  sock,      \* files in flight on the socket
  direct,    \* box->fd_direct
  overflow,  \* box->fd_overflow
  fdlock,    \* fd_lock is held
  fdpc,        \* thread -> where it is
  arg,       \* thread -> the host descriptor, sandbox descriptor or file
  got,       \* thread -> the sandbox descriptor it obtained
  owned      \* history: sandbox descriptors the callers have and may close

tables == <<htab, stab, sock>>
cache  == <<direct, overflow>>
fdVars   == <<tables, cache, fdlock, fdpc, arg, got, owned>>

FdInit == /\ htab = [h \in HostFds |-> Closed]
          /\ stab = [s \in SandboxFds |-> Closed]
          /\ sock = <<>>
          /\ direct = [h \in HostFds |-> NoFd]
          /\ overflow = <<>>
          /\ fdlock = FALSE
          /\ fdpc = [t \in Threads |-> "idle"]
          /\ arg = [t \in Threads |-> NoFd]
          /\ got = [t \in Threads |-> NoFd]
          /\ owned = {}

FdGoto(t, l) == fdpc' = [fdpc EXCEPT ![t] = l]

SendPcs == {"s_lock", "s_send", "s_recv", "s_cache", "s_ret"}
RawPcs  == {"r_send", "r_recv", "r_map"}

AnyAt(pcs) == \E t \in Threads : fdpc[t] \in pcs

\* Files nobody has open: what open or memfd_create may return.
FreshFiles == {f \in Files : /\ \A h \in HostFds : htab[h] # f
                             /\ \A s \in SandboxFds : stab[s] # f
                             /\ f \notin ToSet(sock)
                             /\ \A t \in Threads : arg[t] # f}

\* As in Channel, a double underscore marks a deliberately wrong variant of
\* the operator that follows, which a property is validated with.

----------------------------------------------------------------------------
(*************************** The descriptor cache **************************)

\* pbox_lookup_fd
Lookup(h) ==
  IF h < DirectMax THEN direct[h]
  ELSE LET hits == {i \in DOMAIN overflow : overflow[i].host = h}
       IN  IF hits = {} THEN NoFd ELSE overflow[Min(hits)].sandbox

\* pbox_cache_fd: direct table, or a new entry of the vector; when the
\* vector cannot grow the entry is not made.
CacheFd(h, s) ==
  \/ /\ h < DirectMax
     /\ direct' = [direct EXCEPT ![h] = s]
     /\ UNCHANGED overflow
  \/ /\ h >= DirectMax
     /\ overflow' = Append(overflow, [host |-> h, sandbox |-> s])
     /\ UNCHANGED direct
  \/ /\ h >= DirectMax
     /\ UNCHANGED cache

\* The last entry is dropped and does not move up.
Uncache__DropsLast(s) ==
  /\ direct' = [h \in HostFds |-> IF direct[h] = s THEN NoFd ELSE direct[h]]
  /\ overflow' = IF \E i \in DOMAIN overflow : overflow[i].sandbox = s
                 THEN SubSeq(overflow, 1, Len(overflow) - 1) ELSE overflow

\* pbox_uncache_fd: the first entry for the sandbox descriptor, in the order
\* of the host descriptors, then of the vector, whose last entry moves up.
Uncache(s) ==
  LET hits == {h \in HostFds : h < DirectMax /\ direct[h] = s}
      over == {i \in DOMAIN overflow : overflow[i].sandbox = s}
      i    == Min(over)
      n    == Len(overflow)
  IN  IF hits # {}
      THEN direct' = [direct EXCEPT ![Min(hits)] = NoFd] /\ UNCHANGED overflow
      ELSE /\ UNCHANGED direct
           /\ overflow' = IF over = {} THEN overflow
                          ELSE SubSeq([overflow EXCEPT ![i] = overflow[n]],
                                      1, n - 1)

----------------------------------------------------------------------------
(****************************** The host's files ***************************)

HostOpens(h) == /\ htab[h] = Closed
                /\ \E f \in FreshFiles : htab' = [htab EXCEPT ![h] = f]
                /\ UNCHANGED <<stab, sock, cache, fdlock, fdpc, arg, got,
                               owned>>

\* The contract: what was sent is closed with pbox_close before the host
\* closes it, and nothing is closed while it is being sent.
HostCloses(h) == /\ htab[h] # Closed
                 /\ "reuse" \in Relaxed \/ Lookup(h) = NoFd
                 /\ \A t \in Threads : fdpc[t] \in SendPcs => arg[t] # h
                 /\ htab' = [htab EXCEPT ![h] = Closed]
                 /\ UNCHANGED <<stab, sock, cache, fdlock, fdpc, arg, got,
                                owned>>

----------------------------------------------------------------------------
(******************************* pbox_send_fd ******************************)

SendBegins(t, h) == /\ fdpc[t] = "idle"
                    /\ htab[h] # Closed
                    /\ "raw" \in Relaxed \/ ~AnyAt(RawPcs)
                    /\ "close" \in Relaxed \/ ~AnyAt({"c_call", "c_uncache"})
                    /\ FdGoto(t, "s_lock")
                    /\ arg' = [arg EXCEPT ![t] = h]
                    /\ UNCHANGED <<tables, cache, fdlock, got, owned>>

\* The lock is given up before the descriptor is sent.
SendLocks__Released(t) ==
  /\ fdpc[t] = "s_lock"
  /\ ~fdlock
  /\ IF Lookup(arg[t]) >= 0
     THEN got' = [got EXCEPT ![t] = Lookup(arg[t])] /\ FdGoto(t, "s_ret")
     ELSE FdGoto(t, "s_send") /\ UNCHANGED got
  /\ UNCHANGED <<tables, cache, fdlock, arg, owned>>

\* fd_lock is taken; a descriptor that is cached is returned at once.
SendLocks(t) == /\ fdpc[t] = "s_lock"
                /\ ~fdlock
                /\ IF Lookup(arg[t]) >= 0
                   THEN /\ got' = [got EXCEPT ![t] = Lookup(arg[t])]
                        /\ FdGoto(t, "s_ret")
                        /\ UNCHANGED fdlock
                   ELSE fdlock' = TRUE /\ FdGoto(t, "s_send") /\ UNCHANGED got
                /\ UNCHANGED <<tables, cache, arg, owned>>

\* sendmsg repeated although it had succeeded.
SendSends__Twice(t) ==
  /\ fdpc[t] = "s_send"
  /\ sock' = sock \o <<htab[arg[t]], htab[arg[t]]>>
  /\ FdGoto(t, "s_recv")
  /\ UNCHANGED <<htab, stab, cache, fdlock, arg, got, owned>>

\* pbox_send_fd_on_channel: sendmsg ...
SendSends(t) == /\ fdpc[t] = "s_send"
                /\ sock' = Append(sock, htab[arg[t]])
                /\ FdGoto(t, "s_recv")
                /\ UNCHANGED <<htab, stab, cache, fdlock, arg, got, owned>>

\* There is no channel, or sendmsg fails: fd_lock is given back and the answer
\* is -1.
SendmsgFails(t) == /\ fdpc[t] = "s_send"
                   /\ fdlock' = FALSE
                   /\ got' = [got EXCEPT ![t] = NoFd]
                   /\ FdGoto(t, "s_ret")
                   /\ UNCHANGED <<tables, cache, arg, owned>>

\* ... and recv_fd in the worker of t, which takes the descriptor at the head
\* of the socket, whoever it is from.  The kernel gives it the lowest free
\* number; when the table is full it is dropped and recv_fd returns -1.
Receive(t) ==
  LET free == {s \in SandboxFds : stab[s] = Closed}
  IN  /\ sock # <<>>
      /\ sock' = Tail(sock)
      /\ IF free = {}
         THEN got' = [got EXCEPT ![t] = NoFd] /\ UNCHANGED stab
         ELSE /\ got' = [got EXCEPT ![t] = Min(free)]
              /\ stab' = [stab EXCEPT ![Min(free)] = Head(sock)]
      /\ UNCHANGED <<htab, cache, fdlock, arg, owned>>

SendReceives(t) == /\ fdpc[t] = "s_recv"
                   /\ Receive(t)
                   /\ FdGoto(t, "s_cache")

SendCaches(t) == /\ fdpc[t] = "s_cache"
                 /\ IF got[t] >= 0 THEN CacheFd(arg[t], got[t])
                                   ELSE UNCHANGED cache
                 /\ fdlock' = FALSE
                 /\ FdGoto(t, "s_ret")
                 /\ UNCHANGED <<tables, arg, got, owned>>

SendReturns(t) == /\ fdpc[t] = "s_ret"
                  /\ FdGoto(t, "idle")
                  /\ arg' = [arg EXCEPT ![t] = NoFd]
                  /\ got' = [got EXCEPT ![t] = NoFd]
                  /\ owned' = owned \cup ({got[t]} \cap SandboxFds)
                  /\ UNCHANGED <<tables, cache, fdlock>>

----------------------------------------------------------------------------
(******************************** pbox_close *******************************)

\* The caller closes what pbox_send_fd gave it, once.
CloseBegins(t, s) == /\ fdpc[t] = "idle"
                     /\ s \in owned
                     /\ "close" \in Relaxed \/ ~AnyAt(SendPcs)
                     /\ FdGoto(t, "c_call")
                     /\ arg' = [arg EXCEPT ![t] = s]
                     /\ owned' = owned \ {s}
                     /\ UNCHANGED <<tables, cache, fdlock, got>>

\* close is called in the sandbox; what failed leaves the cache alone.
CloseCalls(t) == /\ fdpc[t] = "c_call"
                 /\ stab' = [stab EXCEPT ![arg[t]] = Closed]
                 /\ IF stab[arg[t]] = Closed
                    THEN FdGoto(t, "idle") /\ arg' = [arg EXCEPT ![t] = NoFd]
                    ELSE FdGoto(t, "c_uncache") /\ UNCHANGED arg
                 /\ UNCHANGED <<htab, sock, cache, fdlock, got, owned>>

\* Only then is fd_lock taken and the entry removed.
CloseUncaches(t) == /\ fdpc[t] = "c_uncache"
                    /\ ~fdlock
                    /\ Uncache(arg[t])
                    /\ FdGoto(t, "idle")
                    /\ arg' = [arg EXCEPT ![t] = NoFd]
                    /\ UNCHANGED <<tables, fdlock, got, owned>>

----------------------------------------------------------------------------
(***************** pbox_mmap_identity, create_channel_locked ***************)

\* A memfd is made and mapped in the host.
RawBegins(t) == /\ fdpc[t] = "idle"
                /\ "raw" \in Relaxed \/ ~AnyAt(SendPcs \cup RawPcs)
                /\ \E f \in FreshFiles : arg' = [arg EXCEPT ![t] = f]
                /\ FdGoto(t, "r_send")
                /\ UNCHANGED <<tables, cache, fdlock, got, owned>>

RawSends(t) == /\ fdpc[t] = "r_send"
               /\ sock' = Append(sock, arg[t])
               /\ FdGoto(t, "r_recv")
               /\ UNCHANGED <<htab, stab, cache, fdlock, arg, got, owned>>

\* There is no channel, or sendmsg fails: the memfd is unmapped and closed.
RawFails(t) == /\ fdpc[t] = "r_send"
               /\ FdGoto(t, "idle")
               /\ arg' = [arg EXCEPT ![t] = NoFd]
               /\ UNCHANGED <<tables, cache, fdlock, got, owned>>

RawReceives(t) == /\ fdpc[t] = "r_recv"
                  /\ Receive(t)
                  /\ FdGoto(t, "r_map")

\* The sandbox maps what it received, the host closes its memfd.  The worker
\* of a new channel closes its descriptor; that of an identity region stays.
RawMaps(t) == /\ fdpc[t] = "r_map"
              /\ \/ UNCHANGED stab
                 \/ /\ got[t] >= 0
                    /\ stab' = [stab EXCEPT ![got[t]] = Closed]
              /\ FdGoto(t, "idle")
              /\ arg' = [arg EXCEPT ![t] = NoFd]
              /\ got' = [got EXCEPT ![t] = NoFd]
              /\ UNCHANGED <<htab, sock, cache, fdlock, owned>>

----------------------------------------------------------------------------
Step(t) == \/ SendLocks(t) \/ SendSends(t) \/ SendmsgFails(t)
           \/ SendReceives(t) \/ SendCaches(t) \/ SendReturns(t)
           \/ CloseCalls(t) \/ CloseUncaches(t)
           \/ RawSends(t) \/ RawFails(t) \/ RawReceives(t) \/ RawMaps(t)

FdNext == \/ \E h \in HostFds : HostOpens(h) \/ HostCloses(h)
          \/ \E t \in Threads :
               \/ \E h \in HostFds : SendBegins(t, h)
               \/ \E s \in SandboxFds : CloseBegins(t, s)
               \/ RawBegins(t)
               \/ Step(t)

FdSpec == FdInit /\ [][FdNext]_fdVars

----------------------------------------------------------------------------
(******************************* Properties ********************************)

FdTypeOK ==
  /\ htab \in [HostFds -> Files \cup {Closed}]
  /\ stab \in [SandboxFds -> Files \cup {Closed}]
  /\ sock \in Seq(Files) /\ Len(sock) <= Cardinality(Threads)
  /\ direct \in [HostFds -> SandboxFds \cup {NoFd}]
  /\ overflow \in Seq([host : HostFds, sandbox : SandboxFds])
  /\ Len(overflow) <= NumHostFds
  /\ fdlock \in BOOLEAN
  /\ fdpc \in [Threads ->
               {"idle", "c_call", "c_uncache"} \cup SendPcs \cup RawPcs]
  /\ arg \in [Threads -> HostFds \cup SandboxFds \cup Files \cup {NoFd}]
  /\ got \in [Threads -> SandboxFds \cup {NoFd}]
  /\ owned \subseteq SandboxFds

\* "Returns the fd number in the sandbox" (pbox.h): the number pbox_send_fd
\* returns denotes in the sandbox the file the caller's descriptor denotes,
\* whether it was just sent or found in the cache.
SentFdIsSameFile ==
  \A t \in Threads :
    fdpc[t] = "s_ret" /\ got[t] >= 0 => stab[got[t]] = htab[arg[t]]

\* The memory of a new channel or identity region is the same on both sides.
RawFdIsSameFile ==
  \A t \in Threads :
    fdpc[t] = "r_map" /\ got[t] >= 0 => stab[got[t]] = arg[t]

\* Both, whatever the threads send over the one socket.
FdIsSameFile == SentFdIsSameFile /\ RawFdIsSameFile

\* A cached entry relates two descriptors of one open file, except while the
\* descriptor that was closed in the sandbox waits to be uncached; and it is
\* the only entry for it, which Uncache relies on: it removes one.
Cached == {h \in HostFds : Lookup(h) >= 0}

CacheSound ==
  /\ \A h \in Cached :
       \/ htab[h] # Closed /\ htab[h] = stab[Lookup(h)]
       \/ \E t \in Threads : fdpc[t] = "c_uncache" /\ arg[t] = Lookup(h)
  /\ \A g, h \in Cached : Lookup(g) = Lookup(h) => g = h
=============================================================================
