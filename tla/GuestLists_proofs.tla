----------------------------- MODULE GuestLists_proofs -----------------------------
(***************************************************************************)
(* Proofs about the lists of GuestCalls, for any programs of the guest:    *)
(* what poll_oneoff answers, what a spawned process inherits, what a       *)
(* handler gets and which interfaces the guest is told of.                 *)
(***************************************************************************)
EXTENDS GuestCalls_proofs, ListLemmas

-----------------------------------------------------------------------------
(* Redirections as POSIX has them.                                           *)

\* The child after the n-th redirection, from that before it.
NextChild(own, acts, f, n) ==
    IF n = 0 THEN own ELSE [f[n - 1] EXCEPT ![acts[n].dest] = f[n - 1][acts[n].src]]

IsChild(own, acts, m, f) == f = [n \in 0..m |-> NextChild(own, acts, f, n)]

\* The recursion of PosixStd has a solution as far as any m: from a least m
\* without one, the one before it could be extended.
LEMMA ChildExists ==
  ASSUME NEW own, NEW acts
  PROVE  \A m \in Nat : \E f : IsChild(own, acts, m, f)
<1> DEFINE without == {m \in Nat : ~ \E f : IsChild(own, acts, m, f)}
<1>1. SUFFICES ASSUME without # {} PROVE FALSE
  OBVIOUS
<1>2. PICK m \in without : \A k \in without : m <= k
  BY <1>1, LeastExists
<1>3. CASE m = 0
  <2> DEFINE f == [n \in 0..0 |-> own]
  <2>1. \A n \in 0..0 : NextChild(own, acts, f, n) = own
    BY DEF NextChild
  <2>2. IsChild(own, acts, 0, f)
    BY <2>1 DEF IsChild
  <2> QED
    BY <1>2, <1>3, <2>2
<1>4. CASE m # 0
  <2>1. m - 1 \in Nat /\ m - 1 \notin without
    BY <1>2, <1>4
  <2>2. PICK f : IsChild(own, acts, m - 1, f)
    BY <2>1
  <2> DEFINE g == [n \in 0..m |-> IF n = m THEN NextChild(own, acts, f, m) ELSE f[n]]
  <2>3. \A n \in 0..(m - 1) : g[n] = f[n]
    BY <2>1
  <2>4. \A n \in 0..(m - 1) : f[n] = NextChild(own, acts, f, n)
    BY <2>2 DEF IsChild
  <2>5. \A n \in 0..m : NextChild(own, acts, g, n) = NextChild(own, acts, f, n)
    <3> TAKE n \in 0..m
    <3>1. CASE n = 0
      BY <3>1 DEF NextChild
    <3>2. CASE n # 0
      <4>1. g[n - 1] = f[n - 1]
        BY <2>1, <2>3, <3>2
      <4> HIDE DEF g
      <4> QED
        BY <3>2, <4>1 DEF NextChild
    <3> QED
      BY <3>1, <3>2
  <2>6. \A n \in 0..m : g[n] = NextChild(own, acts, f, n)
    BY <2>1, <2>3, <2>4
  <2>7. IsChild(own, acts, m, g)
    BY <2>5, <2>6 DEF IsChild
  <2> QED
    BY <1>2, <2>7
<1> QED
  BY <1>3, <1>4

LEMMA PosixUnfolds ==
  ASSUME NEW own, NEW acts, Len(acts) \in Nat
  PROVE  \E f : IsChild(own, acts, Len(acts), f) /\ PosixStd(own, acts) = f[Len(acts)]
<1> DEFINE child[n \in 0..Len(acts)] ==
               IF n = 0 THEN own ELSE [child[n - 1] EXCEPT ![acts[n].dest] = child[n - 1][acts[n].src]]
<1>1. PosixStd(own, acts) = child[Len(acts)]
  BY DEF PosixStd
<1>2. \E f : f = [n \in 0..Len(acts) |->
                        IF n = 0 THEN own ELSE [f[n - 1] EXCEPT ![acts[n].dest] = f[n - 1][acts[n].src]]]
  <2>1. PICK f : IsChild(own, acts, Len(acts), f)
    BY ChildExists
  <2>2. f = [n \in 0..Len(acts) |->
                        IF n = 0 THEN own ELSE [f[n - 1] EXCEPT ![acts[n].dest] = f[n - 1][acts[n].src]]]
    BY <2>1 DEF IsChild, NextChild
  <2> QED
    BY <2>2, Zenon
<1>3. child = [n \in 0..Len(acts) |->
                        IF n = 0 THEN own ELSE [child[n - 1] EXCEPT ![acts[n].dest] = child[n - 1][acts[n].src]]]
  BY <1>2
<1> HIDE DEF child
<1>4. IsChild(own, acts, Len(acts), child)
  BY <1>3 DEF IsChild, NextChild
<1> QED
  BY <1>1, <1>4

\* What a descriptor of the child refers to after n redirections, if no source
\* is the destination of an earlier one: what it did at first, or the source of
\* the last redirection to it.
ChildHas(own, acts, child, n) ==
    /\ DOMAIN child = AppFDs
    /\ \A a \in AppFDs :
          /\ (\A i \in 1..n : acts[i].dest # a) => child[a] = own[a]
          /\ \A i \in 1..n : acts[i].dest = a /\ (\A j \in 1..n : i < j => acts[j].dest # a) =>
                child[a] = own[acts[i].src]

LEMMA SequenceHas ==
  ASSUME NEW T, NEW s \in Seq(T)
  PROVE  Len(s) \in Nat /\ DOMAIN s = 1..Len(s) /\ \A n \in 1..Len(s) : s[n] \in T
OBVIOUS

LEMMA PosixStdHas ==
  ASSUME NEW own, DOMAIN own = AppFDs, NEW acts \in Seq([dest : Int, src : AppFDs]),
         \A i, j \in DOMAIN acts : i < j => acts[j].src # acts[i].dest
  PROVE  ChildHas(own, acts, PosixStd(own, acts), Len(acts))
<1> DEFINE m == Len(acts)
<1>1. m \in Nat /\ \A n \in 1..m : n \in DOMAIN acts /\ acts[n].src \in AppFDs
  <2>1. m \in Nat /\ DOMAIN acts = 1..m /\ \A n \in 1..m : acts[n] \in [dest : Int, src : AppFDs]
    BY SequenceHas, Zenon
  <2> QED
    BY <2>1
<1>2. PICK f : IsChild(own, acts, m, f) /\ PosixStd(own, acts) = f[m]
  BY <1>1, PosixUnfolds
<1>3. \A n \in 0..m : f[n] = NextChild(own, acts, f, n)
  BY <1>2 DEF IsChild
<1> DEFINE wrong == {n \in 0..m : ~ChildHas(own, acts, f[n], n)}
<1>4. SUFFICES ASSUME wrong # {} PROVE FALSE
  BY <1>1, <1>2
<1>5. wrong \in SUBSET Nat
  OBVIOUS
<1>6. PICK n \in wrong : \A k \in wrong : n <= k
  <2> HIDE DEF wrong
  <2> QED
    BY <1>4, <1>5, LeastExists
<1> HIDE DEF m
<1>7. CASE n = 0
  <2>1. f[n] = own
    BY <1>3, <1>6, <1>7 DEF NextChild
  <2>2. \A i : i \notin 1..n
    BY <1>7
  <2>3. ChildHas(own, acts, f[n], n)
    BY <2>1, <2>2 DEF ChildHas
  <2> QED
    BY <1>6, <2>3
<1>8. CASE n # 0
  <2> DEFINE before == f[n - 1]
             src == acts[n].src
             dest == acts[n].dest
  <2>1. n \in 1..m /\ n - 1 \in 0..m /\ n - 1 \notin wrong
    BY <1>1, <1>6, <1>8
  <2>2. ChildHas(own, acts, before, n - 1)
    BY <2>1
  <2>3. f[n] = [before EXCEPT ![dest] = before[src]]
    BY <1>3, <1>8, <2>1 DEF NextChild
  <2>4. before[src] = own[src] /\ src \in AppFDs
    <3>1. src \in AppFDs /\ \A i \in 1..(n - 1) : acts[i].dest # src
      BY <1>1, <2>1 DEF m
    <3> HIDE DEF before, src
    <3> QED
      BY <2>2, <3>1 DEF ChildHas
  <2> HIDE DEF before
  <2>5. DOMAIN f[n] = AppFDs /\ \A a \in AppFDs : f[n][a] = IF a = dest THEN own[src] ELSE before[a]
    BY <2>2, <2>3, <2>4 DEF ChildHas
  <2>6. \A i : i \in 1..n <=> i \in 1..(n - 1) \/ i = n
    BY <2>1
  <2>7. \A i \in 1..(n - 1) : i < n
    BY <2>1
  <2>8. ChildHas(own, acts, f[n], n)
    <3> SUFFICES ASSUME NEW a \in AppFDs
                 PROVE  /\ (\A i \in 1..n : acts[i].dest # a) => f[n][a] = own[a]
                        /\ \A i \in 1..n : acts[i].dest = a /\ (\A j \in 1..n : i < j => acts[j].dest # a) =>
                              f[n][a] = own[acts[i].src]
      BY <2>5 DEF ChildHas
    <3>1. CASE a = dest
      <4>1. \A i \in 1..(n - 1) : ~ \A j \in 1..n : i < j => acts[j].dest # a
        BY <2>1, <2>7, <3>1
      <4> QED
        BY <2>1, <2>5, <2>6, <3>1, <4>1
    <3>2. CASE a # dest
      <4>1. f[n][a] = before[a]
        BY <2>5, <3>2
      <4>2. /\ (\A i \in 1..(n - 1) : acts[i].dest # a) => before[a] = own[a]
            /\ \A i \in 1..(n - 1) : acts[i].dest = a /\ (\A j \in 1..(n - 1) : i < j => acts[j].dest # a) =>
                  before[a] = own[acts[i].src]
        BY <2>2 DEF ChildHas
      <4>3. acts[n].dest # a
        BY <3>2
      <4> QED
        BY <2>6, <4>1, <4>2, <4>3
    <3> QED
      BY <3>1, <3>2
  <2> QED
    BY <1>6, <2>8
<1> QED
  BY <1>7, <1>8

\* What the library has found for each of the guest's numbers.
FoundAsOwned(own, acts, found) ==
    /\ \A i \in 1..(Len(acts) + 3) : found[i] \in (HostFDs \ StdFDs) \cup {INVALID_SOCKET}
    /\ \A fd \in StdFDs : own[fd] # INVALID_SOCKET => found[fd + 1] = own[fd]
    /\ \A i \in DOMAIN acts : own[acts[i].src] # INVALID_SOCKET => found[i + 3] = own[acts[i].src]

\* The array that dup2FDArr makes of them.
Arranges(arr, acts, found) ==
    arr = dup2FDArr([fd \in StdFDs |-> found[fd + 1]],
                    [i \in DOMAIN acts |-> [dest |-> acts[i].dest, host |-> found[i + 3]]])

\* What RedirectsLikePosix says of a call's redirections acts and its answer v.
RedirectsFit(acts, v) ==
    (\A i, j \in DOMAIN acts : i < j => acts[j].src # acts[i].dest) =>
        \A fd \in StdFDs : PosixStd(v.own, acts)[fd] # INVALID_SOCKET => v.std[fd] = PosixStd(v.own, acts)[fd]

LEMMA RedirectionsFit ==
  ASSUME NEW own, DOMAIN own = AppFDs, NEW acts \in Seq([dest : Int, src : AppFDs]),
         NEW found, FoundAsOwned(own, acts, found),
         NEW arr, Arranges(arr, acts, found),
         NEW std, DOMAIN std = HostFDs, \A h \in HostFDs : std[h] = h,
         NEW val, val.own = own, val.std = ChildStd(std, arr)
  PROVE  RedirectsFit(acts, val)
<1> SUFFICES ASSUME \A i, j \in DOMAIN acts : i < j => acts[j].src # acts[i].dest,
                    NEW fd \in StdFDs, PosixStd(own, acts)[fd] # INVALID_SOCKET
             PROVE  ChildStd(std, arr)[fd] = PosixStd(own, acts)[fd]
  BY DEF RedirectsFit
<1> DEFINE actions == [i \in DOMAIN acts |-> [dest |-> acts[i].dest, host |-> found[i + 3]]]
           requests(d) == {i \in DOMAIN actions : actions[i].dest = d}
           posix == PosixStd(own, acts)
<1>1. Len(acts) \in Nat /\ DOMAIN acts = 1..Len(acts) /\ DOMAIN actions = 1..Len(acts)
  OBVIOUS
<1>2. \A i \in DOMAIN acts : actions[i].dest = acts[i].dest /\ actions[i].host = found[i + 3]
  OBVIOUS
<1>3. \A d \in StdFDs : arr[d] = IF requests(d) = {} THEN found[d + 1] ELSE actions[Max(requests(d))].host
  BY DEF Arranges, dup2FDArr, Counts
<1> HIDE DEF actions
<1>4. \A d \in StdFDs : requests(d) # {} =>
        Max(requests(d)) \in requests(d) /\ \A y \in requests(d) : y <= Max(requests(d))
  <2> TAKE d \in StdFDs
  <2>1. requests(d) \in SUBSET (1..Len(acts))
    BY <1>1
  <2> HIDE DEF requests
  <2> QED
    BY <1>1, <2>1, MaxIsIn
<1>5. \A d \in StdFDs : arr[d] \in (HostFDs \ StdFDs) \cup {-1}
  <2> TAKE d \in StdFDs
  <2>1. d + 1 \in 1..(Len(acts) + 3)
    BY <1>1 DEF StdFDs
  <2>2. \A i \in 1..Len(acts) : i + 3 \in 1..(Len(acts) + 3)
    BY <1>1
  <2>3. \A i \in 1..(Len(acts) + 3) : found[i] \in (HostFDs \ StdFDs) \cup {-1}
    BY DEF FoundAsOwned, INVALID_SOCKET
  <2>4. CASE requests(d) = {}
    BY <1>3, <2>1, <2>3, <2>4
  <2>5. CASE requests(d) # {}
    <3> DEFINE last == Max(requests(d))
    <3>1. last \in 1..Len(acts) /\ arr[d] = actions[last].host
      BY <1>1, <1>3, <1>4, <2>5
    <3> HIDE DEF last
    <3> QED
      BY <1>1, <1>2, <2>2, <2>3, <3>1
  <2> QED
    BY <2>4, <2>5
<1>6. ChildHas(own, acts, posix, Len(acts))
  BY PosixStdHas
<1> HIDE DEF posix
<1>7. StdFDs \subseteq AppFDs /\ StdFDs \subseteq HostFDs
  BY GuestCallsAssumption
<1>8. arr[fd] = posix[fd]
  <2>1. CASE requests(fd) = {}
    <3>1. posix[fd] = own[fd]
      BY <1>1, <1>2, <1>6, <1>7, <2>1 DEF ChildHas
    <3>2. own[fd] # INVALID_SOCKET
      BY <3>1 DEF posix
    <3> QED
      BY <1>3, <2>1, <3>1, <3>2 DEF FoundAsOwned
  <2>2. CASE requests(fd) # {}
    <3> DEFINE last == Max(requests(fd))
    <3>1. last \in 1..Len(acts) /\ acts[last].dest = fd /\ \A j \in 1..Len(acts) : last < j => acts[j].dest # fd
      <4>1. last \in requests(fd) /\ \A y \in requests(fd) : y <= last
        BY <1>4, <2>2
      <4>2. \A i : i \in requests(fd) <=> i \in 1..Len(acts) /\ acts[i].dest = fd
        BY <1>1, <1>2
      <4> HIDE DEF last, requests
      <4> QED
        BY <1>1, <4>1, <4>2
    <3> HIDE DEF last
    <3>2. posix[fd] = own[acts[last].src]
      BY <1>6, <1>7, <3>1 DEF ChildHas
    <3>3. own[acts[last].src] # INVALID_SOCKET
      BY <3>2 DEF posix
    <3>4. arr[fd] = found[last + 3]
      BY <1>1, <1>2, <1>3, <2>2, <3>1 DEF last
    <3> QED
      BY <1>1, <3>1, <3>2, <3>3, <3>4 DEF FoundAsOwned
  <2> QED
    BY <2>1, <2>2
<1>9. arr[fd] # -1
  BY <1>8 DEF posix, INVALID_SOCKET
<1>10. ChildStd(std, arr)[fd] = arr[fd]
  <2>1. \A h \in DOMAIN std : std[h] = h
    OBVIOUS
  <2>2. StdFDs \subseteq DOMAIN std /\ \A d \in StdFDs : arr[d] = -1 \/ arr[d] \in DOMAIN std \ StdFDs
    BY <1>5, <1>7, <2>1
  <2>3. \A d \in StdFDs : arr[d] # -1 => ChildStd(std, arr)[d] = arr[d]
    BY <2>1, <2>2, ChildGets
  <2> QED
    BY <1>9, <2>3
<1> QED
  BY <1>8, <1>10 DEF posix

-----------------------------------------------------------------------------
(* The host program's own 0, 1 and 2, which no descriptor of the guest is.   *)

StdKept == \A h \in StdFDs : file[h] = Other

LEMMA StdIsNobodys ==
  ASSUME Inv, StdKept
  PROVE  /\ \A h \in HostFDs : file[h] # Other => h \notin StdFDs
         /\ \A a \in AppFDs : fds[a] # None => fds[a].host \in HostFDs \ StdFDs
         /\ \A t \in Threads : pc[t] = "created" => at[t].host \in HostFDs \ StdFDs
         /\ StdFDs \subseteq HostFDs /\ DOMAIN file = HostFDs
<1>1. StdFDs \subseteq HostFDs
  BY GuestCallsAssumption
<1> QED
  BY <1>1, HostsKnown, NobodyNamesFree DEF StdKept

LEMMA StdKeptHolds ==
  /\ Init => StdKept
  /\ Inv /\ StdKept /\ [Next]_vars => StdKept'
<1>1. ASSUME Init
      PROVE  StdKept
  <2>1. PICK name \in DOMAIN Programs : prog = Programs[name] /\ file = Programs[name].file
    BY <1>1 DEF Init
  <2> QED
    BY <2>1, ProgramsAssumption DEF StdKept
<1>2. ASSUME Inv, StdKept, UNCHANGED file \/ \E h \in HostFDs \ StdFDs : \E f : file' = [file EXCEPT ![h] = f]
      PROVE  StdKept'
  BY <1>2, StdIsNobodys DEF StdKept
<1>3. ASSUME Inv, StdKept, NEW t \in Threads, FDClose(t)
      PROVE  StdKept'
  <2>1. PICK c \in prog.calls[t] : Begins(t, "fd_close", c) /\ fds[c.fd] # None /\ CloseApp(c.fd)
    BY <1>3 DEF FDClose
  <2>2. c.fd \in AppFDs
    BY <1>3, <2>1, BeginsEffect DEF ValidCall, Inv
  <2> QED
    BY <1>2, <1>3, <2>1, <2>2, StdIsNobodys DEF CloseApp
<1>4. ASSUME Inv, StdKept, NEW t \in Threads, SockOpen(t)
      PROVE  StdKept'
  <2>1. UNCHANGED file \/ (FreeHostFDs # {} /\ \E f : file' = [file EXCEPT ![NewHostFD] = f])
    BY <1>4 DEF SockOpen
  <2>2. FreeHostFDs # {} => NewHostFD \in HostFDs \ StdFDs
    BY <1>4, FreeNumbers, StdIsNobodys DEF Inv, CallInv, Closed, Other
  <2> QED
    BY <1>2, <1>4, <2>1, <2>2
<1>5. ASSUME Inv, StdKept, NEW t \in Threads, InsertFails(t)
      PROVE  StdKept'
  BY <1>2, <1>5, StdIsNobodys DEF InsertFails, RolledBack
<1>6. ASSUME Inv, StdKept, SocketStep
      PROVE  StdKept'
  <2>1. PICK h \in HostFDs : (\E g : file' = [file EXCEPT ![h] = g]) /\ file[h].kind = "socket"
    BY <1>6 DEF SocketStep
  <2>2. h \notin StdFDs
    BY <1>6, <2>1, StdIsNobodys DEF Other
  <2> QED
    BY <1>2, <1>6, <2>1, <2>2
<1>7. ASSUME Inv, StdKept, NEW t \in Threads, Handler(t)
      PROVE  StdKept'
  <2>1. UNCHANGED file \/ SocketStep \/ Accepts(t)
    BY <1>7, HandlerFiles DEF Inv
  <2>2. FreeHostFDs # {} => NewHostFD \in HostFDs \ StdFDs
    BY <1>7, FreeNumbers, StdIsNobodys DEF Inv, CallInv, Closed, Other
  <2> QED
    BY <1>2, <1>6, <1>7, <2>1, <2>2 DEF Accepts
<1>8. ASSUME Inv, StdKept, NEW t \in Threads,
             \/ GetHostFDByAppFD(t) \/ InsertNewHostSocketFDToTable(t) \/ PollOneOff(t) \/ PollReturns(t) \/ SockGetIfAddrs(t)
             \/ ProcessSpawn(t) \/ SpawnLookup(t) \/ SpawnChild(t)
             \/ WasiExtSyscall(t) \/ GuestWritesArgs(t) \/ DoSyscall(t)
      PROVE  StdKept'
  <2>1. UNCHANGED file
    BY <1>8 DEF GetHostFDByAppFD, InsertNewHostSocketFDToTable, PollOneOff, PollReturns, SockGetIfAddrs, ProcessSpawn,
                SpawnLookup, SpawnChild, WasiExtSyscall, GuestWritesArgs, DoSyscall
  <2> QED
    BY <1>2, <1>8, <2>1
<1>9. ASSUME Inv, StdKept, OtherOpens \/ OtherCloses \/ PeerActs \/ OtherLocks
      PROVE  StdKept'
  <2>1. FreeHostFDs # {} => NewHostFD \in HostFDs \ StdFDs
    BY <1>9, FreeNumbers, StdIsNobodys DEF Inv, CallInv, Closed, Other
  <2> QED
    BY <1>2, <1>6, <1>9, <2>1, PeerWorksOnSocket DEF OtherOpens, OtherCloses, OtherLocks, Inv
<1>10. ASSUME Inv, StdKept, CollectFDs \/ CloseNext \/ Deinstantiate
       PROVE  StdKept'
  <2>1. UNCHANGED file \/ \E a \in AppFDs : fds[a] # None /\ CloseApp(a)
    <3>1. CASE CloseNext
      <4>1. doomed # {} /\ doomed \subseteq AppFDs /\ AppFDs \subseteq Nat
        BY <1>10, <3>1, GuestCallsAssumption DEF CloseNext, Inv, CallInv, PhaseInv
      <4>2. Min(doomed) \in AppFDs
        BY <4>1, MinIsIn
      <4> QED
        BY <3>1, <4>2 DEF CloseNext
    <3> QED
      BY <1>10, <3>1 DEF CollectFDs, Deinstantiate
  <2> QED
    BY <1>2, <1>10, <2>1, StdIsNobodys DEF CloseApp
<1>11. Inv /\ StdKept /\ UNCHANGED vars => StdKept'
  BY DEF vars, StdKept
<1> QED
  BY <1>1, <1>3, <1>4, <1>5, <1>7, <1>8, <1>9, <1>10, <1>11 DEF Next

-----------------------------------------------------------------------------
(* What a call holds between its steps.                                      *)

\* poll_oneoff: the array for poll() and the clock it waits for.
PollHeld(t) ==
    pc[t] = "polling" =>
        /\ at[t].now \in 0..Forever /\ at[t].best = Timeout(call[t].subs, at[t].now)
        /\ \A i \in DOMAIN call[t].subs : IsClock(call[t].subs[i]) => at[t].arr[i] = INVALID_SOCKET

\* A descriptor the guest had when the call began is what it was then, unless
\* the guest closed one, and so the library has found it.
FoundLikeOwn(t) ==
    /\ \A a \in AppFDs : at[t].own[a] # INVALID_SOCKET => HostOf[a] = at[t].own[a]
    /\ \A i \in 1..Len(at[t].host) :
          at[t].own[Lookups(call[t])[i]] # INVALID_SOCKET => at[t].host[i] = at[t].own[Lookups(call[t])[i]]

\* ProcessSpawn: the descriptors found so far.
SpawnHeld(t) ==
    pc[t] = "spawning" =>
        /\ at[t] = [host |-> at[t].host, own |-> at[t].own]
        /\ DOMAIN at[t].own = AppFDs /\ at[t].host \in Seq((HostFDs \ StdFDs) \cup {INVALID_SOCKET})
        /\ ~stale[t] => FoundLikeOwn(t)

\* A syscall: the arguments as Invoke left them, unless the guest wrote to them.
ArgsHeld(t) ==
    pc[t] = "invoked" =>
        /\ call[t].id \in DOMAIN gExtSyscallMap
        /\ ~stale[t] => at[t].argv = InvokedArgs(call[t].id)

CallHeld(t) == PollHeld(t) /\ SpawnHeld(t) /\ ArgsHeld(t)

Held == \A t \in Threads : CallHeld(t)

\* A call that takes no part in the step does not notice.
LEMMA HeldStays ==
  ASSUME CallInv, NEW t \in Threads, CallHeld(t),
         pc'[t] = pc[t], call'[t] = call[t], at'[t] = at[t], stale[t] => stale'[t],
         (~stale'[t] /\ pc[t] # "idle") => \A a \in AppFDs : fds[a] # None => fds'[a] = fds[a]
  PROVE  CallHeld(t)'
<1>1. PollHeld(t)' /\ ArgsHeld(t)'
  BY DEF CallHeld, PollHeld, ArgsHeld
<1>2. SpawnHeld(t)'
  <2>1. ASSUME pc[t] = "spawning", ~stale'[t]
        PROVE  FoundLikeOwn(t)'
    <3>1. FoundLikeOwn(t)
      BY <2>1 DEF CallHeld, SpawnHeld
    <3>2. \A a \in AppFDs : HostOf[a] # INVALID_SOCKET => HostOf'[a] = HostOf[a]
      BY <2>1 DEF HostOf
    <3> QED
      BY <3>1, <3>2 DEF FoundLikeOwn
  <2> QED
    BY <2>1 DEF CallHeld, SpawnHeld
<1> QED
  BY <1>1, <1>2 DEF CallHeld

LEMMA StepKeepsHeld ==
  ASSUME CallInv, Held, NEW t \in Threads, OthersStay(t), CallHeld(t)',
         \A a \in AppFDs : fds[a] # None => fds'[a] = fds[a]
  PROVE  Held'
<1>1. ASSUME NEW u \in Threads \ {t}
      PROVE  CallHeld(u)'
  BY HeldStays DEF Held, OthersStay
<1> QED
  BY <1>1 DEF Held

LEMMA EndsKeepsHeld ==
  ASSUME CallInv, Held, NEW t \in Threads, Ends(t), \A a \in AppFDs : fds[a] # None => fds'[a] = fds[a]
  PROVE  Held'
<1>1. OthersStay(t) /\ pc'[t] = "idle"
  BY GivesEffect DEF Ends, CallInv, Shape, ThreadShape
<1>2. CallHeld(t)'
  BY <1>1 DEF CallHeld, PollHeld, SpawnHeld, ArgsHeld
<1> QED
  BY <1>1, <1>2, StepKeepsHeld

LEMMA EnterEffect ==
  ASSUME CallInv, NEW t \in Threads, NEW c, NEW where, NEW found, Enter(t, c, where, found),
         where \in {"resolved", "created", "polling", "spawning", "invoked"}
  PROVE  /\ OthersStay(t) /\ pc'[t] = where /\ call'[t] = c /\ at'[t] = found
         /\ got'[t] = None /\ stale'[t] = FALSE
BY DEF Enter, CallInv, Shape, OthersStay

LEMMA TimesKnown ==
  ASSUME CallInv
  PROVE  /\ \A now \in prog.times : now \in 0..Forever
         /\ prog.conditions \subseteq {"POLLHUP", "POLLERR"}
         /\ \A list \in prog.interfaces : ValidInterfaces(list)
<1>1. PICK name \in DOMAIN Programs : prog = Programs[name]
  BY DEF CallInv, Shape
<1> QED
  BY <1>1, ProgramsAssumption

LEMMA PollKeepsHeld ==
  ASSUME CallInv, Held, NEW t \in Threads, PollOneOff(t)
  PROVE  Held'
<1>1. fds' = fds
  BY DEF PollOneOff
<1>2. PICK c \in prog.calls[t], now \in prog.times :
        \/ Ends(t)
        \/ Enter(t, c, "polling", [arr |-> PollArr(c.subs, HostOf), best |-> Timeout(c.subs, now), now |-> now])
  BY DEF PollOneOff, Ends
<1>3. CASE Enter(t, c, "polling", [arr |-> PollArr(c.subs, HostOf), best |-> Timeout(c.subs, now), now |-> now])
  <2>1. /\ OthersStay(t) /\ pc'[t] = "polling" /\ call'[t] = c
        /\ at'[t] = [arr |-> PollArr(c.subs, HostOf), best |-> Timeout(c.subs, now), now |-> now]
    BY <1>3, EnterEffect
  <2>2. PollHeld(t)'
    BY <2>1, TimesKnown DEF PollHeld, PollArr
  <2>3. SpawnHeld(t)' /\ ArgsHeld(t)'
    BY <2>1 DEF SpawnHeld, ArgsHeld
  <2>4. CallHeld(t)'
    BY <2>2, <2>3 DEF CallHeld
  <2> QED
    BY <1>1, <2>1, <2>4, StepKeepsHeld
<1> QED
  BY <1>1, <1>2, <1>3, EndsKeepsHeld

\* A sequence after three elements.
LEMMA AfterThree ==
  ASSUME NEW S, NEW r \in Seq(S), NEW s \in Seq(S), Len(r) = 3
  PROVE  /\ r \o s \in Seq(S) /\ Len(r \o s) = Len(s) + 3
         /\ \A i \in 1..3 : (r \o s)[i] = r[i]
         /\ \A i \in 1..Len(s) : (r \o s)[i + 3] = s[i]
<1> DEFINE j == r \o s
           n == Len(s)
<1>1. n \in Nat
  BY LenProperties
<1>2. j \in Seq(S) /\ Len(j) = Len(r) + n
  BY ConcatProperties
<1>3. \A i \in 1..(Len(r) + n) : j[i] = IF i <= Len(r) THEN r[i] ELSE s[i - Len(r)]
  BY ConcatProperties
<1> HIDE DEF j, n
<1>4. ASSUME NEW i \in 1..3
      PROVE  j[i] = r[i]
  BY <1>1, <1>3, <1>4
<1>5. ASSUME NEW i \in 1..n
      PROVE  j[i + 3] = s[i]
  <2>1. i + 3 \in 1..(3 + n) /\ ~(i + 3 <= 3) /\ (i + 3) - 3 = i
    BY <1>1, <1>5
  <2>2. j[i + 3] = s[(i + 3) - 3]
    BY <1>3, <2>1
  <2> QED
    BY <2>1, <2>2
<1>6. j \in Seq(S) /\ Len(j) = n + 3
  BY <1>1, <1>2
<1> QED
  BY <1>4, <1>5, <1>6 DEF j, n

\* The numbers that ProcessSpawn looks up.
LEMMA LooksUp ==
  ASSUME NEW c, c.actions \in Seq([dest : Int, src : AppFDs])
  PROVE  /\ Len(c.actions) \in Nat /\ DOMAIN c.actions = 1..Len(c.actions)
         /\ Len(Lookups(c)) = Len(c.actions) + 3
         /\ \A fd \in StdFDs : Lookups(c)[fd + 1] = fd
         /\ \A i \in DOMAIN c.actions : Lookups(c)[i + 3] = c.actions[i].src
         /\ \A i \in 1..(Len(c.actions) + 3) : Lookups(c)[i] \in AppFDs
<1> DEFINE srcs == [i \in DOMAIN c.actions |-> c.actions[i].src]
           first == <<0, 1, 2>>
<1>1. /\ Len(c.actions) \in Nat /\ DOMAIN c.actions = 1..Len(c.actions)
      /\ \A i \in 1..Len(c.actions) : c.actions[i] \in [dest : Int, src : AppFDs]
  BY SequenceHas, Zenon
<1>2. srcs \in Seq(AppFDs) /\ Len(srcs) = Len(c.actions) /\ \A i \in DOMAIN c.actions : srcs[i] = c.actions[i].src
  <2>1. srcs \in [1..Len(c.actions) -> AppFDs]
    BY <1>1
  <2> HIDE DEF srcs
  <2>2. srcs \in Seq(AppFDs) /\ Len(srcs) = Len(c.actions)
    BY <1>1, <2>1
  <2> QED
    BY <2>2 DEF srcs
<1>3. first \in Seq(AppFDs) /\ Len(first) = 3 /\ \A fd \in StdFDs : first[fd + 1] = fd
  BY GuestCallsAssumption DEF StdFDs
<1>4. Lookups(c) = first \o srcs
  BY DEF Lookups
<1> HIDE DEF srcs, first
<1>5. /\ Lookups(c) \in Seq(AppFDs) /\ Len(Lookups(c)) = Len(c.actions) + 3
      /\ \A i \in 1..3 : Lookups(c)[i] = first[i]
      /\ \A i \in 1..Len(c.actions) : Lookups(c)[i + 3] = srcs[i]
  <2>1. /\ first \o srcs \in Seq(AppFDs) /\ Len(first \o srcs) = Len(srcs) + 3
        /\ \A i \in 1..3 : (first \o srcs)[i] = first[i]
        /\ \A i \in 1..Len(srcs) : (first \o srcs)[i + 3] = srcs[i]
    BY <1>2, <1>3, AfterThree
  <2> QED
    BY <1>2, <1>4, <2>1
<1>6. \A fd \in StdFDs : fd + 1 \in 1..3
  BY DEF StdFDs
<1>7. \A i \in 1..(Len(c.actions) + 3) : Lookups(c)[i] \in AppFDs
  BY <1>5
<1> QED
  BY <1>1, <1>2, <1>3, <1>5, <1>6, <1>7

LEMMA SpawnKeepsHeld ==
  ASSUME Inv, StdKept, Held, NEW t \in Threads, ProcessSpawn(t) \/ SpawnLookup(t)
  PROVE  Held'
<1>1. fds' = fds /\ CallInv
  BY DEF ProcessSpawn, SpawnLookup, Inv
<1>2. HostOf' = HostOf
  BY <1>1 DEF HostOf
<1>3. \A a \in AppFDs : HostOf[a] \in (HostFDs \ StdFDs) \cup {INVALID_SOCKET}
  BY StdIsNobodys DEF HostOf
<1>4. CASE ProcessSpawn(t)
  <2>1. PICK c : Enter(t, c, "spawning", [host |-> <<>>, own |-> HostOf])
    BY <1>4 DEF ProcessSpawn
  <2>2. OthersStay(t) /\ pc'[t] = "spawning" /\ at'[t] = [host |-> <<>>, own |-> HostOf]
    BY <1>1, <2>1, EnterEffect
  <2>3. PollHeld(t)' /\ ArgsHeld(t)'
    BY <2>2 DEF PollHeld, ArgsHeld
  <2>4. SpawnHeld(t)'
    <3>1. at'[t].host = <<>> /\ at'[t].own = HostOf /\ DOMAIN HostOf = AppFDs
      BY <2>2 DEF HostOf
    <3>2. FoundLikeOwn(t)'
      BY <1>2, <3>1 DEF FoundLikeOwn
    <3> QED
      BY <2>2, <3>1, <3>2 DEF SpawnHeld
  <2>5. CallHeld(t)'
    BY <2>3, <2>4 DEF CallHeld
  <2> QED
    BY <1>1, <2>2, <2>5, StepKeepsHeld
<1>5. CASE SpawnLookup(t)
  <2> DEFINE c == call[t]
             own == at[t].own
             found == at[t].host
             i == Len(found) + 1
             h == HostOf[Lookups(c)[i]]
  <2>1. /\ pc[t] = "spawning" /\ Len(found) < Len(Lookups(c))
        /\ \/ Ends(t)
           \/ at' = [at EXCEPT ![t].host = Append(@, h)] /\ UNCHANGED <<pc, call, got, stale>>
    BY <1>5 DEF SpawnLookup, Return, Ends
  <2>2. /\ at[t] = [host |-> found, own |-> own] /\ DOMAIN own = AppFDs
        /\ found \in Seq((HostFDs \ StdFDs) \cup {INVALID_SOCKET})
        /\ ~stale[t] => FoundLikeOwn(t)
    BY <2>1 DEF Held, CallHeld, SpawnHeld
  <2>3. CASE at' = [at EXCEPT ![t].host = Append(@, h)] /\ UNCHANGED <<pc, call, got, stale>>
    <3>1. at'[t] = [host |-> Append(found, h), own |-> own] /\ \A u \in Threads \ {t} : at'[u] = at[u]
      BY <1>1, <2>2, <2>3 DEF CallInv, Shape
    <3>2. OthersStay(t) /\ pc'[t] = "spawning" /\ call'[t] = c /\ stale'[t] = stale[t]
      BY <2>1, <2>3, <3>1 DEF OthersStay
    <3>3. Lookups(c)[i] \in AppFDs
      <4>1. c.op = "ProcessSpawn" /\ ValidCall(c)
        BY <1>1, <2>1, InCall DEF CallInv, CallOf
      <4>2. c.actions \in Seq([dest : Int, src : AppFDs])
        BY <4>1 DEF ValidCall
      <4>3. Len(found) \in Nat
        BY <2>2
      <4>4. Len(Lookups(c)) = Len(c.actions) + 3 /\ Len(c.actions) \in Nat
        BY <4>2, LooksUp, Zenon
      <4> HIDE DEF c, found
      <4>5. i \in 1..(Len(c.actions) + 3)
        BY <2>1, <4>3, <4>4
      <4> QED
        BY <4>2, <4>4, <4>5, LooksUp
    <3>4. h \in (HostFDs \ StdFDs) \cup {INVALID_SOCKET}
      BY <1>3, <3>3
    <3> HIDE DEF h, found, own, c
    <3>5. /\ Append(found, h) \in Seq((HostFDs \ StdFDs) \cup {INVALID_SOCKET})
          /\ Len(found) \in Nat /\ Len(Append(found, h)) = i
          /\ Append(found, h)[i] = h /\ \A j \in 1..Len(found) : Append(found, h)[j] = found[j]
      BY <2>2, <3>4
    <3>6. ASSUME ~stale[t]
          PROVE  FoundLikeOwn(t)'
      <4>1. /\ \A a \in AppFDs : own[a] # INVALID_SOCKET => HostOf[a] = own[a]
            /\ \A j \in 1..Len(found) :
                  own[Lookups(c)[j]] # INVALID_SOCKET => found[j] = own[Lookups(c)[j]]
        BY <2>2, <3>6 DEF FoundLikeOwn, own, found, c
      <4>2. \A j \in 1..i : j \in 1..Len(found) \/ j = i
        BY <3>5
      <4>3. own[Lookups(c)[i]] # INVALID_SOCKET => h = own[Lookups(c)[i]]
        BY <3>3, <4>1 DEF h
      <4>4. \A j \in 1..i : own[Lookups(c)[j]] # INVALID_SOCKET => Append(found, h)[j] = own[Lookups(c)[j]]
        BY <3>5, <4>1, <4>2, <4>3
      <4>5. at'[t].host = Append(found, h) /\ at'[t].own = own
        BY <3>1
      <4> QED
        BY <1>2, <3>2, <3>5, <4>1, <4>4, <4>5 DEF FoundLikeOwn
    <3>7. SpawnHeld(t)'
      BY <2>2, <3>1, <3>2, <3>5, <3>6 DEF SpawnHeld
    <3>8. PollHeld(t)' /\ ArgsHeld(t)'
      BY <3>2 DEF PollHeld, ArgsHeld
    <3>9. CallHeld(t)'
      BY <3>7, <3>8 DEF CallHeld
    <3> QED
      BY <1>1, <3>2, <3>9, StepKeepsHeld
  <2> QED
    BY <1>1, <2>1, <2>3, EndsKeepsHeld
<1> QED
  BY <1>4, <1>5

LEMMA HeldHolds ==
  /\ Init => Held
  /\ Inv /\ StdKept /\ Held /\ [Next]_vars => Held'
<1>1. Init => Held
  BY DEF Init, Held, CallHeld, PollHeld, SpawnHeld, ArgsHeld
<1>2. ASSUME Inv, Held, NEW t \in Threads, GetHostFDByAppFD(t) \/ SockOpen(t)
      PROVE  Held'
  <2>1. CallInv /\ fds' = fds
    BY <1>2 DEF Inv, GetHostFDByAppFD, SockOpen
  <2>2. Ends(t) \/ \E c, where, found : Enter(t, c, where, found) /\ where \in {"resolved", "created"}
    BY <1>2 DEF GetHostFDByAppFD, SockOpen, Ends
  <2>3. ASSUME NEW c, NEW where, NEW found, Enter(t, c, where, found), where \in {"resolved", "created"}
        PROVE  Held'
    <3>1. OthersStay(t) /\ pc'[t] \in {"resolved", "created"}
      BY <2>1, <2>3, EnterEffect
    <3>2. CallHeld(t)'
      BY <3>1 DEF CallHeld, PollHeld, SpawnHeld, ArgsHeld
    <3> QED
      BY <1>2, <2>1, <3>1, <3>2, StepKeepsHeld
  <2> QED
    BY <1>2, <2>1, <2>2, <2>3, EndsKeepsHeld
<1>3. ASSUME Inv, Held, NEW t \in Threads, InsertNewHostSocketFDToTable(t) \/ InsertFails(t)
      PROVE  Held'
  <2>1. Ends(t)
    BY <1>3 DEF InsertNewHostSocketFDToTable, InsertFails, Return, Ends
  <2>2. \/ fds' = fds
        \/ FreeAppFDs # {} /\ fds' = [fds EXCEPT ![Min(FreeAppFDs)] = at[t]]
    BY <1>3 DEF InsertNewHostSocketFDToTable, InsertFails
  <2>3. CallInv /\ (FreeAppFDs # {} => fds[Min(FreeAppFDs)] = None)
    BY <1>3, FreeNumbers DEF Inv, CallInv
  <2>4. \A a \in AppFDs : fds[a] # None => fds'[a] = fds[a]
    BY <2>2, <2>3 DEF CallInv, Shape
  <2> QED
    BY <1>3, <2>1, <2>3, <2>4, EndsKeepsHeld
<1>4. ASSUME Inv, Held, NEW t \in Threads, Handler(t)
      PROVE  Held'
  <2>1. CallInv /\ fds' = fds /\ (Ends(t) \/ Accepts(t))
    BY <1>4, HandlerEnds DEF Inv
  <2>2. CASE Accepts(t)
    <3>1. OthersStay(t) /\ pc'[t] = "created"
      BY <2>1, <2>2 DEF Accepts, OthersStay, CallInv, Shape
    <3>2. CallHeld(t)'
      BY <3>1 DEF CallHeld, PollHeld, SpawnHeld, ArgsHeld
    <3> QED
      BY <1>4, <2>1, <3>1, <3>2, StepKeepsHeld
  <2> QED
    BY <1>4, <2>1, <2>2, EndsKeepsHeld
<1>5. ASSUME Inv, Held, NEW t \in Threads, PollReturns(t) \/ SockGetIfAddrs(t) \/ SpawnChild(t) \/ DoSyscall(t)
      PROVE  Held'
  <2>1. CallInv /\ fds' = fds /\ Ends(t)
    BY <1>5 DEF Inv, PollReturns, SockGetIfAddrs, SpawnChild, DoSyscall, Return, HostError, Ends
  <2> QED
    BY <1>5, <2>1, EndsKeepsHeld
<1>6. ASSUME Inv, Held, UNCHANGED <<pc, call, at>>, \A u \in Threads : stale[u] => stale'[u],
             \A u \in Threads : (~stale'[u] /\ pc[u] # "idle") => \A a \in AppFDs : fds[a] # None => fds'[a] = fds[a]
      PROVE  Held'
  <2>1. CallInv /\ \A u \in Threads : CallHeld(u)
    BY <1>6 DEF Inv, Held
  <2>2. ASSUME NEW u \in Threads
        PROVE  CallHeld(u)'
    BY <1>6, <2>1, HeldStays
  <2> QED
    BY <2>2 DEF Held
<1>7. ASSUME Inv, Held, NEW t \in Threads, FDClose(t)
      PROVE  Held'
  <2>1. UNCHANGED <<pc, call, at>> /\ stale' = [u \in Threads |-> stale[u] \/ pc[u] # "idle"]
    BY <1>7 DEF FDClose, AllStale
  <2>2. \A u \in Threads : (stale[u] => stale'[u]) /\ (pc[u] # "idle" => stale'[u])
    BY <2>1
  <2> QED
    BY <1>6, <1>7, <2>1, <2>2
<1>8. ASSUME Inv, Held, OtherOpens \/ OtherCloses \/ PeerActs \/ OtherLocks \/ CollectFDs \/ Deinstantiate \/ UNCHANGED vars
      PROVE  Held'
  <2>1. UNCHANGED <<fds, pc, call, at, stale>>
    BY <1>8 DEF OtherOpens, OtherCloses, PeerActs, OtherLocks, CollectFDs, Deinstantiate, vars, thread
  <2> QED
    BY <1>6, <1>8, <2>1
<1>9. ASSUME Inv, Held, CloseNext
      PROVE  Held'
  <2>1. UNCHANGED <<pc, call, at>> /\ (UNCHANGED <<fds, stale>> \/ AllStale)
    BY <1>9 DEF CloseNext
  <2>2. AllStale => \A u \in Threads : (stale[u] => stale'[u]) /\ (pc[u] # "idle" => stale'[u])
    BY DEF AllStale
  <2> QED
    BY <1>6, <1>9, <2>1, <2>2
<1>10. ASSUME Inv, StdKept, Held, NEW t \in Threads, PollOneOff(t) \/ ProcessSpawn(t) \/ SpawnLookup(t)
       PROVE  Held'
  BY <1>10, PollKeepsHeld, SpawnKeepsHeld DEF Inv
<1>11. ASSUME Inv, Held, NEW t \in Threads, WasiExtSyscall(t)
       PROVE  Held'
  <2>1. CallInv /\ fds' = fds
    BY <1>11 DEF Inv, WasiExtSyscall
  <2>2. PICK c \in prog.calls[t] :
          \/ Ends(t)
          \/ InvokeError(c.id, c.argv, c.args) = "0" /\ Enter(t, c, "invoked", [argv |-> InvokedArgs(c.id)])
    BY <1>11 DEF WasiExtSyscall, Ends
  <2>3. ASSUME InvokeError(c.id, c.argv, c.args) = "0", Enter(t, c, "invoked", [argv |-> InvokedArgs(c.id)])
        PROVE  Held'
    <3>1. OthersStay(t) /\ pc'[t] = "invoked" /\ call'[t] = c /\ at'[t] = [argv |-> InvokedArgs(c.id)]
      BY <2>1, <2>3, EnterEffect
    <3>2. c.id \in DOMAIN gExtSyscallMap
      BY <2>3 DEF InvokeError
    <3>3. ArgsHeld(t)'
      BY <3>1, <3>2 DEF ArgsHeld
    <3>4. PollHeld(t)' /\ SpawnHeld(t)'
      BY <3>1 DEF PollHeld, SpawnHeld
    <3>5. CallHeld(t)'
      BY <3>3, <3>4 DEF CallHeld
    <3> QED
      BY <1>11, <2>1, <3>1, <3>5, StepKeepsHeld
  <2> QED
    BY <1>11, <2>1, <2>2, <2>3, EndsKeepsHeld
<1>12. ASSUME Inv, Held, NEW t \in Threads, GuestWritesArgs(t)
       PROVE  Held'
  <2>1. PICK i : /\ pc[t] = "invoked" /\ at' = [at EXCEPT ![t].argv[i] = "word"]
                 /\ stale' = [stale EXCEPT ![t] = TRUE] /\ UNCHANGED <<fds, pc, call, got>>
    BY <1>12 DEF GuestWritesArgs
  <2>2. CallInv
    BY <1>12 DEF Inv
  <2>3. OthersStay(t) /\ pc'[t] = "invoked" /\ call'[t] = call[t] /\ stale'[t] = TRUE
    BY <2>1, <2>2 DEF OthersStay, CallInv, Shape
  <2>4. CallHeld(t)'
    <3>1. call[t].id \in DOMAIN gExtSyscallMap
      BY <1>12, <2>1 DEF Held, CallHeld, ArgsHeld
    <3> QED
      BY <2>3, <3>1 DEF CallHeld, PollHeld, SpawnHeld, ArgsHeld
  <2> QED
    BY <1>12, <2>1, <2>2, <2>3, <2>4, StepKeepsHeld
<1> QED
  BY <1>1, <1>2, <1>3, <1>4, <1>5, <1>7, <1>8, <1>9, <1>10, <1>11, <1>12 DEF Next

-----------------------------------------------------------------------------
(* What calls give: the lists.                                               *)

ListKept(g) ==
    g.err = "0" =>
        /\ g.call.op = "poll_oneoff" =>
              AnswersFit(g.call.subs, g.val) /\ BadOnesTold(g.call.subs, g.val) /\ ClocksInTime(g.call.subs, g.val)
        /\ g.call.op = "ProcessSpawn" /\ ~g.stale => RedirectsFit(g.call.actions, g.val)
        /\ g.call.op = "syscall" /\ ~g.stale => g.val.args = Params[g.val.func]
        /\ g.call.op = "SockGetIfAddrs" => IfAddrsFit(g.val.list, g.val)

ListsKept == \A t \in Threads : got[t] # None => ListKept(got[t])

\* Thread t's call ends, with lists that fit.
EndsListed(t) ==
    \E c, err, hosterr, val :
        /\ Gives(t, c, err, hosterr, val)
        /\ ListKept([call |-> c, err |-> err, host |-> hosterr, val |-> val, stale |-> stale[t]])

ListStep(t) ==
    \/ UNCHANGED got
    \/ EndsListed(t)
    \/ \E c, where, found : Enter(t, c, where, found)

LEMMA ListStepKeeps ==
  ASSUME CallInv, ListsKept, NEW t \in Threads, ListStep(t)
  PROVE  ListsKept'
<1>1. CASE EndsListed(t)
  <2>1. PICK c, err, hosterr, val :
          /\ Gives(t, c, err, hosterr, val)
          /\ ListKept([call |-> c, err |-> err, host |-> hosterr, val |-> val, stale |-> stale[t]])
    BY <1>1 DEF EndsListed
  <2> DEFINE g == [call |-> c, err |-> err, host |-> hosterr, val |-> val, stale |-> stale[t]]
  <2>2. OthersStay(t) /\ got'[t] = g
    <3>1. ThreadShape
      BY DEF CallInv, Shape, ThreadShape
    <3> QED
      BY <2>1, <3>1, GivesEffect
  <2>3. ListKept(g)
    BY <2>1
  <2> HIDE DEF g
  <2>4. \A u \in Threads : got'[u] # None => ListKept(got'[u])
    BY <2>2, <2>3 DEF ListsKept, OthersStay
  <2> QED
    BY <2>4 DEF ListsKept
<1>2. CASE \E c, where, found : Enter(t, c, where, found)
  <2>1. \A u \in Threads : got'[u] = None \/ got'[u] = got[u]
    BY <1>2 DEF Enter, CallInv, Shape
  <2>2. \A u \in Threads : got'[u] # None => ListKept(got'[u])
    BY <2>1 DEF ListsKept
  <2> QED
    BY <2>2 DEF ListsKept
<1> QED
  BY <1>1, <1>2 DEF ListStep, ListsKept

\* A call that fails gives no list, and neither do the other calls.
LEMMA NoList ==
  ASSUME NEW t \in Threads, NEW c, NEW err, NEW hosterr, NEW val, Gives(t, c, err, hosterr, val),
         err # "0" \/ c.op \notin {"poll_oneoff", "ProcessSpawn", "syscall", "SockGetIfAddrs"}
  PROVE  ListStep(t)
<1>1. ListKept([call |-> c, err |-> err, host |-> hosterr, val |-> val, stale |-> stale[t]])
  BY DEF ListKept
<1> QED
  BY <1>1 DEF ListStep, EndsListed

\* A failure of the host is one for the guest.
LEMMA HostErrorNoList ==
  ASSUME CallInv, NEW t \in Threads, NEW c, NEW e, e # "0", Gives(t, c, ConvertErrnoToWasiErrno(e), e, None)
  PROVE  ListStep(t)
<1>1. ConvertErrnoToWasiErrno(e) # "0"
  BY ErrnoSurvives
<1> QED
  BY <1>1, NoList

LEMMA HandlerGives ==
  ASSUME NEW t \in Threads, Handler(t)
  PROVE  UNCHANGED got \/ \E err, hosterr, val : Gives(t, call[t], err, hosterr, val)
<1> USE DEF OnSocket, Calls, Return, HostError
<1>1. CASE SockBind(t)
  BY <1>1 DEF SockBind
<1>2. CASE SockConnect(t)
  BY <1>2 DEF SockConnect
<1>3. CASE SockListen(t)
  BY <1>3 DEF SockListen
<1>4. CASE SockAccept(t)
  BY <1>4 DEF SockAccept
<1>5. CASE SockGetSockName(t)
  BY <1>5 DEF SockGetSockName
<1>6. CASE SockGetPeerName(t)
  BY <1>6 DEF SockGetPeerName
<1>7. CASE SockShutdown(t)
  BY <1>7 DEF SockShutdown
<1>8. CASE SockGetOpt(t)
  BY <1>8 DEF SockGetOpt
<1>9. CASE SockSetOpt(t)
  BY <1>9 DEF SockSetOpt
<1>10. CASE SockRecvMsg(t)
  BY <1>10 DEF SockRecvMsg
<1>11. CASE SockSendMsg(t)
  BY <1>11 DEF SockSendMsg
<1>12. CASE FDFcntl(t)
  BY <1>12 DEF FDFcntl
<1>13. CASE FDStatVFS(t)
  BY <1>13 DEF FDStatVFS
<1>14. CASE HostFails(t)
  BY <1>14 DEF HostFails
<1> QED
  BY <1>1, <1>2, <1>3, <1>4, <1>5, <1>6, <1>7, <1>8, <1>9, <1>10, <1>11, <1>12, <1>13, <1>14 DEF Handler

LEMMA DescriptorLists ==
  ASSUME CallInv, NEW t \in Threads,
         GetHostFDByAppFD(t) \/ SockOpen(t) \/ InsertNewHostSocketFDToTable(t) \/ InsertFails(t) \/ Handler(t)
  PROVE  ListStep(t)
<1>1. CASE GetHostFDByAppFD(t) \/ SockOpen(t)
  <2>1. PICK c : /\ c.op \in OnDescriptor \cup {"SockOpen"}
                 /\ \/ \E err, hosterr, val : Gives(t, c, err, hosterr, val)
                    \/ \E where, found : Enter(t, c, where, found)
    BY <1>1 DEF GetHostFDByAppFD, SockOpen, Begins
  <2>2. c.op \notin {"poll_oneoff", "ProcessSpawn", "syscall", "SockGetIfAddrs"}
    BY <2>1 DEF OnDescriptor
  <2> QED
    BY <2>1, <2>2, NoList DEF ListStep
<1>2. CASE InsertNewHostSocketFDToTable(t) \/ InsertFails(t) \/ Handler(t)
  <2>1. UNCHANGED got \/ \E err, hosterr, val : Gives(t, call[t], err, hosterr, val)
    BY <1>2, HandlerGives DEF InsertNewHostSocketFDToTable, InsertFails, Return
  <2>2. call[t].op \in OnDescriptor \cup {"SockOpen"}
    <3>1. pc[t] \in {"created", "resolved"}
      BY <1>2, HandlerEnds DEF InsertNewHostSocketFDToTable, InsertFails
    <3> QED
      BY <3>1 DEF CallInv, CallOf, OnDescriptor
  <2>3. call[t].op \notin {"poll_oneoff", "ProcessSpawn", "syscall", "SockGetIfAddrs"}
    BY <2>2 DEF OnDescriptor
  <2> QED
    BY <2>1, <2>3, NoList DEF ListStep
<1> QED
  BY <1>1, <1>2

\* A successful poll_oneoff with answers that fit.
LEMMA PollListed ==
  ASSUME NEW t \in Threads, NEW c, c.op = "poll_oneoff", NEW val, Gives(t, c, "0", "0", val),
         AnswersFit(c.subs, val) /\ BadOnesTold(c.subs, val) /\ ClocksInTime(c.subs, val)
  PROVE  ListStep(t)
<1> DEFINE g == [call |-> c, err |-> "0", host |-> "0", val |-> val, stale |-> stale[t]]
<1>1. g.call = c /\ g.err = "0" /\ g.val = val
  OBVIOUS
<1>2. ListKept(g)
  <2> HIDE DEF g
  <2> QED
    BY <1>1 DEF ListKept
<1> QED
  BY <1>2 DEF ListStep, EndsListed

LEMMA PollOneOffLists ==
  ASSUME CallInv, NEW t \in Threads, PollOneOff(t)
  PROVE  ListStep(t)
<1>1. PICK c \in prog.calls[t], now \in prog.times :
        /\ Begins(t, "poll_oneoff", c)
        /\ LET best == Timeout(c.subs, now) IN
           \/ Gives(t, c, "EFAULT", "0", None)
           \/ c.subs = <<>> /\ Gives(t, c, "0", "0", [events |-> <<>>, slept |-> 0, now |-> now])
           \/ \E found : Enter(t, c, "polling", found)
           \/ Gives(t, c, "EINVAL", "0", None)
           \/ /\ best.sub # 0
              /\ Gives(t, c, "0", "0", [events |-> ClockEvent(c.subs, best.sub), slept |-> SleepTime(best.timeout), now |-> now])
  BY DEF PollOneOff
<1> DEFINE best == Timeout(c.subs, now)
           none == [events |-> <<>>, slept |-> 0, now |-> now]
           clock == [events |-> ClockEvent(c.subs, best.sub), slept |-> SleepTime(best.timeout), now |-> now]
<1>2. c.op = "poll_oneoff" /\ c.subs \in Seq(Subscriptions(AppFDs)) /\ now \in 0..Forever
  BY <1>1, BeginsEffect, TimesKnown DEF ValidCall
<1>3. CASE c.subs = <<>> /\ Gives(t, c, "0", "0", none)
  <2>1. none.events = <<>> /\ DOMAIN none.events = {} /\ "revents" \notin DOMAIN none
    OBVIOUS
  <2> HIDE DEF none
  <2>2. AnswersFit(c.subs, none) /\ BadOnesTold(c.subs, none) /\ ClocksInTime(c.subs, none)
    BY <1>3, <2>1 DEF AnswersFit, BadOnesTold, ClocksInTime
  <2> QED
    BY <1>2, <1>3, <2>2, PollListed
<1>4. CASE best.sub # 0 /\ Gives(t, c, "0", "0", clock)
  <2>1. clock.events = ClockEvent(c.subs, best.sub) /\ clock.now = now /\ clock.slept = SleepTime(best.timeout)
        /\ "revents" \notin DOMAIN clock
    OBVIOUS
  <2> HIDE DEF clock
  <2>2. AnswersFit(c.subs, clock) /\ BadOnesTold(c.subs, clock) /\ ClocksInTime(c.subs, clock)
    BY <1>2, <1>4, <2>1, ClockAnswers
  <2> QED
    BY <1>2, <1>4, <2>2, PollListed
<1> QED
  BY <1>1, <1>3, <1>4, NoList DEF ListStep

LEMMA PollReturnsLists ==
  ASSUME CallInv, Held, NEW t \in Threads, PollReturns(t)
  PROVE  ListStep(t)
<1> DEFINE c == call[t]
           subs == c.subs
           arr == at[t].arr
           best == at[t].best
           now == at[t].now
           slept == PollTimeout(best.timeout) * NsPerMs
           val(events, revents, time) == [events |-> events, arr |-> arr, revents |-> revents, slept |-> time, now |-> now]
<1>1. /\ pc[t] = "polling" /\ c.op = "poll_oneoff" /\ subs \in Seq(Subscriptions(AppFDs))
      /\ now \in 0..Forever /\ best = Timeout(subs, now)
      /\ \A i \in DOMAIN subs : IsClock(subs[i]) => arr[i] = INVALID_SOCKET
  <2>1. pc[t] = "polling"
    BY DEF PollReturns
  <2>2. c.op = "poll_oneoff" /\ ValidCall(c)
    BY <2>1, InCall DEF CallInv, CallOf
  <2> QED
    BY <2>1, <2>2 DEF ValidCall, Held, CallHeld, PollHeld
<1>2. \/ \E e \in prog.errors : Gives(t, c, ConvertErrnoToWasiErrno(e), e, None)
      \/ \E revents :
            /\ \A i \in DOMAIN subs : revents[i] \in Revents(t, i)
            /\ \/ (\A i \in DOMAIN subs : revents[i] = {}) /\ Gives(t, c, "0", "0", val(ClockEvent(subs, best.sub), revents, slept))
               \/ (\E i \in DOMAIN subs : revents[i] # {}) /\ Gives(t, c, "0", "0", val(ReadyEvents(subs, arr, revents), revents, 0))
  BY DEF PollReturns, Return, HostError
<1>3. \A e \in prog.errors : e # "0"
  BY ProgramStarts DEF CallInv, Shape
<1>4. Len(subs) \in Nat /\ DOMAIN subs = 1..Len(subs)
  BY <1>1, SequenceHas, Zenon
<1>5. ASSUME NEW revents, \A i \in DOMAIN subs : revents[i] \in Revents(t, i)
      PROVE  Said(subs, arr, revents)
  <2>1. prog.conditions \subseteq {"POLLHUP", "POLLERR"}
    BY TimesKnown
  <2>2. \A i \in DOMAIN subs :
          /\ arr[i] = INVALID_SOCKET => revents[i] = {}
          /\ \/ revents[i] = {"POLLNVAL"}
             \/ revents[i] \subseteq {"POLLRDNORM", "POLLWRNORM", "POLLHUP", "POLLERR"}
    BY <1>5, <2>1 DEF Revents
  <2> HIDE DEF subs, arr
  <2> QED
    BY <1>1, <2>2 DEF Said
<1> HIDE DEF c, arr, best, now
<1>6. ASSUME NEW revents, \A i \in DOMAIN subs : revents[i] \in Revents(t, i),
             \A i \in DOMAIN subs : revents[i] = {}, Gives(t, c, "0", "0", val(ClockEvent(subs, best.sub), revents, slept))
      PROVE  ListStep(t)
  <2> DEFINE v == val(ClockEvent(subs, best.sub), revents, slept)
  <2>1. v.events = ClockEvent(subs, best.sub) /\ v.now = now /\ v.slept = slept /\ v.revents = revents /\ "revents" \in DOMAIN v
    OBVIOUS
  <2>2. Gives(t, c, "0", "0", v)
    BY <1>6
  <2> HIDE DEF v
  <2>3. AnswersFit(subs, v) /\ BadOnesTold(subs, v) /\ ClocksInTime(subs, v)
    BY <1>1, <1>6, <2>1, ClockAnswers
  <2> QED
    BY <1>1, <2>2, <2>3, PollListed
<1>7. ASSUME NEW revents, \A i \in DOMAIN subs : revents[i] \in Revents(t, i),
             \E i \in DOMAIN subs : revents[i] # {}, Gives(t, c, "0", "0", val(ReadyEvents(subs, arr, revents), revents, 0))
      PROVE  ListStep(t)
  <2> DEFINE v == val(ReadyEvents(subs, arr, revents), revents, 0)
  <2>1. v = [events |-> ReadyEvents(subs, arr, revents), arr |-> arr, revents |-> revents, slept |-> 0, now |-> now]
    OBVIOUS
  <2>2. Gives(t, c, "0", "0", v)
    BY <1>7
  <2>3. Said(subs, arr, revents)
    BY <1>5, <1>7
  <2> HIDE DEF v
  <2>4. AnswersFit(subs, v) /\ BadOnesTold(subs, v) /\ ClocksInTime(subs, v)
    BY <1>4, <1>7, <2>1, <2>3, ReadyAnswers
  <2> QED
    BY <1>1, <2>2, <2>4, PollListed
<1> QED
  BY <1>2, <1>3, <1>6, <1>7, HostErrorNoList

LEMMA InterfaceLists ==
  ASSUME CallInv, NEW t \in Threads, SockGetIfAddrs(t)
  PROVE  ListStep(t)
<1>1. PICK c \in prog.calls[t], list \in prog.interfaces :
        /\ c.op = "SockGetIfAddrs"
        /\ \/ Gives(t, c, "EFAULT", "0", None) \/ Gives(t, c, "ENOMEM", "0", None)
           \/ \E e \in prog.errors : Gives(t, c, ConvertErrnoToWasiErrno(e), e, None)
           \/ Gives(t, c, "0", "0", [cnt |-> IfAddrCount(list), ifaddrs |-> AppIfAddrs(list), list |-> list])
  BY DEF SockGetIfAddrs, Begins
<1>2. \A e \in prog.errors : e # "0"
  BY ProgramStarts DEF CallInv, Shape
<1>3. ASSUME NEW val, val = [cnt |-> IfAddrCount(list), ifaddrs |-> AppIfAddrs(list), list |-> list], Gives(t, c, "0", "0", val)
      PROVE  ListStep(t)
  <2> DEFINE g == [call |-> c, err |-> "0", host |-> "0", val |-> val, stale |-> stale[t]]
  <2>1. ValidInterfaces(list)
    BY <1>1, TimesKnown
  <2>2. IfAddrsFit(list, val)
    <3>1. IfList(list)
      BY <2>1 DEF ValidInterfaces, IfList
    <3>2. \A i, j \in DOMAIN list :
            list[i].family = "AF_PACKET" /\ list[j].family = "AF_PACKET" /\ list[i].name = list[j].name => i = j
      BY <2>1 DEF ValidInterfaces
    <3>3. val.ifaddrs = AppIfAddrs(list) /\ val.cnt = IfAddrCount(list)
      BY <1>3
    <3> QED
      BY <3>1, <3>2, <3>3, InterfacesFit
  <2>3. g.call = c /\ g.val = val /\ val.list = list
    BY <1>3
  <2>4. ListKept(g)
    <3> HIDE DEF g
    <3> QED
      BY <1>1, <2>2, <2>3 DEF ListKept
  <2> QED
    BY <1>3, <2>4 DEF ListStep, EndsListed
<1> QED
  BY <1>1, <1>2, <1>3, NoList, HostErrorNoList

LEMMA SyscallLists ==
  ASSUME CallInv, NEW t \in Threads, WasiExtSyscall(t)
  PROVE  ListStep(t)
<1>1. PICK c \in prog.calls[t] :
        \/ /\ InvokeError(c.id, c.argv, c.args) # "0"
           /\ Gives(t, c, InvokeError(c.id, c.argv, c.args), "0", None)
        \/ \E where, found : Enter(t, c, where, found)
  BY DEF WasiExtSyscall
<1> QED
  BY <1>1, NoList DEF ListStep

LEMMA DoSyscallLists ==
  ASSUME CallInv, Held, NEW t \in Threads, DoSyscall(t)
  PROVE  ListStep(t)
<1> DEFINE c == call[t]
           val == HandlerCall(c.id, at[t].argv)
           g == [call |-> c, err |-> "0", host |-> "0", val |-> val, stale |-> stale[t]]
<1>1. pc[t] = "invoked" /\ Gives(t, c, "0", "0", val)
  BY DEF DoSyscall, Return
<1>2. c.op = "syscall"
  BY <1>1 DEF CallInv, CallOf
<1>3. c.id \in DOMAIN gExtSyscallMap /\ (~stale[t] => at[t].argv = InvokedArgs(c.id))
  BY <1>1 DEF Held, CallHeld, ArgsHeld
<1>4. ~stale[t] => val.args = Params[val.func]
  <2> HIDE DEF c
  <2> QED
    BY <1>3, HandlerCallFits
<1> HIDE DEF val
<1>5. ListKept(g)
  BY <1>2, <1>4 DEF ListKept
<1> QED
  BY <1>1, <1>5 DEF ListStep, EndsListed

LEMMA SpawnLists ==
  ASSUME CallInv, Held, NEW t \in Threads, SpawnChild(t)
  PROVE  ListStep(t)
<1> DEFINE c == call[t]
           acts == c.actions
           found == at[t].host
           own == at[t].own
           arr == dup2FDArr([fd \in StdFDs |-> found[fd + 1]],
                            [i \in DOMAIN acts |-> [dest |-> acts[i].dest, host |-> found[i + 3]]])
           std == [h \in HostFDs |-> h]
           val == [std |-> ChildStd(std, arr), own |-> own]
<1>1. pc[t] = "spawning" /\ Len(found) = Len(Lookups(c))
  BY DEF SpawnChild
<1>2. \/ Gives(t, c, ConvertErrnoToWasiErrno("EBADF"), "EBADF", None)
      \/ Gives(t, c, "0", "0", val)
  BY DEF SpawnChild, Return, HostError
<1>3. c.op = "ProcessSpawn" /\ acts \in Seq([dest : Int, src : AppFDs])
  <2>1. c.op = "ProcessSpawn" /\ ValidCall(c)
    BY <1>1, InCall DEF CallInv, CallOf
  <2> QED
    BY <2>1 DEF ValidCall
<1>4. /\ DOMAIN own = AppFDs /\ found \in Seq((HostFDs \ StdFDs) \cup {INVALID_SOCKET})
      /\ ~stale[t] => FoundLikeOwn(t)
  BY <1>1 DEF Held, CallHeld, SpawnHeld
<1>5. Arranges(arr, acts, found)
  BY DEF Arranges
<1>6. DOMAIN std = HostFDs /\ \A h \in HostFDs : std[h] = h
  OBVIOUS
<1>7. val.own = own /\ val.std = ChildStd(std, arr)
  OBVIOUS
<1>8. /\ Len(acts) \in Nat /\ DOMAIN acts = 1..Len(acts) /\ Len(found) = Len(acts) + 3
      /\ \A fd \in StdFDs : Lookups(c)[fd + 1] = fd
      /\ \A i \in DOMAIN acts : Lookups(c)[i + 3] = acts[i].src
  BY <1>1, <1>3, LooksUp
<1>9. \A i \in 1..Len(found) : found[i] \in (HostFDs \ StdFDs) \cup {INVALID_SOCKET}
  BY <1>4, SequenceHas, Zenon
<1>10. ~stale[t] => \A i \in 1..Len(found) : own[Lookups(c)[i]] # INVALID_SOCKET => found[i] = own[Lookups(c)[i]]
  BY <1>4 DEF FoundLikeOwn
<1> HIDE DEF c, found, own, arr, std, val
<1>11. ASSUME ~stale[t]
       PROVE  FoundAsOwned(own, acts, found)
  <2>1. \A fd \in StdFDs : fd + 1 \in 1..Len(found)
    BY <1>8 DEF StdFDs
  <2>2. \A i \in DOMAIN acts : i + 3 \in 1..Len(found)
    BY <1>8
  <2>3. \A fd \in StdFDs : own[fd] # INVALID_SOCKET => found[fd + 1] = own[fd]
    BY <1>8, <1>10, <1>11, <2>1
  <2>4. \A i \in DOMAIN acts : own[acts[i].src] # INVALID_SOCKET => found[i + 3] = own[acts[i].src]
    BY <1>8, <1>10, <1>11, <2>2
  <2> QED
    BY <1>8, <1>9, <2>3, <2>4 DEF FoundAsOwned
<1>12. ~stale[t] => RedirectsFit(acts, val)
  <2> HIDE DEF acts
  <2> QED
    BY <1>3, <1>4, <1>5, <1>6, <1>7, <1>11, RedirectionsFit
<1>13. ASSUME Gives(t, c, "0", "0", val)
       PROVE  ListStep(t)
  <2> DEFINE g == [call |-> c, err |-> "0", host |-> "0", val |-> val, stale |-> stale[t]]
  <2>1. g.call = c /\ g.val = val /\ g.stale = stale[t]
    OBVIOUS
  <2>2. ListKept(g)
    <3> HIDE DEF g
    <3> QED
      BY <1>3, <1>12, <2>1 DEF ListKept
  <2> QED
    BY <1>13, <2>2 DEF ListStep, EndsListed
<1> QED
  BY <1>2, <1>13, HostErrorNoList

LEMMA ListsKeptHold ==
  /\ Init => ListsKept
  /\ Inv /\ Held /\ ListsKept /\ [Next]_vars => ListsKept'
<1>1. Init => ListsKept
  BY DEF Init, ListsKept
<1>2. ASSUME Inv, Held, ListsKept, Next
      PROVE  ListsKept'
  <2>1. UNCHANGED got \/ \E t \in Threads : ListStep(t)
    <3>1. ASSUME NEW t \in Threads, FDClose(t)
          PROVE  UNCHANGED got
      BY <3>1 DEF FDClose
    <3>2. ASSUME NEW t \in Threads, ProcessSpawn(t) \/ SpawnLookup(t)
          PROVE  ListStep(t)
      <4>1. CASE ProcessSpawn(t)
        BY <4>1 DEF ProcessSpawn, ListStep
      <4>2. CASE SpawnLookup(t)
        <5>1. UNCHANGED got \/ Gives(t, call[t], "EBADF", "0", None)
          BY <4>2 DEF SpawnLookup, Return
        <5> QED
          BY <5>1, NoList DEF ListStep
      <4> QED
        BY <3>2, <4>1, <4>2
    <3>3. ASSUME NEW t \in Threads, GuestWritesArgs(t)
          PROVE  UNCHANGED got
      BY <3>3 DEF GuestWritesArgs
    <3>4. OtherOpens \/ OtherCloses \/ PeerActs \/ OtherLocks \/ CollectFDs \/ CloseNext \/ Deinstantiate => UNCHANGED got
      BY DEF OtherOpens, OtherCloses, PeerActs, OtherLocks, CollectFDs, CloseNext, Deinstantiate, thread
    <3> QED
      BY <1>2, <3>1, <3>2, <3>3, <3>4, DescriptorLists, PollOneOffLists, PollReturnsLists, InterfaceLists, SyscallLists,
         DoSyscallLists, SpawnLists DEF Next, Inv
  <2>2. CASE UNCHANGED got
    BY <1>2, <2>2 DEF ListsKept
  <2> QED
    BY <1>2, <2>1, <2>2, ListStepKeeps DEF Inv
<1>3. ListsKept /\ UNCHANGED vars => ListsKept'
  BY DEF vars, ListsKept
<1> QED
  BY <1>1, <1>2, <1>3

\* The lists that pass between the guest and the host keep their order and
\* what belongs together: WasiPollOneOff answers in the order of the
\* subscriptions those of the descriptors that are ready, hung up or bad and no
\* other, or the clock whose time has come, ProcessSpawn's redirections do what
\* POSIX's would unless the guest closes a descriptor meanwhile, a syscall
\* handler gets what it declares unless the guest writes to the arguments
\* meanwhile, and SockGetIfAddrs gives every interface.
THEOREM ListsAreTranslated == Spec => []ListsTranslated
<1>1. ASSUME ListsKept
      PROVE  ListsTranslated
  <2>1. ASSUME NEW t \in Threads, Polled(t)
        PROVE  /\ AnswersFit(got[t].call.subs, got[t].val) /\ BadOnesTold(got[t].call.subs, got[t].val)
               /\ ClocksInTime(got[t].call.subs, got[t].val)
    BY <1>1, <2>1 DEF ListsKept, ListKept, Polled
  <2>2. EventsAnswer
    BY <2>1 DEF EventsAnswer, AnswersFit
  <2>3. BadDescriptorTold
    BY <2>1 DEF BadDescriptorTold, BadOnesTold
  <2>4. ClockEventTimely
    BY <2>1 DEF ClockEventTimely, ClocksInTime
  <2>5. RedirectsLikePosix
    BY <1>1 DEF RedirectsLikePosix, ListsKept, ListKept, RedirectsFit
  <2>6. HandlersGetWhatTheyDeclare
    BY <1>1 DEF HandlersGetWhatTheyDeclare, ListsKept, ListKept
  <2>7. IfAddrsComplete
    BY <1>1 DEF IfAddrsComplete, ListsKept, ListKept, IfAddrsFit
  <2> QED
    BY <2>2, <2>3, <2>4, <2>5, <2>6, <2>7 DEF ListsTranslated, PollAnswers
<1> QED
  BY <1>1, InvHolds, StdKeptHolds, HeldHolds, ListsKeptHold, PTL DEF Spec
=============================================================================
