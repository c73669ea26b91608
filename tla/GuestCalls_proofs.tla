----------------------------- MODULE GuestCalls_proofs -----------------------------
(***************************************************************************)
(* Proofs about GuestCalls: what the table of app descriptors, the calls   *)
(* that have looked a descriptor up and the sockets of the host keep, for  *)
(* any threads, slots, descriptors and programs of the guest.              *)
(***************************************************************************)
EXTENDS GuestCalls, FiniteSetTheorems, SequenceTheorems, WellFoundedInduction, TLAPS

-----------------------------------------------------------------------------
(* Operators.                                                                *)

\* A nonempty set of naturals has a least element.
LEMMA MinIsIn ==
  ASSUME NEW S \in SUBSET Nat, S # {}
  PROVE  Min(S) \in S /\ \A y \in S : Min(S) <= y
<1>1. \E x \in S : \A y \in S : ~ (<<y, x>> \in OpToRel(<, Nat))
  BY NatLessThanWellFounded, WFMin
<1>2. \A x, y \in S : ~ (<<y, x>> \in OpToRel(<, Nat)) => x <= y
  BY DEF OpToRel
<1>3. \E x \in S : \A y \in S : x <= y
  BY <1>1, <1>2, Zenon
<1> QED
  BY <1>3 DEF Min

LEMMA ConcatIsAssociative == \A r, s, u \in Seq(Nat) : (r \o s) \o u = r \o (s \o u)
<1> SUFFICES ASSUME NEW r \in Seq(Nat), NEW s \in Seq(Nat), NEW u \in Seq(Nat)
             PROVE  (r \o s) \o u = r \o (s \o u)
  OBVIOUS
<1> QED
  BY ConcatAssociative, SMTT(30)

LEMMA AppendConcatenates == \A r \in Seq(Nat), n \in Nat : Append(r, n) = r \o <<n>> /\ <<n>> \in Seq(Nat)
  BY AppendIsConcat

\* What is moved from the head of one sequence to the end of another stays in
\* its place in both together.
LEMMA MoveKeepsOrder ==
  ASSUME NEW rx \in Seq(Nat), NEW read \in Seq(Nat), NEW n \in 0..Len(rx)
  PROVE  /\ (read \o SubSeq(rx, 1, n)) \o SubSeq(rx, n + 1, Len(rx)) = read \o rx
         /\ read \o SubSeq(rx, 1, n) \in Seq(Nat) /\ SubSeq(rx, n + 1, Len(rx)) \in Seq(Nat)
<1> DEFINE head == SubSeq(rx, 1, n)
           tail == SubSeq(rx, n + 1, Len(rx))
<1>1. head \o tail = rx
  <2>1. Len(rx) \in Nat
    BY LenProperties
  <2>2. 1 \in 1 .. Len(rx) + 1 /\ n \in 1 - 1 .. Len(rx) /\ Len(rx) \in n .. Len(rx)
    BY <2>1
  <2>3. head \o tail = SubSeq(rx, 1, Len(rx))
    BY <2>2, ConcatAdjacentSubSeq, Zenon
  <2> QED
    BY <2>3, SubSeqFull
<1>2. head \in Seq(Nat) /\ tail \in Seq(Nat)
  OBVIOUS
<1>3. (read \o head) \o tail = read \o (head \o tail)
  BY <1>2, ConcatIsAssociative, Zenon
<1>4. read \o head \in Seq(Nat)
  BY <1>2, ConcatProperties
<1> QED
  BY <1>1, <1>2, <1>3, <1>4

\* The next byte goes to the end of what has come.
LEMMA ArrivalKeepsOrder ==
  ASSUME NEW rx \in Seq(Nat), NEW read \in Seq(Nat), NEW n \in Nat, read \o rx = [i \in 1..n |-> i]
  PROVE  /\ read \o Append(rx, n + 1) = [i \in 1..(n + 1) |-> i]
         /\ Append(rx, n + 1) \in Seq(Nat)
<1>1. n + 1 \in Nat
  OBVIOUS
<1>2. Append(rx, n + 1) = rx \o <<n + 1>> /\ <<n + 1>> \in Seq(Nat)
  BY <1>1, AppendConcatenates, Zenon
<1>3. (read \o rx) \o <<n + 1>> = read \o (rx \o <<n + 1>>)
  BY <1>2, ConcatIsAssociative, Zenon
<1>4. [i \in 1..n |-> i] \o <<n + 1>> = [i \in 1..(n + 1) |-> i]
  OBVIOUS
<1>5. read \o Append(rx, n + 1) = [i \in 1..(n + 1) |-> i]
  BY <1>2, <1>3, <1>4
<1>6. Append(rx, n + 1) \in Seq(Nat)
  BY <1>1, AppendProperties, Zenon
<1> QED
  BY <1>5, <1>6

\* An address of the guest's survives the way to the host and back, and the
\* library's translation is that of the guest's C library.
LEMMA AddressRoundTrip ==
  ASSUME NEW a, IsGuestAddr(a)
  PROVE  /\ KernelAddr(a) = WasiAppSockAddrToHostSockAddr(a)
         /\ HostSockAddrToWasiAppSockAddr(WasiAppSockAddrToHostSockAddr(a)) = a
<1>1. KernelAddr(a) = WasiAppSockAddrToHostSockAddr(a)
  BY DEF KernelAddr, WasiAppSockAddrToHostSockAddr, IsGuestAddr, HostFamily
<1>2. HostSockAddrToWasiAppSockAddr(WasiAppSockAddrToHostSockAddr(a)) = a
  BY DEF HostSockAddrToWasiAppSockAddr, WasiAppSockAddrToHostSockAddr, IsGuestAddr, HostFamily
<1> QED
  BY <1>1, <1>2

\* Only "no error" becomes "no error", and the errors that the guest acts on
\* keep their names.
LEMMA ErrnoSurvives ==
  /\ \A e : (ConvertErrnoToWasiErrno(e) = "0") <=> (e = "0")
  /\ \A e \in {"EAGAIN", "EINPROGRESS", "EINTR", "EBADF"} : ConvertErrnoToWasiErrno(e) = e
<1>1. \A e : (ConvertErrnoToWasiErrno(e) = "0") <=> (e = "0")
  BY DEF ConvertErrnoToWasiErrno, SameName
<1>2. \A e \in {"EAGAIN", "EINPROGRESS", "EINTR", "EBADF"} : ConvertErrnoToWasiErrno(e) = e
  BY DEF ConvertErrnoToWasiErrno, SameName
<1> QED
  BY <1>1, <1>2

\* No two options of the guest are the same option of the host.
LEMMA OptionsAreDistinct ==
  ASSUME NEW o, NEW p, HostOptName(o) # "none", HostOptName(o) = HostOptName(p)
  PROVE  o = p
BY DEF HostOptName

-----------------------------------------------------------------------------
(* Calls: what a thread that is in one has.                                  *)

Shape ==
    /\ prog \in {Programs[name] : name \in DOMAIN Programs}
    /\ fds \in [AppFDs -> Entries \cup {None}]
    /\ DOMAIN file = HostFDs
    /\ pc \in [Threads -> {"idle", "resolved", "created", "polling", "spawning", "invoked"}]
    /\ DOMAIN call = Threads /\ DOMAIN at = Threads /\ DOMAIN got = Threads
    /\ stale \in [Threads -> BOOLEAN]

CallOf(t) ==
    /\ (pc[t] = "idle") = (call[t] = None)
    /\ pc[t] # "idle" => call[t] \in prog.calls[t]
    /\ pc[t] = "resolved" => call[t].op \in OnDescriptor /\ ArgError(call[t]) = "0" /\ at[t] \in Entries
    /\ pc[t] = "created" => call[t].op \in {"SockOpen", "SockAccept"} /\ at[t] \in Entries
    /\ pc[t] = "polling" => call[t].op = "poll_oneoff"
    /\ pc[t] = "spawning" => call[t].op = "ProcessSpawn"
    /\ pc[t] = "invoked" => call[t].op = "syscall"

\* Threads may be in calls.
MayRun == phase = "running" \/ prog.dtorThreads

\* Only destroy ends the phase, when no thread is in a call, and it forgets
\* no entry of the table.
PhaseInv ==
    /\ phase \in {"running", "closing", "freed"} /\ doomed \subseteq AppFDs
    /\ ~MayRun => \A t \in Threads : pc[t] = "idle"
    /\ ~MayRun => \A a \in AppFDs : fds[a] # None => a \in doomed
    /\ phase = "freed" => doomed = {}

LockInv ==
    /\ {ownLock, otherLock} \subseteq {"F_UNLCK", "F_RDLCK", "F_WRLCK"} /\ granted \in 0..2
    /\ granted = 1 => ownLock = "F_WRLCK"
    /\ granted = 0 => ownLock = "F_RDLCK"
    /\ ~LocksExclude(ownLock, otherLock)

CallInv == Shape /\ (\A t \in Threads : CallOf(t)) /\ PhaseInv /\ LockInv

\* The other threads take no part in a step of t.
OthersStay(t) ==
    \A u \in Threads \ {t} : pc'[u] = pc[u] /\ call'[u] = call[u] /\ at'[u] = at[u] /\ got'[u] = got[u] /\ stale'[u] = stale[u]

ThreadShape ==
    /\ pc \in [Threads -> {"idle", "resolved", "created", "polling", "spawning", "invoked"}]
    /\ DOMAIN call = Threads /\ DOMAIN at = Threads /\ DOMAIN got = Threads
    /\ stale \in [Threads -> BOOLEAN]

LEMMA GivesEffect ==
  ASSUME ThreadShape, NEW t \in Threads, NEW c, NEW err, NEW hosterr, NEW val, Gives(t, c, err, hosterr, val)
  PROVE  /\ ThreadShape' /\ OthersStay(t)
         /\ pc'[t] = "idle" /\ call'[t] = None /\ at'[t] = None /\ stale'[t] = FALSE
         /\ got'[t] = [call |-> c, err |-> err, host |-> hosterr, val |-> val, stale |-> stale[t]]
BY DEF ThreadShape, Gives, OthersStay

LEMMA CallIsValid ==
  ASSUME prog \in {Programs[name] : name \in DOMAIN Programs}, NEW t \in Threads, NEW c \in prog.calls[t]
  PROVE  ValidCall(c)
BY ProgramsAssumption

\* What a program starts with.
LEMMA ProgramStarts ==
  ASSUME prog \in {Programs[name] : name \in DOMAIN Programs}
  PROVE  /\ prog.fds \in [AppFDs -> Entries \cup {None}]
         /\ DOMAIN prog.file = HostFDs /\ \A h \in HostFDs : InitialFile(prog.file[h])
         /\ \A h \in HostFDs : prog.file[h] \notin {Closed, Other} =>
               \E a \in AppFDs : prog.fds[a] # None /\ prog.fds[a].host = h
         /\ \A a, b \in AppFDs : prog.fds[a] # None /\ prog.fds[b] # None /\ prog.fds[a].host = prog.fds[b].host => a = b
         /\ \A a \in AppFDs : prog.fds[a] # None => RightType(prog.fds[a], prog.file[prog.fds[a].host])
         /\ \A a \in prog.peers : IsGuestAddr(a)
         /\ "0" \notin prog.errors
<1>1. PICK name \in DOMAIN Programs : prog = Programs[name]
  OBVIOUS
<1> DEFINE p == Programs[name]
<1>2. /\ p.fds \in [AppFDs -> Entries \cup {None}]
      /\ p.file = [h \in HostFDs |-> p.file[h]]
      /\ \A h \in HostFDs : InitialFile(p.file[h])
      /\ \A a \in p.peers : IsGuestAddr(a)
      /\ "0" \notin p.errors
  BY ProgramsAssumption
<1>3. /\ \A h \in HostFDs : p.file[h] \notin {Closed, Other} => \E a \in AppFDs : p.fds[a] # None /\ p.fds[a].host = h
      /\ \A h \in HostFDs, a, b \in AppFDs :
            (p.fds[a] # None /\ p.fds[a].host = h) /\ (p.fds[b] # None /\ p.fds[b].host = h) => a = b
      /\ \A a \in AppFDs : p.fds[a] # None => RightType(p.fds[a], p.file[p.fds[a].host])
  BY ProgramsAssumption
<1>4. DOMAIN p.file = HostFDs
  BY <1>2
<1>5. \A a, b \in AppFDs : p.fds[a] # None /\ p.fds[b] # None /\ p.fds[a].host = p.fds[b].host => a = b
  BY <1>2, <1>3 DEF Entries
<1> HIDE DEF p
<1>6. prog = p
  BY <1>1 DEF p
<1> QED
  BY <1>2, <1>3, <1>4, <1>5, <1>6

ThreadInv == ThreadShape /\ \A t \in Threads : CallOf(t)

Ends(t) == \E c, err, hosterr, val : Gives(t, c, err, hosterr, val)

LEMMA EndsKeeps ==
  ASSUME CallInv, NEW t \in Threads, Ends(t), prog' = prog
  PROVE  ThreadInv'
<1>1. PICK c, err, hosterr, val : Gives(t, c, err, hosterr, val)
  BY DEF Ends
<1>2. ThreadShape
  BY DEF CallInv, Shape, ThreadShape
<1>3. /\ ThreadShape' /\ OthersStay(t)
      /\ pc'[t] = "idle" /\ call'[t] = None
  BY <1>1, <1>2, GivesEffect
<1> QED
  BY <1>3 DEF ThreadInv, CallInv, CallOf, OthersStay

LEMMA EnterKeeps ==
  ASSUME CallInv, NEW t \in Threads, NEW c \in prog.calls[t], NEW found,
         NEW where \in {"resolved", "created", "polling", "spawning", "invoked"}, Enter(t, c, where, found), prog' = prog,
         where = "resolved" => c.op \in OnDescriptor /\ ArgError(c) = "0" /\ found \in Entries,
         where = "created" => c.op \in {"SockOpen", "SockAccept"} /\ found \in Entries,
         where = "polling" => c.op = "poll_oneoff",
         where = "spawning" => c.op = "ProcessSpawn",
         where = "invoked" => c.op = "syscall"
  PROVE  ThreadInv'
<1>1. ThreadShape
  BY DEF CallInv, Shape, ThreadShape
<1>2. /\ ThreadShape' /\ OthersStay(t)
      /\ pc'[t] = where /\ call'[t] = c /\ at'[t] = found
  BY <1>1 DEF ThreadShape, Enter, OthersStay
<1>3. c # None
  BY CallIsValid DEF ValidCall, CallInv, Shape
<1>4. CallOf(t)'
  BY <1>2, <1>3 DEF CallOf
<1>5. \A u \in Threads \ {t} : CallOf(u)'
  BY <1>2 DEF CallInv, CallOf, OthersStay
<1> QED
  BY <1>2, <1>4, <1>5 DEF ThreadInv

LEMMA FreeNumbers ==
  ASSUME Shape
  PROVE  /\ FreeHostFDs # {} => NewHostFD \in HostFDs /\ file[NewHostFD] = Closed
         /\ FreeAppFDs # {} => Min(FreeAppFDs) \in AppFDs /\ fds[Min(FreeAppFDs)] = None
<1>1. FreeHostFDs \in SUBSET Nat /\ FreeAppFDs \in SUBSET Nat
  BY GuestCallsAssumption DEF FreeHostFDs, FreeAppFDs
<1>2. FreeHostFDs # {} => NewHostFD \in FreeHostFDs
  BY <1>1, MinIsIn DEF NewHostFD
<1>3. FreeAppFDs # {} => Min(FreeAppFDs) \in FreeAppFDs
  BY <1>1, MinIsIn
<1> QED
  BY <1>2, <1>3 DEF FreeHostFDs, FreeAppFDs

\* accept() has made a socket.
Accepts(t) ==
    /\ FreeHostFDs # {} /\ call[t].op = "SockAccept"
    /\ Target(t).kind = "socket" /\ Target(t).listening
    /\ \E peer \in prog.peers :
          file' = [file EXCEPT ![NewHostFD] =
                      [Socket(Target(t).type, FALSE, Target(t).name, KernelAddr(peer), Target(t).bound, peer)
                          EXCEPT !.raced = Target(t).raced \/ fds[call[t].fd] # at[t]]]
    /\ pc' = [pc EXCEPT ![t] = "created"]
    /\ at' = [at EXCEPT ![t] = [host |-> NewHostFD, type |-> at[t].type]]
    /\ UNCHANGED <<call, got, stale>>

\* A handler ends the call or, if it is SockAccept, goes on with a new socket.
LEMMA HandlerEnds ==
  ASSUME NEW t \in Threads, Handler(t)
  PROVE  /\ pc[t] = "resolved"
         /\ UNCHANGED <<prog, fds, otherLock, phase, doomed>>
         /\ Ends(t) \/ Accepts(t)
<1> USE DEF OnSocket, Calls, Return, HostError, Ends, locks
<1>1. CASE SockBind(t)
  BY <1>1 DEF SockBind
<1>2. CASE SockConnect(t)
  BY <1>2 DEF SockConnect
<1>3. CASE SockListen(t)
  BY <1>3 DEF SockListen
<1>4. CASE SockAccept(t)
  BY <1>4 DEF SockAccept, Accepts
<1>5. CASE SockGetSockName(t)
  BY <1>5 DEF SockGetSockName
<1>6. CASE SockGetPeerName(t)
  BY <1>6 DEF SockGetPeerName
<1>7. CASE SockShutdown(t)
  BY <1>7 DEF SockShutdown
<1>8. CASE SockGetOpt(t)
  BY <1>8 DEF SockGetOpt
<1>9. CASE SockSetOpt(t)
  BY <1>9 DEF SockSetOpt
<1>10. CASE SockRecvMsg(t)
  BY <1>10 DEF SockRecvMsg
<1>11. CASE SockSendMsg(t)
  BY <1>11 DEF SockSendMsg
<1>12. CASE FDFcntl(t)
  BY <1>12 DEF FDFcntl
<1>13. CASE FDStatVFS(t)
  BY <1>13 DEF FDStatVFS
<1>14. CASE HostFails(t)
  BY <1>14 DEF HostFails
<1> QED
  BY <1>1, <1>2, <1>3, <1>4, <1>5, <1>6, <1>7, <1>8, <1>9, <1>10, <1>11, <1>12, <1>13, <1>14 DEF Handler

\* What a step of thread t leaves to be shown.
ThreadStep(t) ==
    /\ MayRun /\ UNCHANGED <<prog, phase, doomed>>
    /\ ThreadInv' /\ LockInv'
    /\ fds' \in [AppFDs -> Entries \cup {None}] /\ DOMAIN file' = HostFDs

LEMMA ThreadStepKeeps ==
  ASSUME CallInv, NEW t \in Threads, ThreadStep(t)
  PROVE  CallInv'
<1>1. MayRun' /\ phase' = phase /\ doomed' = doomed
  BY DEF ThreadStep, MayRun
<1>2. PhaseInv'
  BY <1>1 DEF PhaseInv, CallInv
<1> QED
  BY <1>2 DEF ThreadStep, CallInv, Shape, ThreadInv, ThreadShape

LEMMA BeginsEffect ==
  ASSUME CallInv, NEW t \in Threads, NEW op, NEW c \in prog.calls[t], Begins(t, op, c)
  PROVE  MayRun /\ pc[t] = "idle" /\ c.op = op /\ ValidCall(c)
BY CallIsValid DEF Begins, CallInv, Shape, MayRun

LEMMA InCall ==
  ASSUME CallInv, NEW t \in Threads, pc[t] # "idle"
  PROVE  MayRun /\ call[t] \in prog.calls[t] /\ ValidCall(call[t])
<1>1. MayRun /\ call[t] \in prog.calls[t]
  BY DEF CallInv, CallOf, PhaseInv
<1> QED
  BY <1>1, CallIsValid DEF CallInv, Shape

LEMMA LookupSteps ==
  ASSUME CallInv, NEW t \in Threads, GetHostFDByAppFD(t)
  PROVE  ThreadStep(t)
<1>1. PICK op \in OnDescriptor, c \in prog.calls[t] :
        /\ Begins(t, op, c)
        /\ IF ArgError(c) # "0" THEN Gives(t, c, ArgError(c), "0", None)
           ELSE IF fds[c.fd] = None THEN Gives(t, c, "EBADF", "0", None)
           ELSE Enter(t, c, "resolved", fds[c.fd])
        /\ UNCHANGED <<prog, fds, file, locks, phase, doomed>>
  BY DEF GetHostFDByAppFD
<1>2. MayRun /\ c.op = op /\ ValidCall(c)
  BY <1>1, BeginsEffect
<1>3. c.fd \in AppFDs
  BY <1>2 DEF ValidCall
<1>4. ThreadInv'
  <2>1. CASE Ends(t)
    BY <1>1, <2>1, EndsKeeps
  <2>2. CASE ArgError(c) = "0" /\ fds[c.fd] # None /\ Enter(t, c, "resolved", fds[c.fd])
    <3>1. fds[c.fd] \in Entries
      BY <1>3, <2>2 DEF CallInv, Shape
    <3> QED
      BY <1>1, <1>2, <2>2, <3>1, EnterKeeps
  <2> QED
    BY <1>1, <2>1, <2>2 DEF Ends
<1> QED
  BY <1>1, <1>2, <1>4 DEF ThreadStep, CallInv, Shape, LockInv, locks

LEMMA CloseSteps ==
  ASSUME CallInv, NEW t \in Threads, FDClose(t)
  PROVE  ThreadStep(t)
<1>1. PICK c \in prog.calls[t] :
        /\ Begins(t, "fd_close", c) /\ fds[c.fd] # None
        /\ CloseApp(c.fd)
        /\ AllStale
        /\ UNCHANGED <<prog, pc, call, at, got, phase, doomed>>
  BY DEF FDClose
<1>2. MayRun
  BY <1>1, BeginsEffect
<1>3. ThreadInv'
  BY <1>1 DEF AllStale, ThreadInv, ThreadShape, CallInv, Shape, CallOf
<1>4. LockInv'
  BY <1>1 DEF CallInv, CloseApp, LockInv, LocksExclude
<1>5. fds' \in [AppFDs -> Entries \cup {None}] /\ DOMAIN file' = HostFDs
  BY <1>1 DEF CallInv, Shape, CloseApp
<1> QED
  BY <1>1, <1>2, <1>3, <1>4, <1>5 DEF ThreadStep

LEMMA SockOpenSteps ==
  ASSUME CallInv, NEW t \in Threads, SockOpen(t)
  PROVE  ThreadStep(t)
<1>1. PICK c \in prog.calls[t] :
        /\ Begins(t, "SockOpen", c)
        /\ UNCHANGED <<prog, fds, locks, phase, doomed>>
        /\ \/ Ends(t) /\ UNCHANGED file
           \/ /\ FreeHostFDs # {} /\ SockOpenError(c.domain, c.type, c.protocol) = "0"
              /\ \E s : file' = [file EXCEPT ![NewHostFD] = s]
              /\ Enter(t, c, "created", [host |-> NewHostFD, type |-> HostSockType(c.type)])
  BY DEF SockOpen, Ends
<1>2. MayRun /\ c.op = "SockOpen"
  BY <1>1, BeginsEffect
<1>3. ThreadInv'
  <2>1. CASE Ends(t)
    BY <1>1, <2>1, EndsKeeps
  <2>2. CASE /\ FreeHostFDs # {} /\ SockOpenError(c.domain, c.type, c.protocol) = "0"
             /\ Enter(t, c, "created", [host |-> NewHostFD, type |-> HostSockType(c.type)])
    <3>1. HostSockType(c.type) \in FileTypes
      BY <2>2 DEF SockOpenError, HostSockType, FileTypes
    <3>2. NewHostFD \in HostFDs
      BY <2>2, FreeNumbers DEF CallInv
    <3> QED
      BY <1>1, <1>2, <2>2, <3>1, <3>2, EnterKeeps DEF Entries
  <2> QED
    BY <1>1, <2>1, <2>2
<1>4. DOMAIN file' = HostFDs
  BY <1>1 DEF CallInv, Shape
<1> QED
  BY <1>1, <1>2, <1>3, <1>4 DEF ThreadStep, CallInv, Shape, LockInv, locks

LEMMA InsertSteps ==
  ASSUME CallInv, NEW t \in Threads, InsertNewHostSocketFDToTable(t) \/ InsertFails(t)
  PROVE  ThreadStep(t)
<1>1. pc[t] = "created" /\ Ends(t) /\ UNCHANGED <<prog, locks, phase, doomed>> /\ DOMAIN file' = HostFDs
  BY DEF InsertNewHostSocketFDToTable, InsertFails, RolledBack, Return, Ends, CallInv, Shape
<1>2. MayRun
  BY <1>1, InCall
<1>3. fds' \in [AppFDs -> Entries \cup {None}]
  BY <1>1 DEF InsertNewHostSocketFDToTable, InsertFails, CallInv, Shape, CallOf
<1> QED
  BY <1>1, <1>2, <1>3, EndsKeeps DEF ThreadStep, CallInv, LockInv, locks

LEMMA HandlerSteps ==
  ASSUME CallInv, NEW t \in Threads, Handler(t)
  PROVE  ThreadStep(t)
<1>1. /\ pc[t] = "resolved" /\ UNCHANGED <<prog, fds, otherLock, phase, doomed>>
      /\ Ends(t) \/ Accepts(t)
  BY HandlerEnds
<1>2. MayRun
  BY <1>1, InCall
<1>3. ThreadInv'
  <2>1. CASE Ends(t)
    BY <1>1, <2>1, EndsKeeps
  <2>2. CASE Accepts(t)
    <3>1. [host |-> NewHostFD, type |-> at[t].type] \in Entries
      BY <1>1, <2>2, FreeNumbers DEF Accepts, Entries, CallInv, CallOf
    <3> QED
      BY <1>1, <2>2, <3>1 DEF Accepts, ThreadInv, ThreadShape, CallInv, Shape, CallOf
  <2> QED
    BY <1>1, <2>1, <2>2
<1>4. DOMAIN file' = HostFDs
  BY DEF Handler, SockBind, SockConnect, SockListen, SockAccept, SockGetSockName, SockGetPeerName, SockShutdown,
         SockGetOpt, SockSetOpt, SockRecvMsg, SockSendMsg, FDFcntl, FDStatVFS, HostFails, Sets, CallInv, Shape
<1>5. LockInv'
  <2>1. CASE UNCHANGED <<ownLock, granted>>
    BY <1>1, <2>1 DEF CallInv, LockInv
  <2>2. CASE FDFcntl(t) /\ ~UNCHANGED <<ownLock, granted>>
    <3>1. /\ FcntlError(call[t].cmd, call[t].fault, call[t].type, call[t].whence) = "0"
          /\ ~LocksExclude(HostLockType(call[t].type), otherLock)
          /\ ownLock' = HostLockType(call[t].type) /\ granted' = call[t].type
      BY <2>2 DEF FDFcntl, LateError, Calls
    <3>2. /\ HostLockType(call[t].type) \in {"F_UNLCK", "F_RDLCK", "F_WRLCK"} /\ call[t].type \in 0..2
          /\ call[t].type = 1 => HostLockType(call[t].type) = "F_WRLCK"
          /\ call[t].type = 0 => HostLockType(call[t].type) = "F_RDLCK"
      BY <3>1 DEF FcntlError, HostLockType
    <3> QED
      BY <1>1, <3>1, <3>2 DEF CallInv, LockInv
  <2> QED
    BY <2>1, <2>2 DEF Handler, OnSocket, locks, SockBind, SockConnect, SockListen, SockAccept, SockGetSockName,
         SockGetPeerName, SockShutdown, SockGetOpt, SockSetOpt, SockRecvMsg, SockSendMsg, FDStatVFS, HostFails
<1> QED
  BY <1>1, <1>2, <1>3, <1>4, <1>5 DEF ThreadStep, CallInv, Shape

LEMMA PollSteps ==
  ASSUME CallInv, NEW t \in Threads, PollOneOff(t) \/ PollReturns(t)
  PROVE  ThreadStep(t)
<1>1. UNCHANGED <<prog, fds, file, locks, phase, doomed>>
  BY DEF PollOneOff, PollReturns
<1>2. MayRun /\ ThreadInv'
  <2>1. CASE PollReturns(t)
    <3>1. pc[t] = "polling" /\ Ends(t)
      BY <2>1 DEF PollReturns, Return, HostError, Ends
    <3> QED
      BY <1>1, <3>1, EndsKeeps, InCall
  <2>2. CASE PollOneOff(t)
    <3>1. PICK c \in prog.calls[t] :
            /\ Begins(t, "poll_oneoff", c)
            /\ Ends(t) \/ \E found : Enter(t, c, "polling", found)
      BY <2>2 DEF PollOneOff, Ends
    <3>2. MayRun /\ c.op = "poll_oneoff"
      BY <3>1, BeginsEffect
    <3> QED
      BY <1>1, <3>1, <3>2, EndsKeeps, EnterKeeps
  <2> QED
    BY <2>1, <2>2
<1> QED
  BY <1>1, <1>2 DEF ThreadStep, CallInv, Shape, LockInv, locks

LEMMA OtherCallSteps ==
  ASSUME CallInv, NEW t \in Threads,
         \/ SockGetIfAddrs(t) \/ ProcessSpawn(t) \/ SpawnLookup(t) \/ SpawnChild(t)
         \/ WasiExtSyscall(t) \/ GuestWritesArgs(t) \/ DoSyscall(t)
  PROVE  ThreadStep(t)
<1>1. UNCHANGED <<prog, fds, file, locks, phase, doomed>>
  BY DEF SockGetIfAddrs, ProcessSpawn, SpawnLookup, SpawnChild, WasiExtSyscall, GuestWritesArgs, DoSyscall
<1>2. MayRun /\ ThreadInv'
  <2>1. CASE SockGetIfAddrs(t)
    <3>1. MayRun /\ Ends(t)
      BY <2>1 DEF SockGetIfAddrs, Begins, MayRun, Ends
    <3> QED
      BY <1>1, <3>1, EndsKeeps
  <2>2. CASE ProcessSpawn(t)
    <3>1. PICK c \in prog.calls[t] : Begins(t, "ProcessSpawn", c) /\ \E found : Enter(t, c, "spawning", found)
      BY <2>2 DEF ProcessSpawn
    <3>2. MayRun /\ c.op = "ProcessSpawn"
      BY <3>1, BeginsEffect
    <3> QED
      BY <1>1, <3>1, <3>2, EnterKeeps
  <2>3. CASE SpawnChild(t)
    <3>1. pc[t] = "spawning" /\ Ends(t)
      BY <2>3 DEF SpawnChild, Return, HostError, Ends
    <3> QED
      BY <1>1, <3>1, EndsKeeps, InCall
  <2>4. CASE SpawnLookup(t) \/ GuestWritesArgs(t)
    <3> DEFINE looks == /\ UNCHANGED <<pc, call, got>> /\ stale' \in [Threads -> BOOLEAN]
                        /\ DOMAIN at' = Threads /\ \A u \in Threads \ {t} : at'[u] = at[u]
    <3>1. pc[t] \in {"spawning", "invoked"}
      BY <2>4 DEF SpawnLookup, GuestWritesArgs
    <3>2. Ends(t) \/ looks
      BY <2>4 DEF SpawnLookup, GuestWritesArgs, Return, Ends, CallInv, Shape
    <3>3. CASE looks
      <4>1. ThreadShape'
        BY <3>3 DEF ThreadShape, CallInv, Shape
      <4>2. \A u \in Threads : CallOf(u)'
        BY <1>1, <3>1, <3>3 DEF CallInv, CallOf
      <4> QED
        BY <3>1, <4>1, <4>2, InCall DEF ThreadInv
    <3> QED
      BY <1>1, <3>1, <3>2, <3>3, EndsKeeps, InCall
  <2>5. CASE WasiExtSyscall(t)
    <3>1. PICK c \in prog.calls[t] :
            Begins(t, "syscall", c) /\ (Ends(t) \/ \E found : Enter(t, c, "invoked", found))
      BY <2>5 DEF WasiExtSyscall, Ends
    <3>2. MayRun /\ c.op = "syscall"
      BY <3>1, BeginsEffect
    <3> QED
      BY <1>1, <3>1, <3>2, EndsKeeps, EnterKeeps
  <2>6. CASE DoSyscall(t)
    <3>1. pc[t] = "invoked" /\ Ends(t)
      BY <2>6 DEF DoSyscall, Return, Ends
    <3> QED
      BY <1>1, <3>1, EndsKeeps, InCall
  <2> QED
    BY <2>1, <2>2, <2>3, <2>4, <2>5, <2>6
<1> QED
  BY <1>1, <1>2 DEF ThreadStep, CallInv, Shape, LockInv, locks

LEMMA SurroundingsKeep ==
  ASSUME CallInv, OtherOpens \/ OtherCloses \/ PeerActs \/ OtherLocks
  PROVE  CallInv'
<1>1. UNCHANGED <<prog, fds, pc, call, at, got, stale, ownLock, granted, phase, doomed>>
  BY DEF OtherOpens, OtherCloses, PeerActs, OtherLocks, thread, locks
<1>2. DOMAIN file' = HostFDs
  BY DEF OtherOpens, OtherCloses, PeerActs, OtherLocks, CallInv, Shape
<1>3. LockInv'
  <2>1. CASE OtherLocks
    BY <1>1, <2>1 DEF OtherLocks, CallInv, LockInv, LocksExclude
  <2>2. CASE UNCHANGED otherLock
    BY <1>1, <2>2 DEF CallInv, LockInv
  <2> QED
    BY <2>1, <2>2 DEF OtherOpens, OtherCloses, PeerActs, locks
<1> QED
  BY <1>1, <1>2, <1>3 DEF CallInv, Shape, CallOf, PhaseInv, MayRun

LEMMA DestroyKeeps ==
  ASSUME CallInv, CollectFDs \/ CloseNext \/ Deinstantiate
  PROVE  CallInv'
<1>1. UNCHANGED <<prog, pc, call, at, got>> /\ stale' \in [Threads -> BOOLEAN]
  BY DEF CollectFDs, CloseNext, AllStale, Deinstantiate, thread, CallInv, Shape
<1>2. CASE CollectFDs
  BY <1>1, <1>2 DEF CollectFDs, ThreadsEnded, CallInv, Shape, CallOf, PhaseInv, MayRun, LockInv, locks
<1>3. CASE Deinstantiate
  BY <1>1, <1>3 DEF Deinstantiate, CallInv, Shape, CallOf, PhaseInv, MayRun, LockInv, locks
<1>4. CASE CloseNext
  <2> DEFINE a == Min(doomed)
  <2>1. a \in doomed /\ a \in AppFDs
    <3>1. doomed \in SUBSET Nat /\ doomed # {}
      BY <1>4, GuestCallsAssumption DEF CloseNext, CallInv, PhaseInv
    <3> QED
      BY <3>1, MinIsIn DEF CallInv, PhaseInv
  <2>2. /\ phase = "closing" /\ phase' = phase /\ doomed' = doomed \ {a}
        /\ IF fds[a] = None THEN UNCHANGED <<fds, file, locks>> ELSE CloseApp(a)
    BY <1>4 DEF CloseNext
  <2> HIDE DEF a
  <2>3. /\ DOMAIN file' = HostFDs /\ fds' \in [AppFDs -> Entries \cup {None}]
        /\ \A b \in AppFDs : fds'[b] # None => fds[b] # None /\ b # a
    BY <2>1, <2>2 DEF CloseApp, CallInv, Shape
  <2>4. LockInv'
    BY <2>2 DEF CloseApp, CallInv, LockInv, LocksExclude, locks
  <2> QED
    BY <1>1, <2>2, <2>3, <2>4 DEF CallInv, Shape, CallOf, PhaseInv, MayRun
<1> QED
  BY <1>2, <1>3, <1>4

LEMMA CallInvHolds ==
  /\ Init => CallInv
  /\ CallInv /\ [Next]_vars => CallInv'
<1>1. Init => CallInv
  <2> SUFFICES ASSUME Init
               PROVE  CallInv
    OBVIOUS
  <2>1. prog.fds \in [AppFDs -> Entries \cup {None}] /\ DOMAIN prog.file = HostFDs
    BY ProgramStarts DEF Init
  <2>2. Shape
    BY <2>1 DEF Init, Shape
  <2> QED
    BY <2>2 DEF Init, CallInv, CallOf, PhaseInv, MayRun, LockInv, LocksExclude
<1>2. ASSUME CallInv, NEW t \in Threads,
             \/ GetHostFDByAppFD(t) \/ FDClose(t) \/ SockOpen(t)
             \/ InsertNewHostSocketFDToTable(t) \/ InsertFails(t)
             \/ Handler(t)
             \/ PollOneOff(t) \/ PollReturns(t) \/ SockGetIfAddrs(t)
             \/ ProcessSpawn(t) \/ SpawnLookup(t) \/ SpawnChild(t)
             \/ WasiExtSyscall(t) \/ GuestWritesArgs(t) \/ DoSyscall(t)
      PROVE  CallInv'
  <2>1. ThreadStep(t)
    BY <1>2, LookupSteps, CloseSteps, SockOpenSteps, InsertSteps, HandlerSteps, PollSteps, OtherCallSteps
  <2> QED
    BY <1>2, <2>1, ThreadStepKeeps
<1>3. ASSUME CallInv, UNCHANGED vars
      PROVE  CallInv'
  BY <1>3 DEF vars, CallInv, Shape, CallOf, PhaseInv, MayRun, LockInv
<1> QED
  BY <1>1, <1>2, <1>3, SurroundingsKeep, DestroyKeeps DEF Next

\* The variables keep their types: every entry of the table names a descriptor
\* of the host, a thread is in a call just when it has one, and the locks and
\* the phases are those there are.
THEOREM TypeCorrect == Spec => []TypeOK
<1>1. CallInv => TypeOK
  BY DEF CallInv, Shape, CallOf, PhaseInv, LockInv, TypeOK, Entries
<1> QED
  BY <1>1, CallInvHolds, PTL DEF Spec

-----------------------------------------------------------------------------
(* Sockets: what each of them keeps.                                         *)

SocketFields == {"kind", "type", "nonblock", "name", "peer", "listening", "opts", "err", "rx", "eof", "shut",
                 "bound", "dialled", "asked", "sent", "read", "raced"}

\* What was read and what waits is what was sent.
InOrder(f) ==
    /\ f.rx \in Seq(Nat) /\ f.read \in Seq(Nat) /\ f.sent \in Nat
    /\ f.read \o f.rx = [i \in 1..f.sent |-> i]

\* The names are those the guest and the peer have given.
WellNamed(f) ==
    /\ f.bound # None => IsGuestAddr(f.bound) /\ f.name = WasiAppSockAddrToHostSockAddr(f.bound)
    /\ f.dialled # None => IsGuestAddr(f.dialled) /\ f.peer = WasiAppSockAddrToHostSockAddr(f.dialled)

\* The host's options are those the guest has set.
WellSet(f) ==
    \A o \in DOMAIN f.asked :
        /\ HostOptName(o) # "none" /\ HostOptName(o) \in DOMAIN f.opts
        /\ f.opts[HostOptName(o)] = f.asked[o]

SocketOK(f) ==
    /\ f.kind = "socket" /\ DOMAIN f = SocketFields /\ f.type \in {"STREAM", "DGRAM"}
    /\ InOrder(f) /\ WellNamed(f) /\ WellSet(f)

FileOK(f) == f \in {Closed, Other} \/ f.kind = "file" \/ SocketOK(f)

FilesInv == \A h \in HostFDs : FileOK(file[h])

\* A step that only works on one socket.
SocketStep ==
    \E h \in HostFDs : \E g :
        /\ file' = [file EXCEPT ![h] = g]
        /\ file[h].kind = "socket" /\ SocketOK(g) /\ g.type = file[h].type /\ g.raced = file[h].raced

LEMMA IsSocket ==
  ASSUME NEW f, FileOK(f), f.kind = "socket"
  PROVE  SocketOK(f)
BY DEF FileOK, Closed, Other

\* A socket nothing has happened to yet.
Fresh(f) ==
    /\ f.kind = "socket" /\ DOMAIN f = SocketFields /\ f.type \in {"STREAM", "DGRAM"}
    /\ f.rx = <<>> /\ f.read = <<>> /\ f.sent = 0 /\ f.asked = <<>>

LEMMA FreshIsOK ==
  ASSUME NEW f, Fresh(f), WellNamed(f)
  PROVE  SocketOK(f)
<1>1. <<>> \in Seq(Nat) /\ <<>> \o <<>> = [i \in 1..0 |-> i]
  OBVIOUS
<1>2. InOrder(f)
  BY <1>1 DEF InOrder, Fresh
<1>3. WellSet(f)
  BY DEF WellSet, Fresh
<1> QED
  BY <1>2, <1>3 DEF SocketOK, Fresh

LEMMA TargetIsSocket ==
  ASSUME CallInv, FilesInv, NEW t \in Threads, NEW op, OnSocket(t, op)
  PROVE  /\ pc[t] = "resolved" /\ call[t].op = op /\ at[t].host \in HostFDs
         /\ ValidCall(call[t]) /\ ArgError(call[t]) = "0"
         /\ SocketOK(Target(t))
<1>1. pc[t] = "resolved" /\ call[t].op = op /\ Target(t).kind = "socket"
  BY DEF OnSocket, Calls
<1>2. at[t] \in Entries /\ ArgError(call[t]) = "0" /\ at[t].host \in HostFDs
  BY <1>1 DEF CallInv, CallOf, Entries
<1>3. ValidCall(call[t])
  BY <1>1, InCall
<1> QED
  BY <1>1, <1>2, <1>3, IsSocket DEF FilesInv, Target

LEMMA SetsSocket ==
  ASSUME NEW t \in Threads, NEW g, Sets(t, g), at[t].host \in HostFDs, Target(t).kind = "socket",
         SocketOK(g), g.type = Target(t).type, g.raced = Target(t).raced
  PROVE  SocketStep
BY DEF SocketStep, Sets, Target

LEMMA BindWorksOnSocket ==
  ASSUME CallInv, FilesInv, NEW t \in Threads, SockBind(t) \/ SockConnect(t)
  PROVE  SocketStep
<1> DEFINE f == Target(t)
<1>1. /\ at[t].host \in HostFDs /\ SocketOK(f)
      /\ ValidCall(call[t]) /\ call[t].op \in {"SockBind", "SockConnect"} /\ ArgError(call[t]) = "0"
  BY TargetIsSocket DEF SockBind, SockConnect
<1>2. IsGuestAddr(call[t].addr)
  BY <1>1 DEF ValidCall, ArgError
<1>3. CASE SockBind(t)
  <2> DEFINE g == [f EXCEPT !.name = WasiAppSockAddrToHostSockAddr(call[t].addr), !.bound = call[t].addr]
  <2>1. Sets(t, g)
    BY <1>3 DEF SockBind
  <2>2. SocketOK(g) /\ g.type = f.type /\ g.raced = f.raced
    BY <1>1, <1>2 DEF SocketOK, SocketFields, InOrder, WellNamed, WellSet
  <2> QED
    BY <1>1, <2>1, <2>2, SetsSocket DEF SocketOK
<1>4. CASE SockConnect(t)
  <2> DEFINE g == [f EXCEPT !.peer = WasiAppSockAddrToHostSockAddr(call[t].addr), !.dialled = call[t].addr]
  <2>1. Sets(t, g)
    BY <1>4 DEF SockConnect
  <2>2. SocketOK(g) /\ g.type = f.type /\ g.raced = f.raced
    BY <1>1, <1>2 DEF SocketOK, SocketFields, InOrder, WellNamed, WellSet
  <2> QED
    BY <1>1, <2>1, <2>2, SetsSocket DEF SocketOK
<1> QED
  BY <1>3, <1>4

LEMMA ListenWorksOnSocket ==
  ASSUME CallInv, FilesInv, NEW t \in Threads, SockListen(t) \/ SockShutdown(t)
  PROVE  SocketStep
<1> DEFINE f == Target(t)
<1>1. at[t].host \in HostFDs /\ SocketOK(f)
  BY TargetIsSocket DEF SockListen, SockShutdown
<1>2. \/ Sets(t, [f EXCEPT !.listening = TRUE])
      \/ Sets(t, [f EXCEPT !.shut = @ \cup HostShutdownHow(call[t].how)])
  BY DEF SockListen, SockShutdown
<1>3. ASSUME NEW g, g = [f EXCEPT !.listening = TRUE] \/ g = [f EXCEPT !.shut = @ \cup HostShutdownHow(call[t].how)]
      PROVE  SocketOK(g) /\ g.type = f.type /\ g.raced = f.raced
  BY <1>1, <1>3 DEF SocketOK, SocketFields, InOrder, WellNamed, WellSet
<1> QED
  BY <1>1, <1>2, <1>3, SetsSocket DEF SocketOK

LEMMA OptionsWorkOnSocket ==
  ASSUME CallInv, FilesInv, NEW t \in Threads, SockGetOpt(t) \/ SockSetOpt(t)
  PROVE  UNCHANGED file \/ SocketStep
<1> DEFINE f == Target(t)
           opt == call[t].opt
           name == MapWasiSockOpt(opt).name
           v == call[t].value
<1>1. CASE SockGetOpt(t) /\ ~UNCHANGED file
  <2> DEFINE g == [f EXCEPT !.err = "0"]
  <2>1. f.kind = "socket" /\ Sets(t, g)
    BY <1>1 DEF SockGetOpt
  <2>2. at[t].host \in HostFDs
    BY <1>1 DEF SockGetOpt, Calls, CallInv, CallOf, Entries
  <2>3. SocketOK(f)
    BY <2>1, <2>2, IsSocket DEF FilesInv, Target
  <2>4. SocketOK(g) /\ g.type = f.type /\ g.raced = f.raced
    BY <2>3 DEF SocketOK, SocketFields, InOrder, WellNamed, WellSet
  <2> QED
    BY <2>1, <2>2, <2>4, SetsSocket
<1>2. CASE SockSetOpt(t) /\ ~UNCHANGED file
  <2>1. /\ at[t].host \in HostFDs /\ SocketOK(f)
        /\ call[t].op = "SockSetOpt" /\ ArgError(call[t]) = "0"
    BY <1>2, TargetIsSocket DEF SockSetOpt
  <2>2. HostOptName(opt) # "none" /\ name = HostOptName(opt)
    BY <2>1 DEF ArgError, MapWasiSockOpt
  <2> DEFINE g == [f EXCEPT !.opts = Put(@, name, v), !.asked = Put(@, opt, v)]
  <2>3. Sets(t, g)
    BY <1>2 DEF SockSetOpt
  <2>4. /\ DOMAIN g = SocketFields /\ g.kind = f.kind /\ g.type = f.type /\ g.raced = f.raced
        /\ g.opts = Put(f.opts, name, v) /\ g.asked = Put(f.asked, opt, v)
        /\ InOrder(g) /\ WellNamed(g)
    BY <2>1 DEF SocketOK, SocketFields, InOrder, WellNamed
  <2> HIDE DEF name, opt, g
  <2>5. WellSet(g)
    <3> SUFFICES ASSUME NEW o \in DOMAIN g.asked
                 PROVE  /\ HostOptName(o) # "none" /\ HostOptName(o) \in DOMAIN g.opts
                        /\ g.opts[HostOptName(o)] = g.asked[o]
      BY DEF WellSet
    <3>1. DOMAIN g.asked = DOMAIN f.asked \cup {opt} /\ DOMAIN g.opts = DOMAIN f.opts \cup {name}
      BY <2>4 DEF Put
    <3>2. CASE o = opt
      BY <2>2, <2>4, <3>2 DEF Put
    <3>3. CASE o # opt
      <4>1. /\ o \in DOMAIN f.asked /\ HostOptName(o) # "none" /\ HostOptName(o) \in DOMAIN f.opts
            /\ f.opts[HostOptName(o)] = f.asked[o]
        BY <2>1, <3>1, <3>3 DEF SocketOK, WellSet
      <4>2. HostOptName(o) # name
        BY <2>2, <3>3, <4>1, OptionsAreDistinct
      <4> QED
        BY <2>4, <3>3, <4>1, <4>2 DEF Put
    <3> QED
      BY <3>2, <3>3
  <2>6. SocketOK(g)
    BY <2>1, <2>4, <2>5 DEF SocketOK
  <2> QED
    BY <2>1, <2>3, <2>4, <2>6, SetsSocket DEF SocketOK
<1> QED
  BY <1>1, <1>2

LEMMA RecvWorksOnSocket ==
  ASSUME CallInv, FilesInv, NEW t \in Threads, SockRecvMsg(t)
  PROVE  UNCHANGED file \/ SocketStep
<1> DEFINE f == Target(t)
           n == Min({call[t].count, Len(f.rx)})
           head == SubSeq(f.rx, 1, n)
           tail == SubSeq(f.rx, n + 1, Len(f.rx))
           peek == "PEEK" \in call[t].flags
           g == [f EXCEPT !.rx = IF peek THEN @ ELSE tail, !.read = IF peek THEN @ ELSE @ \o head]
<1>1. /\ at[t].host \in HostFDs /\ SocketOK(f)
      /\ ValidCall(call[t]) /\ call[t].op = "SockRecvMsg"
  BY TargetIsSocket DEF SockRecvMsg
<1>2. UNCHANGED file \/ Sets(t, g)
  BY DEF SockRecvMsg, MapWasiSockMsgFlags
<1>3. f.rx \in Seq(Nat) /\ f.read \in Seq(Nat)
  BY <1>1 DEF SocketOK, InOrder
<1>4. n \in 0..Len(f.rx)
  <2>1. call[t].count \in Nat /\ Len(f.rx) \in Nat
    BY <1>1, <1>3, LenProperties DEF ValidCall
  <2>2. {call[t].count, Len(f.rx)} \in SUBSET Nat
    BY <2>1
  <2>3. n \in {call[t].count, Len(f.rx)} /\ \A y \in {call[t].count, Len(f.rx)} : n <= y
    BY <2>2, MinIsIn
  <2> QED
    BY <2>1, <2>3
<1>5. /\ (f.read \o head) \o tail = f.read \o f.rx
      /\ f.read \o head \in Seq(Nat) /\ tail \in Seq(Nat)
  BY <1>3, <1>4, MoveKeepsOrder
<1> HIDE DEF n, head, tail, peek
<1>6. /\ DOMAIN g = SocketFields /\ g.kind = f.kind /\ g.type = f.type /\ g.raced = f.raced /\ g.sent = f.sent
      /\ g.rx = (IF peek THEN f.rx ELSE tail) /\ g.read = (IF peek THEN f.read ELSE f.read \o head)
      /\ WellNamed(g) /\ WellSet(g)
  BY <1>1 DEF SocketOK, SocketFields, WellNamed, WellSet
<1> HIDE DEF g
<1>7. SocketOK(g)
  BY <1>1, <1>5, <1>6 DEF SocketOK, InOrder
<1> QED
  BY <1>1, <1>2, <1>6, <1>7, SetsSocket DEF SocketOK

LEMMA PeerWorksOnSocket ==
  ASSUME CallInv, FilesInv, PeerActs
  PROVE  SocketStep
<1>1. PICK h \in HostFDs :
        /\ file[h].kind = "socket"
        /\ \/ file' = [file EXCEPT ![h].sent = @ + 1, ![h].rx = Append(@, file[h].sent + 1)]
           \/ file' = [file EXCEPT ![h].eof = TRUE]
           \/ \E e : file' = [file EXCEPT ![h].err = e]
  BY DEF PeerActs
<1> DEFINE f == file[h]
           more == [f EXCEPT !.sent = @ + 1, !.rx = Append(@, f.sent + 1)]
<1>2. SocketOK(f)
  BY <1>1, IsSocket DEF FilesInv
<1>3. DOMAIN file = HostFDs
  BY DEF CallInv, Shape
<1>4. CASE file' = [file EXCEPT ![h].sent = @ + 1, ![h].rx = Append(@, file[h].sent + 1)]
  <2>1. file' = [file EXCEPT ![h] = more]
    BY <1>2, <1>3, <1>4 DEF SocketOK, SocketFields
  <2>2. /\ f.read \o Append(f.rx, f.sent + 1) = [i \in 1..(f.sent + 1) |-> i]
        /\ Append(f.rx, f.sent + 1) \in Seq(Nat)
    BY <1>2, ArrivalKeepsOrder DEF SocketOK, InOrder
  <2>3. /\ DOMAIN more = SocketFields /\ more.kind = f.kind /\ more.type = f.type /\ more.raced = f.raced
        /\ more.rx = Append(f.rx, f.sent + 1) /\ more.read = f.read /\ more.sent = f.sent + 1
        /\ WellNamed(more) /\ WellSet(more)
    BY <1>2 DEF SocketOK, SocketFields, WellNamed, WellSet
  <2> HIDE DEF more
  <2>4. InOrder(more)
    <3>1. f.read \in Seq(Nat) /\ f.sent + 1 \in Nat
      BY <1>2 DEF SocketOK, InOrder
    <3> HIDE DEF f
    <3> QED
      BY <2>2, <2>3, <3>1 DEF InOrder
  <2>5. SocketOK(more)
    BY <1>2, <2>3, <2>4 DEF SocketOK
  <2> QED
    BY <1>1, <2>1, <2>3, <2>5 DEF SocketStep
<1>5. ASSUME NEW g, file' = [file EXCEPT ![h] = g],
             g = [f EXCEPT !.eof = TRUE] \/ \E e : g = [f EXCEPT !.err = e]
      PROVE  SocketStep
  <2>1. SocketOK(g) /\ g.type = f.type /\ g.raced = f.raced
    BY <1>2, <1>5 DEF SocketOK, SocketFields, InOrder, WellNamed, WellSet
  <2> QED
    BY <1>1, <1>5, <2>1 DEF SocketStep
<1> QED
  BY <1>1, <1>4, <1>5

LEMMA HandlerFiles ==
  ASSUME CallInv, FilesInv, NEW t \in Threads, Handler(t)
  PROVE  \/ Ends(t) /\ (UNCHANGED file \/ SocketStep)
         \/ Accepts(t)
<1>1. CASE SockBind(t) \/ SockConnect(t) \/ SockListen(t) \/ SockShutdown(t) \/ SockGetOpt(t) \/ SockSetOpt(t) \/ SockRecvMsg(t)
  <2>1. UNCHANGED file \/ SocketStep
    BY <1>1, BindWorksOnSocket, ListenWorksOnSocket, OptionsWorkOnSocket, RecvWorksOnSocket
  <2>2. Ends(t)
    BY <1>1 DEF SockBind, SockConnect, SockListen, SockShutdown, SockGetOpt, SockSetOpt, SockRecvMsg, Return, HostError, Ends
  <2> QED
    BY <2>1, <2>2
<1>2. CASE SockGetSockName(t) \/ SockGetPeerName(t) \/ SockSendMsg(t) \/ FDFcntl(t) \/ FDStatVFS(t) \/ HostFails(t)
  <2>1. UNCHANGED file
    BY <1>2 DEF SockGetSockName, SockGetPeerName, SockSendMsg, FDFcntl, FDStatVFS, HostFails
  <2>2. Ends(t)
    BY <1>2 DEF SockGetSockName, SockGetPeerName, SockSendMsg, FDFcntl, FDStatVFS, HostFails, Return, HostError, Ends
  <2> QED
    BY <2>1, <2>2
<1>3. CASE SockAccept(t)
  BY <1>3 DEF SockAccept, Accepts, OnSocket, Calls, HostError, Ends
<1> QED
  BY <1>1, <1>2, <1>3 DEF Handler

-----------------------------------------------------------------------------
(* The table: who names what.                                                *)

\* The entry that a call is about to make is that of a socket.
InHand(entry, f) == f.kind = "socket" /\ RightType(entry, f)

\* What the guest's calls have opened is named by an entry or in the hands of
\* a call, by only one of them, and of the type that it says.
TableInv ==
    /\ \A h \in HostFDs : file[h] \notin {Closed, Other} =>
          \/ \E a \in AppFDs : fds[a] # None /\ fds[a].host = h
          \/ \E t \in Threads : pc[t] = "created" /\ at[t].host = h
    /\ \A a \in AppFDs : fds[a] # None => RightType(fds[a], file[fds[a].host])
    /\ \A t \in Threads : pc[t] = "created" => InHand(at[t], file[at[t].host])
    /\ \A a, b \in AppFDs : fds[a] # None /\ fds[b] # None /\ fds[a].host = fds[b].host => a = b
    /\ \A t, u \in Threads : pc[t] = "created" /\ pc[u] = "created" /\ at[t].host = at[u].host => t = u
    /\ \A a \in AppFDs, t \in Threads : fds[a] # None /\ pc[t] = "created" => fds[a].host # at[t].host

Inv == CallInv /\ FilesInv /\ TableInv

\* Neither the entries nor what is in the hands of calls change, and of the
\* files only what the sockets have inside.
LEMMA InsideKeepsTable ==
  ASSUME Inv, CallInv', fds' = fds, UNCHANGED file \/ SocketStep,
         \A t \in Threads : pc'[t] = "created" <=> pc[t] = "created",
         \A t \in Threads : pc[t] = "created" => at'[t] = at[t]
  PROVE  Inv'
<1>1. DOMAIN file = HostFDs
  BY DEF Inv, CallInv, Shape
<1>2. FilesInv'
  BY <1>1 DEF Inv, FilesInv, FileOK, SocketStep
<1>3. \A h \in HostFDs : \/ file'[h] = file[h]
                         \/ /\ file[h].kind = "socket" /\ file'[h].kind = "socket"
                            /\ file'[h].type = file[h].type /\ file'[h].raced = file[h].raced
  BY <1>1 DEF SocketStep, SocketOK
<1>4. \A h \in HostFDs : file[h].kind = "socket" => file[h] \notin {Closed, Other}
  BY DEF Closed, Other
<1>5. /\ \A h \in HostFDs : \A e : RightType(e, file[h]) => RightType(e, file'[h])
      /\ \A h \in HostFDs : \A e : InHand(e, file[h]) => InHand(e, file'[h])
  BY <1>3 DEF RightType, InHand
<1>6. /\ \A a \in AppFDs : fds[a] # None => fds[a].host \in HostFDs
      /\ \A t \in Threads : pc[t] = "created" => at[t].host \in HostFDs
  BY DEF Inv, CallInv, Shape, CallOf, Entries
<1>7. TableInv'
  <2>1. \A h \in HostFDs : file'[h] \notin {Closed, Other} => file[h] \notin {Closed, Other}
    BY <1>3, <1>4
  <2>2. \A h \in HostFDs : file'[h] \notin {Closed, Other} =>
          \/ \E a \in AppFDs : fds'[a] # None /\ fds'[a].host = h
          \/ \E t \in Threads : pc'[t] = "created" /\ at'[t].host = h
    BY <2>1 DEF Inv, TableInv
  <2>3. \A a \in AppFDs : fds'[a] # None => RightType(fds'[a], file'[fds'[a].host])
    BY <1>5, <1>6 DEF Inv, TableInv
  <2>4. \A t \in Threads : pc'[t] = "created" => InHand(at'[t], file'[at'[t].host])
    BY <1>5, <1>6 DEF Inv, TableInv
  <2> QED
    BY <2>2, <2>3, <2>4 DEF Inv, TableInv, Closed, Other
<1> QED
  BY <1>2, <1>7 DEF Inv

\* Numbers that are free, or the host program's, are nobody's.
LEMMA NobodyNamesFree ==
  ASSUME Inv, NEW h \in HostFDs, file[h] \in {Closed, Other}
  PROVE  /\ \A a \in AppFDs : fds[a] # None => fds[a].host # h
         /\ \A t \in Threads : pc[t] = "created" => at[t].host # h
BY DEF Inv, TableInv, InHand, RightType, Closed, Other

LEMMA HostsKnown ==
  ASSUME Inv
  PROVE  /\ DOMAIN file = HostFDs
         /\ \A a \in AppFDs : fds[a] # None => fds[a].host \in HostFDs
         /\ \A t \in Threads : pc[t] = "created" => at[t].host \in HostFDs
BY DEF Inv, CallInv, Shape, CallOf, Entries

LEMMA OpenKeepsTable ==
  ASSUME Inv, CallInv', fds' = fds, NEW t \in Threads, NEW h \in HostFDs, NEW g,
         file[h] = Closed, file' = [file EXCEPT ![h] = g], SocketOK(g),
         pc[t] # "created", pc'[t] = "created", at'[t].host = h, RightType(at'[t], g), OthersStay(t)
  PROVE  Inv'
<1>1. /\ file'[h] = g /\ \A k \in HostFDs \ {h} : file'[k] = file[k]
      /\ \A u \in Threads \ {t} : pc'[u] = pc[u] /\ at'[u] = at[u]
  BY HostsKnown DEF OthersStay
<1>2. FilesInv'
  BY <1>1 DEF Inv, FilesInv, FileOK
<1>3. TableInv'
  <2>1. \A k \in HostFDs : file'[k] \notin {Closed, Other} =>
          \/ \E a \in AppFDs : fds'[a] # None /\ fds'[a].host = k
          \/ \E u \in Threads : pc'[u] = "created" /\ at'[u].host = k
    BY <1>1 DEF Inv, TableInv
  <2>2. \A a \in AppFDs : fds'[a] # None => RightType(fds'[a], file'[fds'[a].host])
    BY <1>1, HostsKnown, NobodyNamesFree DEF Inv, TableInv
  <2>3. \A u \in Threads : pc'[u] = "created" => InHand(at'[u], file'[at'[u].host])
    BY <1>1, HostsKnown, NobodyNamesFree DEF Inv, TableInv, InHand, SocketOK
  <2>4. /\ \A u, v \in Threads : pc'[u] = "created" /\ pc'[v] = "created" /\ at'[u].host = at'[v].host => u = v
        /\ \A a \in AppFDs, u \in Threads : fds'[a] # None /\ pc'[u] = "created" => fds'[a].host # at'[u].host
    BY <1>1, NobodyNamesFree DEF Inv, TableInv
  <2> QED
    BY <2>1, <2>2, <2>3, <2>4 DEF Inv, TableInv
<1> QED
  BY <1>2, <1>3 DEF Inv

LEMMA InsertKeepsTable ==
  ASSUME Inv, CallInv', NEW t \in Threads, InsertNewHostSocketFDToTable(t)
  PROVE  Inv'
<1> DEFINE new == Min(FreeAppFDs)
<1>1. /\ pc[t] = "created" /\ FreeAppFDs # {} /\ file' = file
      /\ fds' = [fds EXCEPT ![new] = at[t]]
      /\ \E c, err, hosterr, val : Gives(t, c, err, hosterr, val)
  BY DEF InsertNewHostSocketFDToTable, Return
<1>2. OthersStay(t) /\ pc'[t] = "idle"
  BY <1>1, GivesEffect DEF Inv, CallInv, Shape, ThreadShape
<1>3. new \in AppFDs /\ fds[new] = None
  BY <1>1, FreeNumbers DEF Inv, CallInv
<1> HIDE DEF new
<1>4. /\ fds'[new] = at[t] /\ \A a \in AppFDs \ {new} : fds'[a] = fds[a]
      /\ at[t] # None
      /\ \A u \in Threads \ {t} : pc'[u] = pc[u] /\ at'[u] = at[u]
  BY <1>1, <1>2, <1>3, GuestCallsAssumption DEF Inv, CallInv, Shape, CallOf, OthersStay
<1>5. TableInv'
  <2>1. \A h \in HostFDs : file'[h] \notin {Closed, Other} =>
          \/ \E a \in AppFDs : fds'[a] # None /\ fds'[a].host = h
          \/ \E u \in Threads : pc'[u] = "created" /\ at'[u].host = h
    BY <1>1, <1>3, <1>4 DEF Inv, TableInv
  <2>2. /\ \A a \in AppFDs : fds'[a] # None => RightType(fds'[a], file'[fds'[a].host])
        /\ \A u \in Threads : pc'[u] = "created" => InHand(at'[u], file'[at'[u].host])
    BY <1>1, <1>2, <1>3, <1>4 DEF Inv, TableInv, InHand
  <2>3. /\ \A a, b \in AppFDs : fds'[a] # None /\ fds'[b] # None /\ fds'[a].host = fds'[b].host => a = b
        /\ \A u, v \in Threads : pc'[u] = "created" /\ pc'[v] = "created" /\ at'[u].host = at'[v].host => u = v
        /\ \A a \in AppFDs, u \in Threads : fds'[a] # None /\ pc'[u] = "created" => fds'[a].host # at'[u].host
    BY <1>1, <1>2, <1>3, <1>4 DEF Inv, TableInv
  <2> QED
    BY <2>1, <2>2, <2>3 DEF TableInv, Closed, Other
<1> QED
  BY <1>1, <1>5 DEF Inv, FilesInv, FileOK, Closed, Other

LEMMA RollbackKeepsTable ==
  ASSUME Inv, CallInv', NEW t \in Threads, InsertFails(t)
  PROVE  Inv'
<1>1. /\ pc[t] = "created" /\ fds' = fds
      /\ file' = [file EXCEPT ![at[t].host] = Closed]
      /\ \E c, err, hosterr, val : Gives(t, c, err, hosterr, val)
  BY DEF InsertFails, RolledBack, Return
<1>2. OthersStay(t) /\ pc'[t] = "idle"
  BY <1>1, GivesEffect DEF Inv, CallInv, Shape, ThreadShape
<1> DEFINE h == at[t].host
<1>3. /\ h \in HostFDs /\ file'[h] = Closed /\ \A k \in HostFDs \ {h} : file'[k] = file[k]
      /\ \A u \in Threads \ {t} : pc'[u] = pc[u] /\ at'[u] = at[u]
      /\ \A a \in AppFDs : fds[a] # None => fds[a].host # h
      /\ \A u \in Threads \ {t} : pc[u] = "created" => at[u].host # h
  BY <1>1, <1>2, HostsKnown DEF OthersStay, Inv, TableInv
<1> HIDE DEF h
<1>4. FilesInv'
  BY <1>3 DEF Inv, FilesInv, FileOK, Closed, Other
<1>5. TableInv'
  <2>1. \A k \in HostFDs : file'[k] \notin {Closed, Other} =>
          \/ \E a \in AppFDs : fds'[a] # None /\ fds'[a].host = k
          \/ \E u \in Threads : pc'[u] = "created" /\ at'[u].host = k
    <3> SUFFICES ASSUME NEW k \in HostFDs, file'[k] \notin {Closed, Other}
                 PROVE  \/ \E a \in AppFDs : fds'[a] # None /\ fds'[a].host = k
                        \/ \E u \in Threads : pc'[u] = "created" /\ at'[u].host = k
      BY DEF Closed, Other
    <3>1. k # h /\ file[k] \notin {Closed, Other}
      BY <1>3
    <3> QED
      BY <1>1, <1>3, <3>1 DEF Inv, TableInv, h
  <2>2. /\ \A a \in AppFDs : fds'[a] # None => RightType(fds'[a], file'[fds'[a].host])
        /\ \A u \in Threads : pc'[u] = "created" => InHand(at'[u], file'[at'[u].host])
    BY <1>1, <1>2, <1>3, HostsKnown DEF Inv, TableInv
  <2>3. /\ \A a, b \in AppFDs : fds'[a] # None /\ fds'[b] # None /\ fds'[a].host = fds'[b].host => a = b
        /\ \A u, v \in Threads : pc'[u] = "created" /\ pc'[v] = "created" /\ at'[u].host = at'[v].host => u = v
        /\ \A a \in AppFDs, u \in Threads : fds'[a] # None /\ pc'[u] = "created" => fds'[a].host # at'[u].host
    BY <1>1, <1>2, <1>3 DEF Inv, TableInv
  <2> QED
    BY <2>1, <2>2, <2>3 DEF TableInv, Closed, Other
<1> QED
  BY <1>4, <1>5 DEF Inv

LEMMA CloseKeepsTable ==
  ASSUME Inv, CallInv', NEW a \in AppFDs, fds[a] # None, CloseApp(a), UNCHANGED <<pc, at>>
  PROVE  Inv'
<1> DEFINE h == fds[a].host
<1>1. /\ h \in HostFDs /\ file'[h] = Closed /\ \A k \in HostFDs \ {h} : file'[k] = file[k]
      /\ fds'[a] = None /\ \A b \in AppFDs \ {a} : fds'[b] = fds[b]
  BY HostsKnown DEF CloseApp, Inv, CallInv, Shape
<1>2. /\ \A b \in AppFDs \ {a} : fds[b] # None => fds[b].host # h
      /\ \A u \in Threads : pc[u] = "created" => at[u].host # h
  BY DEF Inv, TableInv
<1>3. FilesInv'
  BY <1>1 DEF Inv, FilesInv, FileOK, Closed, Other
<1>4. TableInv'
  <2>1. \A k \in HostFDs : file'[k] \notin {Closed, Other} =>
          \/ \E b \in AppFDs : fds'[b] # None /\ fds'[b].host = k
          \/ \E u \in Threads : pc'[u] = "created" /\ at'[u].host = k
    <3> SUFFICES ASSUME NEW k \in HostFDs, file'[k] \notin {Closed, Other}
                 PROVE  \/ \E b \in AppFDs : fds'[b] # None /\ fds'[b].host = k
                        \/ \E u \in Threads : pc'[u] = "created" /\ at'[u].host = k
      BY DEF Closed, Other
    <3>1. k # h /\ file[k] \notin {Closed, Other}
      BY <1>1
    <3> QED
      BY <1>1, <3>1 DEF Inv, TableInv
  <2>2. /\ \A b \in AppFDs : fds'[b] # None => RightType(fds'[b], file'[fds'[b].host])
        /\ \A u \in Threads : pc'[u] = "created" => InHand(at'[u], file'[at'[u].host])
    BY <1>1, <1>2, HostsKnown DEF Inv, TableInv
  <2>3. /\ \A b, c \in AppFDs : fds'[b] # None /\ fds'[c] # None /\ fds'[b].host = fds'[c].host => b = c
        /\ \A u, v \in Threads : pc'[u] = "created" /\ pc'[v] = "created" /\ at'[u].host = at'[v].host => u = v
        /\ \A b \in AppFDs, u \in Threads : fds'[b] # None /\ pc'[u] = "created" => fds'[b].host # at'[u].host
    BY <1>1 DEF Inv, TableInv
  <2> QED
    BY <2>1, <2>2, <2>3 DEF TableInv, Closed, Other
<1> QED
  BY <1>3, <1>4 DEF Inv

LEMMA HostProgramKeepsTable ==
  ASSUME Inv, CallInv', OtherOpens \/ OtherCloses
  PROVE  Inv'
<1>1. PICK h \in HostFDs, g \in {Closed, Other} :
        file[h] \in {Closed, Other} /\ file' = [file EXCEPT ![h] = g]
  <2>1. CASE OtherOpens
    BY <2>1, FreeNumbers DEF OtherOpens, Inv, CallInv
  <2>2. CASE OtherCloses
    BY <2>2 DEF OtherCloses
  <2> QED
    BY <2>1, <2>2
<1>2. UNCHANGED <<fds, pc, at>>
  BY DEF OtherOpens, OtherCloses, thread
<1>3. /\ file'[h] \in {Closed, Other} /\ \A k \in HostFDs \ {h} : file'[k] = file[k]
      /\ \A a \in AppFDs : fds[a] # None => fds[a].host # h
      /\ \A t \in Threads : pc[t] = "created" => at[t].host # h
  BY <1>1, HostsKnown, NobodyNamesFree
<1>4. FilesInv'
  BY <1>3 DEF Inv, FilesInv, FileOK, Closed, Other
<1>5. TableInv'
  <2>1. \A k \in HostFDs : file'[k] \notin {Closed, Other} => file[k] \notin {Closed, Other}
    BY <1>3
  <2>2. \A k \in HostFDs : file'[k] \notin {Closed, Other} =>
          \/ \E a \in AppFDs : fds'[a] # None /\ fds'[a].host = k
          \/ \E u \in Threads : pc'[u] = "created" /\ at'[u].host = k
    BY <1>2, <2>1 DEF Inv, TableInv
  <2>3. /\ \A a \in AppFDs : fds'[a] # None => RightType(fds'[a], file'[fds'[a].host])
        /\ \A u \in Threads : pc'[u] = "created" => InHand(at'[u], file'[at'[u].host])
    BY <1>2, <1>3, HostsKnown DEF Inv, TableInv
  <2> QED
    BY <1>2, <2>2, <2>3 DEF Inv, TableInv, Closed, Other
<1> QED
  BY <1>4, <1>5 DEF Inv

LEMMA DestroyKeepsTable ==
  ASSUME Inv, CallInv', CollectFDs \/ CloseNext \/ Deinstantiate
  PROVE  Inv'
<1>1. UNCHANGED <<prog, pc, call, at, got>>
  BY DEF CollectFDs, CloseNext, Deinstantiate, thread
<1>2. CASE UNCHANGED <<fds, file>>
  BY <1>1, <1>2, InsideKeepsTable
<1>3. CASE CloseNext /\ ~UNCHANGED <<fds, file>>
  <2> DEFINE a == Min(doomed)
  <2>1. a \in AppFDs
    <3>1. doomed \in SUBSET Nat /\ doomed # {} /\ doomed \subseteq AppFDs
      BY <1>3, GuestCallsAssumption DEF CloseNext, Inv, CallInv, PhaseInv
    <3> QED
      BY <3>1, MinIsIn
  <2>2. fds[a] # None /\ CloseApp(a)
    BY <1>3 DEF CloseNext
  <2> QED
    BY <1>1, <2>1, <2>2, CloseKeepsTable
<1> QED
  BY <1>2, <1>3 DEF CollectFDs, Deinstantiate

LEMMA SockOpenKeepsTable ==
  ASSUME Inv, CallInv', NEW t \in Threads, SockOpen(t)
  PROVE  Inv'
<1>1. PICK c \in prog.calls[t] :
        /\ Begins(t, "SockOpen", c) /\ UNCHANGED <<prog, fds, locks, phase, doomed>>
        /\ \/ Ends(t) /\ UNCHANGED file
           \/ /\ FreeHostFDs # {} /\ SockOpenError(c.domain, c.type, c.protocol) = "0"
              /\ \E unbound : file' = [file EXCEPT ![NewHostFD] =
                     Socket(HostSockType(c.type), "NONBLOCK" \in c.type, unbound, None, None, None)]
              /\ Enter(t, c, "created", [host |-> NewHostFD, type |-> HostSockType(c.type)])
  BY DEF SockOpen, Ends
<1>2. pc[t] = "idle"
  BY <1>1 DEF Begins
<1>3. ThreadShape
  BY DEF Inv, CallInv, Shape, ThreadShape
<1>4. CASE Ends(t) /\ UNCHANGED file
  <2>1. OthersStay(t) /\ pc'[t] = "idle"
    BY <1>3, <1>4, GivesEffect DEF Ends
  <2> QED
    BY <1>1, <1>2, <1>4, <2>1, InsideKeepsTable DEF OthersStay
<1>5. CASE /\ FreeHostFDs # {} /\ SockOpenError(c.domain, c.type, c.protocol) = "0"
           /\ \E unbound : file' = [file EXCEPT ![NewHostFD] =
                  Socket(HostSockType(c.type), "NONBLOCK" \in c.type, unbound, None, None, None)]
           /\ Enter(t, c, "created", [host |-> NewHostFD, type |-> HostSockType(c.type)])
  <2>1. PICK unbound : file' = [file EXCEPT ![NewHostFD] =
                  Socket(HostSockType(c.type), "NONBLOCK" \in c.type, unbound, None, None, None)]
    BY <1>5
  <2> DEFINE g == Socket(HostSockType(c.type), "NONBLOCK" \in c.type, unbound, None, None, None)
             e == [host |-> NewHostFD, type |-> HostSockType(c.type)]
  <2>2. HostSockType(c.type) \in {"STREAM", "DGRAM"}
    BY <1>5 DEF SockOpenError, HostSockType
  <2>3. Fresh(g) /\ WellNamed(g) /\ RightType(e, g)
    BY <2>2 DEF Fresh, WellNamed, RightType, Socket, SocketFields
  <2>4. SocketOK(g)
    BY <2>3, FreshIsOK
  <2>5. OthersStay(t) /\ pc'[t] = "created" /\ at'[t] = e
    BY <1>3, <1>5 DEF Enter, ThreadShape, OthersStay
  <2>6. NewHostFD \in HostFDs /\ file[NewHostFD] = Closed
    BY <1>5, FreeNumbers DEF Inv, CallInv
  <2>7. at'[t].host = NewHostFD
    BY <2>5
  <2> HIDE DEF g, e
  <2>8. file' = [file EXCEPT ![NewHostFD] = g]
    BY <2>1 DEF g
  <2> QED
    BY <1>1, <1>2, <2>3, <2>4, <2>5, <2>6, <2>7, <2>8, OpenKeepsTable
<1> QED
  BY <1>1, <1>4, <1>5

LEMMA AcceptKeepsTable ==
  ASSUME Inv, CallInv', NEW t \in Threads, pc[t] = "resolved", fds' = fds, Accepts(t)
  PROVE  Inv'
<1> DEFINE f == Target(t)
           raced == f.raced \/ fds[call[t].fd] # at[t]
           h == NewHostFD
           e == [host |-> h, type |-> at[t].type]
<1>1. PICK peer \in prog.peers :
        file' = [file EXCEPT ![h] = [Socket(f.type, FALSE, f.name, KernelAddr(peer), f.bound, peer) EXCEPT !.raced = raced]]
  BY DEF Accepts
<1> DEFINE g == [Socket(f.type, FALSE, f.name, KernelAddr(peer), f.bound, peer) EXCEPT !.raced = raced]
<1>2. at[t] \in Entries /\ at[t].host \in HostFDs /\ call[t].op = "SockAccept" /\ call[t].fd \in AppFDs
  <2>1. at[t] \in Entries /\ call[t].op = "SockAccept" /\ ValidCall(call[t])
    BY InCall DEF Accepts, Inv, CallInv, CallOf
  <2> QED
    BY <2>1 DEF ValidCall, OnDescriptor, Entries
<1>3. SocketOK(f)
  BY <1>2, IsSocket DEF Accepts, Inv, FilesInv, Target
<1>4. IsGuestAddr(peer) /\ KernelAddr(peer) = WasiAppSockAddrToHostSockAddr(peer)
  <2>1. IsGuestAddr(peer)
    BY ProgramStarts DEF Inv, CallInv, Shape
  <2> QED
    BY <2>1, AddressRoundTrip
<1>5. /\ DOMAIN g = SocketFields /\ g.kind = "socket" /\ g.type = f.type /\ g.raced = raced
      /\ g.name = f.name /\ g.bound = f.bound /\ g.peer = KernelAddr(peer) /\ g.dialled = peer
      /\ g.rx = <<>> /\ g.read = <<>> /\ g.sent = 0 /\ g.asked = <<>>
  BY DEF Socket, SocketFields
<1>6. fds[call[t].fd] = at[t] => f.raced \/ at[t].type = f.type
  <2>1. at[t] # None
    BY <1>2, GuestCallsAssumption
  <2>2. f.kind = "socket"
    BY <1>3 DEF SocketOK
  <2> QED
    BY <1>2, <2>1, <2>2 DEF Inv, TableInv, RightType, Target
<1>7. h \in HostFDs /\ file[h] = Closed
  BY FreeNumbers DEF Accepts, Inv, CallInv
<1>8. /\ pc'[t] = "created" /\ at'[t] = e /\ OthersStay(t)
  BY DEF Accepts, OthersStay, Inv, CallInv, Shape
<1> HIDE DEF g
<1>9. SocketOK(g)
  <2>1. Fresh(g) /\ WellNamed(g)
    BY <1>3, <1>4, <1>5 DEF Fresh, WellNamed, SocketOK
  <2> QED
    BY <2>1, FreshIsOK
<1>10. RightType(at'[t], g) /\ at'[t].host = h
  <2>1. raced \/ at[t].type = f.type
    BY <1>6
  <2> HIDE DEF raced
  <2> QED
    BY <1>5, <1>8, <2>1 DEF RightType
<1>11. file' = [file EXCEPT ![h] = g]
  BY <1>1 DEF g
<1> HIDE DEF h
<1> QED
  BY <1>7, <1>8, <1>9, <1>10, <1>11, OpenKeepsTable

LEMMA EndsKeepTable ==
  ASSUME Inv, CallInv', NEW t \in Threads, pc[t] # "created", Ends(t), fds' = fds, UNCHANGED file \/ SocketStep
  PROVE  Inv'
<1>1. OthersStay(t) /\ pc'[t] = "idle"
  BY GivesEffect DEF Ends, Inv, CallInv, Shape, ThreadShape
<1> QED
  BY <1>1, InsideKeepsTable DEF OthersStay

LEMMA EnterKeepsTable ==
  ASSUME Inv, CallInv', NEW t \in Threads, pc[t] = "idle", NEW c, NEW where \in {"resolved", "polling", "spawning", "invoked"}, NEW found,
         Enter(t, c, where, found), fds' = fds, UNCHANGED file
  PROVE  Inv'
<1>1. OthersStay(t) /\ pc'[t] = where
  BY DEF Enter, OthersStay, Inv, CallInv, Shape
<1> QED
  BY <1>1, InsideKeepsTable DEF OthersStay

LEMMA CallKeepsTable ==
  ASSUME Inv, CallInv', NEW t \in Threads,
         \/ GetHostFDByAppFD(t) \/ PollOneOff(t) \/ PollReturns(t) \/ SockGetIfAddrs(t)
         \/ ProcessSpawn(t) \/ SpawnLookup(t) \/ SpawnChild(t)
         \/ WasiExtSyscall(t) \/ GuestWritesArgs(t) \/ DoSyscall(t)
  PROVE  Inv'
<1>1. UNCHANGED <<fds, file>>
  BY DEF GetHostFDByAppFD, PollOneOff, PollReturns, SockGetIfAddrs, ProcessSpawn, SpawnLookup, SpawnChild, WasiExtSyscall,
         GuestWritesArgs, DoSyscall
<1>2. CASE GetHostFDByAppFD(t)
  <2>1. pc[t] = "idle" /\ (Ends(t) \/ \E c, found : Enter(t, c, "resolved", found))
    BY <1>2 DEF GetHostFDByAppFD, Begins, Ends
  <2> QED
    BY <1>1, <2>1, EndsKeepTable, EnterKeepsTable
<1>3. CASE PollOneOff(t)
  <2>1. pc[t] = "idle" /\ (Ends(t) \/ \E c, found : Enter(t, c, "polling", found))
    BY <1>3 DEF PollOneOff, Begins, Ends
  <2> QED
    BY <1>1, <2>1, EndsKeepTable, EnterKeepsTable
<1>4. CASE ProcessSpawn(t)
  <2>1. pc[t] = "idle" /\ \E c, found : Enter(t, c, "spawning", found)
    BY <1>4 DEF ProcessSpawn, Begins
  <2> QED
    BY <1>1, <2>1, EnterKeepsTable
<1>5. CASE PollReturns(t) \/ SockGetIfAddrs(t) \/ SpawnChild(t) \/ DoSyscall(t)
  <2>1. pc[t] # "created" /\ Ends(t)
    BY <1>5 DEF PollReturns, SockGetIfAddrs, SpawnChild, DoSyscall, Begins, Return, HostError, Ends
  <2> QED
    BY <1>1, <2>1, EndsKeepTable
<1>6. CASE SpawnLookup(t) \/ GuestWritesArgs(t)
  <2>1. /\ pc[t] # "created"
        /\ \/ Ends(t)
           \/ pc' = pc /\ \A u \in Threads \ {t} : at'[u] = at[u]
    BY <1>6 DEF SpawnLookup, GuestWritesArgs, Return, Ends, Inv, CallInv, Shape
  <2>2. CASE pc' = pc /\ \A u \in Threads \ {t} : at'[u] = at[u]
    BY <1>1, <2>1, <2>2, InsideKeepsTable
  <2> QED
    BY <1>1, <2>1, <2>2, EndsKeepTable
<1>7. CASE WasiExtSyscall(t)
  <2>1. pc[t] = "idle" /\ (Ends(t) \/ \E c, found : Enter(t, c, "invoked", found))
    BY <1>7 DEF WasiExtSyscall, Begins, Ends
  <2> QED
    BY <1>1, <2>1, EndsKeepTable, EnterKeepsTable
<1> QED
  BY <1>2, <1>3, <1>4, <1>5, <1>6, <1>7

LEMMA InvHolds ==
  /\ Init => Inv
  /\ Inv /\ [Next]_vars => Inv'
<1>1. ASSUME Init
      PROVE  Inv
  <2>1. CallInv
    BY <1>1, CallInvHolds
  <2>2. FilesInv
    <3>1. \A h \in HostFDs : InitialFile(file[h])
      BY <1>1, ProgramStarts DEF Init
    <3>2. ASSUME NEW f, InitialFile(f)
          PROVE  FileOK(f)
      <4>1. CASE /\ f = [Socket(f.type, f.nonblock, f.name, f.peer, None, None) EXCEPT !.listening = f.listening]
                 /\ f.type \in {"STREAM", "DGRAM"}
        <5>1. Fresh(f) /\ WellNamed(f)
          BY <4>1 DEF Fresh, WellNamed, Socket, SocketFields
        <5> QED
          BY <5>1, FreshIsOK DEF FileOK
      <4> QED
        BY <3>2, <4>1 DEF InitialFile, FileOK
    <3> QED
      BY <3>1, <3>2 DEF FilesInv
  <2>3. TableInv
    BY <1>1, ProgramStarts DEF Init, TableInv
  <2> QED
    BY <2>1, <2>2, <2>3 DEF Inv
<1>2. ASSUME Inv, Next, CallInv'
      PROVE  Inv'
  <2>1. ASSUME NEW t \in Threads, FDClose(t)
        PROVE  Inv'
    <3>1. PICK c \in prog.calls[t] :
            Begins(t, "fd_close", c) /\ fds[c.fd] # None /\ CloseApp(c.fd) /\ UNCHANGED <<pc, at>>
      BY <2>1 DEF FDClose
    <3>2. c.fd \in AppFDs
      BY <1>2, <3>1, BeginsEffect DEF ValidCall, Inv
    <3> QED
      BY <1>2, <3>1, <3>2, CloseKeepsTable
  <2>2. ASSUME NEW t \in Threads, Handler(t)
        PROVE  Inv'
    <3>1. pc[t] = "resolved" /\ fds' = fds
      BY <2>2, HandlerEnds
    <3>2. (Ends(t) /\ (UNCHANGED file \/ SocketStep)) \/ Accepts(t)
      BY <1>2, <2>2, HandlerFiles DEF Inv
    <3> QED
      BY <1>2, <3>1, <3>2, EndsKeepTable, AcceptKeepsTable
  <2>3. CASE PeerActs \/ OtherLocks
    <3>1. UNCHANGED <<fds, pc, at>> /\ (UNCHANGED file \/ SocketStep)
      BY <1>2, <2>3, PeerWorksOnSocket DEF PeerActs, OtherLocks, thread, Inv
    <3> QED
      BY <1>2, <3>1, InsideKeepsTable
  <2> QED
    BY <1>2, <2>1, <2>2, <2>3, CallKeepsTable, SockOpenKeepsTable, InsertKeepsTable, RollbackKeepsTable,
       HostProgramKeepsTable, DestroyKeepsTable DEF Next
<1>3. ASSUME Inv, UNCHANGED vars, CallInv'
      PROVE  Inv'
  BY <1>3, InsideKeepsTable DEF vars
<1>4. Inv /\ [Next]_vars => CallInv'
  BY CallInvHolds DEF Inv
<1> QED
  BY <1>1, <1>2, <1>3, <1>4

\* No descriptor of the guest is lost or named twice, whatever its threads, the
\* host program and destroy do at the same time: each open one is named by one
\* entry of its type or is about to be, and after destroy none is open, unless
\* a destructor of the guest has started a thread.
THEOREM TableOwnsDescriptors == Spec => []TableOwnsHostFDs
<1>1. ASSUME Inv
      PROVE  TableOwnsHostFDs
  <2>1. ASSUME NEW h \in HostFDs, file[h] \notin {Closed, Other}
        PROVE  Cardinality({a \in AppFDs : fds[a] # None /\ fds[a].host = h}) + Cardinality(Holders(h)) = 1
    <3> DEFINE named == {a \in AppFDs : fds[a] # None /\ fds[a].host = h}
    <3>1. CASE \E a \in AppFDs : fds[a] # None /\ fds[a].host = h
      <4>1. PICK a \in AppFDs : fds[a] # None /\ fds[a].host = h
        BY <3>1
      <4>2. named = {a} /\ Holders(h) = {}
        BY <1>1, <4>1 DEF Inv, TableInv, Holders
      <4>3. Cardinality(named) = 1 /\ Cardinality(Holders(h)) = 0
        BY <4>2, FS_Singleton, FS_EmptySet
      <4> QED
        BY <4>3
    <3>2. CASE \E t \in Threads : pc[t] = "created" /\ at[t].host = h
      <4>1. PICK t \in Threads : pc[t] = "created" /\ at[t].host = h
        BY <3>2
      <4>2. named = {} /\ Holders(h) = {t}
        BY <1>1, <4>1 DEF Inv, TableInv, Holders
      <4>3. Cardinality(named) = 0 /\ Cardinality(Holders(h)) = 1
        BY <4>2, FS_Singleton, FS_EmptySet
      <4> QED
        BY <4>3
    <3> QED
      BY <1>1, <2>1, <3>1, <3>2 DEF Inv, TableInv
  <2>2. ASSUME phase = "freed", ~prog.dtorThreads, NEW h \in HostFDs
        PROVE  file[h] \in {Closed, Other}
    <3>1. (\A t \in Threads : pc[t] = "idle") /\ \A a \in AppFDs : fds[a] = None
      BY <1>1, <2>2 DEF Inv, CallInv, PhaseInv, MayRun
    <3> QED
      BY <1>1, <3>1 DEF Inv, TableInv
  <2> QED
    BY <1>1, <2>1, <2>2 DEF TableOwnsHostFDs, Inv, TableInv
<1> QED
  BY <1>1, InvHolds, PTL DEF Spec

-----------------------------------------------------------------------------
(* What calls give.                                                          *)

\* The answer g of a call keeps the meaning of errors, addresses, options,
\* short reads and locks.
ErrorKept(g) ==
    g.host # "0" => /\ g.err # "0"
                    /\ g.host \in {"EAGAIN", "EINPROGRESS", "EINTR", "EBADF"} => g.err = g.host

AddressKept(g) ==
    g.val # None =>
        /\ g.call.op \in {"SockAccept", "SockGetSockName", "SockGetPeerName", "SockRecvMsg"}
              => ("meant" \in DOMAIN g.val /\ g.val.meant # None => g.val.addr = g.val.meant)
        /\ g.call.op = "SockSendMsg" => g.val.sentTo = KernelAddr(g.call.addr)

OptionKept(g) ==
    g.err = "0" /\ g.call.op = "SockGetOpt" =>
        /\ "asked" \in DOMAIN g.val /\ g.call.opt \in DOMAIN g.val.asked => g.val.opt = g.val.asked[g.call.opt]
        /\ "pending" \in DOMAIN g.val => (g.val.pending = "0") = (g.val.opt = "0")

ReadKept(g) ==
    g.err = "0" /\ g.call.op = "SockRecvMsg" /\ "WAITALL" \in g.call.flags /\ "size" \in DOMAIN g.val =>
        g.val.size = g.call.count \/ g.val.ended \/ g.val.nonblock

LockKept(g) ==
    g.call.op = "FDFcntl" /\ g.val # None =>
        CASE g.val.other = "F_WRLCK" -> g.val.lock = 1
          [] g.val.other = "F_RDLCK" -> g.val.lock = (IF g.call.type = 1 THEN 0 ELSE 2)
          [] OTHER -> g.val.lock = 2

Kept(g) == g # None => ErrorKept(g) /\ AddressKept(g) /\ OptionKept(g) /\ ReadKept(g) /\ LockKept(g)

Answers == \A t \in Threads : Kept(got[t])

\* Thread t's call ends, with an answer that keeps it.
EndsWell(t) ==
    \E c, err, hosterr, val :
        /\ Gives(t, c, err, hosterr, val)
        /\ Kept([call |-> c, err |-> err, host |-> hosterr, val |-> val, stale |-> stale[t]])

\* A step of thread t leaves what the others were given, and what it gives keeps it.
AnswersStep(t) ==
    \/ UNCHANGED got
    \/ EndsWell(t)
    \/ \E c, where, found : Enter(t, c, where, found)

LEMMA AnswersStepKeeps ==
  ASSUME CallInv, Answers, NEW t \in Threads, AnswersStep(t)
  PROVE  Answers'
<1>1. CASE EndsWell(t)
  <2>1. PICK c, err, hosterr, val :
          /\ Gives(t, c, err, hosterr, val)
          /\ Kept([call |-> c, err |-> err, host |-> hosterr, val |-> val, stale |-> stale[t]])
    BY <1>1 DEF EndsWell
  <2> DEFINE g == [call |-> c, err |-> err, host |-> hosterr, val |-> val, stale |-> stale[t]]
  <2>2. OthersStay(t) /\ got'[t] = g
    <3>1. ThreadShape
      BY DEF CallInv, Shape, ThreadShape
    <3> QED
      BY <2>1, <3>1, GivesEffect
  <2>3. Kept(g)
    BY <2>1
  <2> HIDE DEF g
  <2>4. \A u \in Threads : Kept(got'[u])
    BY <2>2, <2>3 DEF Answers, OthersStay
  <2> QED
    BY <2>4 DEF Answers
<1>2. CASE \E c, where, found : Enter(t, c, where, found)
  <2>1. \A u \in Threads : got'[u] = None \/ got'[u] = got[u]
    BY <1>2 DEF Enter, CallInv, Shape
  <2>2. \A u \in Threads : Kept(got'[u])
    BY <2>1 DEF Answers, Kept
  <2> QED
    BY <2>2 DEF Answers
<1> QED
  BY <1>1, <1>2 DEF AnswersStep, Answers

\* A failure has no value.
LEMMA FailureEndsWell ==
  ASSUME NEW t \in Threads, NEW c, NEW err, NEW hosterr, Gives(t, c, err, hosterr, None), err # "0",
         hosterr # "0" => err = ConvertErrnoToWasiErrno(hosterr)
  PROVE  EndsWell(t)
<1> DEFINE g == [call |-> c, err |-> err, host |-> hosterr, val |-> None, stale |-> stale[t]]
<1>1. g.call = c /\ g.err = err /\ g.host = hosterr /\ g.val = None
  OBVIOUS
<1> HIDE DEF g
<1>2. Kept(g)
  BY <1>1, ErrnoSurvives DEF Kept, ErrorKept, AddressKept, OptionKept, ReadKept, LockKept
<1> QED
  BY <1>2 DEF EndsWell, g

LEMMA HostErrorEndsWell ==
  ASSUME NEW t \in Threads, NEW e, HostError(t, e), e # "0"
  PROVE  EndsWell(t)
<1>1. Gives(t, call[t], ConvertErrnoToWasiErrno(e), e, None)
  BY DEF HostError
<1>2. ConvertErrnoToWasiErrno(e) # "0"
  BY ErrnoSurvives
<1> QED
  BY <1>1, <1>2, FailureEndsWell

\* Nothing more is asked of the other calls.
LEMMA OthersEndWell ==
  ASSUME NEW t \in Threads, NEW c, NEW val, Gives(t, c, "0", "0", val),
         c.op \notin {"SockAccept", "SockGetSockName", "SockGetPeerName", "SockRecvMsg", "SockSendMsg", "SockGetOpt", "FDFcntl"}
  PROVE  EndsWell(t)
<1> DEFINE g == [call |-> c, err |-> "0", host |-> "0", val |-> val, stale |-> stale[t]]
<1>1. g.call = c /\ g.host = "0"
  OBVIOUS
<1> HIDE DEF g
<1>2. Kept(g)
  BY <1>1 DEF Kept, ErrorKept, AddressKept, OptionKept, ReadKept, LockKept
<1> QED
  BY <1>2 DEF EndsWell, g

\* The address of a socket, from the host.
LEMMA AddressEndsWell ==
  ASSUME NEW t \in Threads, NEW c, NEW val, Gives(t, c, "0", "0", val),
         c.op \in {"SockAccept", "SockGetSockName", "SockGetPeerName", "SockRecvMsg"},
         "size" \notin DOMAIN val, val.meant # None => val.addr = val.meant
  PROVE  EndsWell(t)
<1> DEFINE g == [call |-> c, err |-> "0", host |-> "0", val |-> val, stale |-> stale[t]]
<1>1. g.call = c /\ g.host = "0" /\ g.val = val
  OBVIOUS
<1> HIDE DEF g
<1>2. Kept(g)
  BY <1>1 DEF Kept, ErrorKept, AddressKept, OptionKept, ReadKept, LockKept
<1> QED
  BY <1>2 DEF EndsWell, g

\* In the table and before: the errors found without the host.
LEMMA LookupAnswers ==
  ASSUME CallInv, NEW t \in Threads, GetHostFDByAppFD(t) \/ SockOpen(t)
  PROVE  AnswersStep(t)
<1>1. \E c \in prog.calls[t] :
        \/ \E err : Gives(t, c, err, "0", None) /\ err # "0"
        \/ Gives(t, c, "EMFILE", "EMFILE", None)
        \/ \E where, found : Enter(t, c, where, found)
  <2>1. CASE GetHostFDByAppFD(t)
    <3>1. PICK c \in prog.calls[t] :
            \/ Gives(t, c, ArgError(c), "0", None) /\ ArgError(c) # "0"
            \/ Gives(t, c, "EBADF", "0", None)
            \/ Enter(t, c, "resolved", fds[c.fd])
      BY <2>1 DEF GetHostFDByAppFD
    <3> QED
      BY <3>1
  <2>2. CASE SockOpen(t)
    <3>1. PICK c \in prog.calls[t] :
            \/ /\ Gives(t, c, SockOpenError(c.domain, c.type, c.protocol), "0", None)
               /\ SockOpenError(c.domain, c.type, c.protocol) # "0"
            \/ Gives(t, c, "EMFILE", "EMFILE", None)
            \/ Enter(t, c, "created", [host |-> NewHostFD, type |-> HostSockType(c.type)])
      BY <2>2 DEF SockOpen
    <3> QED
      BY <3>1
  <2> QED
    BY <2>1, <2>2
<1>2. ASSUME NEW c, Gives(t, c, "EMFILE", "EMFILE", None)
      PROVE  EndsWell(t)
  <2>1. ConvertErrnoToWasiErrno("EMFILE") = "EMFILE"
    BY DEF ConvertErrnoToWasiErrno, SameName
  <2> QED
    BY <1>2, <2>1, FailureEndsWell
<1>3. ASSUME NEW c, NEW err, Gives(t, c, err, "0", None), err # "0"
      PROVE  EndsWell(t)
  BY <1>3, FailureEndsWell
<1> QED
  BY <1>1, <1>2, <1>3 DEF AnswersStep

LEMMA InsertAnswers ==
  ASSUME Inv, NEW t \in Threads, InsertNewHostSocketFDToTable(t) \/ InsertFails(t)
  PROVE  AnswersStep(t)
<1>1. pc[t] = "created"
  BY DEF InsertNewHostSocketFDToTable, InsertFails
<1>2. call[t].op \in {"SockOpen", "SockAccept"} /\ at[t].host \in HostFDs
  BY <1>1 DEF Inv, CallInv, CallOf, Entries
<1>3. CASE InsertFails(t)
  BY <1>3, FailureEndsWell DEF InsertFails, Return, AnswersStep
<1>4. CASE InsertNewHostSocketFDToTable(t) /\ call[t].op = "SockOpen"
  <2>1. Gives(t, call[t], "0", "0", [fd |-> Min(FreeAppFDs)])
    BY <1>4 DEF InsertNewHostSocketFDToTable, Return
  <2> QED
    BY <1>4, <2>1, OthersEndWell DEF AnswersStep
<1>5. CASE InsertNewHostSocketFDToTable(t) /\ call[t].op = "SockAccept"
  <2> DEFINE f == file[at[t].host]
             val == [fd |-> Min(FreeAppFDs), addr |-> HostSockAddrToWasiAppSockAddr(f.peer), meant |-> f.dialled]
  <2>1. Gives(t, call[t], "0", "0", val)
    BY <1>5 DEF InsertNewHostSocketFDToTable, Return
  <2>2. SocketOK(f)
    BY <1>1, <1>2, IsSocket DEF Inv, TableInv, InHand, FilesInv
  <2>3. f.dialled # None => HostSockAddrToWasiAppSockAddr(f.peer) = f.dialled
    BY <2>2, AddressRoundTrip DEF SocketOK, WellNamed
  <2>4. "size" \notin DOMAIN val /\ (val.meant # None => val.addr = val.meant)
    BY <2>3
  <2> HIDE DEF val
  <2> QED
    BY <1>5, <2>1, <2>4, AddressEndsWell DEF AnswersStep
<1> QED
  BY <1>2, <1>3, <1>4, <1>5

\* The handlers that give nothing but an error.
LEMMA PlainAnswers ==
  ASSUME CallInv, NEW t \in Threads,
         SockBind(t) \/ SockConnect(t) \/ SockListen(t) \/ SockShutdown(t) \/ SockSetOpt(t) \/ FDStatVFS(t)
  PROVE  AnswersStep(t)
<1>1. /\ call[t].op \in {"SockBind", "SockConnect", "SockListen", "SockShutdown", "SockSetOpt", "FDStatVFS"}
      /\ \/ Gives(t, call[t], "0", "0", None)
         \/ \E e : HostError(t, e) /\ e # "0"
  BY DEF SockBind, SockConnect, SockListen, SockShutdown, SockSetOpt, FDStatVFS, OnSocket, Calls, Return
<1> QED
  BY <1>1, OthersEndWell, HostErrorEndsWell DEF AnswersStep

LEMMA FailAnswers ==
  ASSUME CallInv, NEW t \in Threads, HostFails(t) \/ SockAccept(t)
  PROVE  AnswersStep(t)
<1>1. "0" \notin prog.errors
  BY ProgramStarts DEF CallInv, Shape
<1>2. UNCHANGED got \/ \E e : HostError(t, e) /\ e # "0"
  <2>1. CASE HostFails(t)
    <3>1. HostError(t, "EBADF") \/ HostError(t, "ENOTSOCK") \/ \E e \in prog.errors : HostError(t, e)
      BY <2>1 DEF HostFails
    <3> QED
      BY <1>1, <3>1
  <2>2. CASE SockAccept(t)
    <3>1. HostError(t, "EINVAL") \/ HostError(t, "EMFILE") \/ HostError(t, "EAGAIN") \/ UNCHANGED got
      BY <2>2 DEF SockAccept
    <3> QED
      BY <3>1
  <2> QED
    BY <2>1, <2>2
<1> QED
  BY <1>2, HostErrorEndsWell DEF AnswersStep

LEMMA NameAnswers ==
  ASSUME CallInv, FilesInv, NEW t \in Threads, SockGetSockName(t) \/ SockGetPeerName(t)
  PROVE  AnswersStep(t)
<1> DEFINE f == Target(t)
<1>1. SocketOK(f) /\ call[t].op \in {"SockGetSockName", "SockGetPeerName"}
  BY TargetIsSocket DEF SockGetSockName, SockGetPeerName
<1>2. \/ HostError(t, "ENOTCONN")
      \/ Gives(t, call[t], "0", "0", [addr |-> HostSockAddrToWasiAppSockAddr(f.name), meant |-> f.bound])
      \/ Gives(t, call[t], "0", "0", [addr |-> HostSockAddrToWasiAppSockAddr(f.peer), meant |-> f.dialled])
  BY DEF SockGetSockName, SockGetPeerName, Return
<1>3. ASSUME NEW name, NEW meant, Gives(t, call[t], "0", "0", [addr |-> HostSockAddrToWasiAppSockAddr(name), meant |-> meant]),
             meant # None => IsGuestAddr(meant) /\ name = WasiAppSockAddrToHostSockAddr(meant)
      PROVE  AnswersStep(t)
  <2> DEFINE val == [addr |-> HostSockAddrToWasiAppSockAddr(name), meant |-> meant]
  <2>1. Gives(t, call[t], "0", "0", val)
    BY <1>3
  <2>2. meant # None => HostSockAddrToWasiAppSockAddr(name) = meant
    BY <1>3, AddressRoundTrip
  <2>3. "size" \notin DOMAIN val /\ (val.meant # None => val.addr = val.meant)
    BY <2>2
  <2> HIDE DEF val
  <2> QED
    BY <1>1, <2>1, <2>3, AddressEndsWell DEF AnswersStep
<1> QED
  BY <1>1, <1>2, <1>3, HostErrorEndsWell DEF AnswersStep, SocketOK, WellNamed

LEMMA RecvAnswers ==
  ASSUME CallInv, FilesInv, NEW t \in Threads, SockRecvMsg(t)
  PROVE  AnswersStep(t)
<1> DEFINE f == Target(t)
           flags == MapWasiSockMsgFlags(call[t].flags)
           n == Min({call[t].count, Len(f.rx)})
           ended == f.eof \/ "RD" \in f.shut
<1>1. call[t].op = "SockRecvMsg"
  BY DEF SockRecvMsg, OnSocket, Calls
<1>2. \/ \E peer \in prog.peers :
            Gives(t, call[t], "0", "0", [addr |-> HostSockAddrToWasiAppSockAddr(KernelAddr(peer)), meant |-> peer])
      \/ HostError(t, "EAGAIN")
      \/ /\ ended \/ n = call[t].count \/ f.nonblock \/ "WAITALL" \notin flags
         /\ Gives(t, call[t], "0", "0", [size |-> n, ended |-> ended, nonblock |-> f.nonblock])
  BY DEF SockRecvMsg, Return
<1>3. ASSUME NEW peer \in prog.peers,
             Gives(t, call[t], "0", "0", [addr |-> HostSockAddrToWasiAppSockAddr(KernelAddr(peer)), meant |-> peer])
      PROVE  EndsWell(t)
  <2> DEFINE val == [addr |-> HostSockAddrToWasiAppSockAddr(KernelAddr(peer)), meant |-> peer]
  <2>1. Gives(t, call[t], "0", "0", val)
    BY <1>3
  <2>2. IsGuestAddr(peer)
    BY ProgramStarts DEF CallInv, Shape
  <2>3. HostSockAddrToWasiAppSockAddr(KernelAddr(peer)) = peer
    BY <2>2, AddressRoundTrip
  <2>4. "size" \notin DOMAIN val /\ (val.meant # None => val.addr = val.meant)
    BY <2>3
  <2> HIDE DEF val
  <2> QED
    BY <1>1, <2>1, <2>4, AddressEndsWell
<1>4. ASSUME ended \/ n = call[t].count \/ f.nonblock \/ "WAITALL" \notin flags,
             Gives(t, call[t], "0", "0", [size |-> n, ended |-> ended, nonblock |-> f.nonblock])
      PROVE  EndsWell(t)
  <2> DEFINE val == [size |-> n, ended |-> ended, nonblock |-> f.nonblock]
             g == [call |-> call[t], err |-> "0", host |-> "0", val |-> val, stale |-> stale[t]]
  <2>1. /\ Gives(t, call[t], "0", "0", val)
        /\ g.call = call[t] /\ g.host = "0" /\ g.val = val
    BY <1>4
  <2>2. "meant" \notin DOMAIN val /\ val.size = n /\ val.ended = ended /\ val.nonblock = f.nonblock
    OBVIOUS
  <2>3. "WAITALL" \in call[t].flags => "WAITALL" \in flags
    BY DEF MapWasiSockMsgFlags
  <2> HIDE DEF val, g, n, ended, flags
  <2>4. Kept(g)
    BY <1>1, <1>4, <2>1, <2>2, <2>3 DEF Kept, ErrorKept, AddressKept, OptionKept, ReadKept, LockKept
  <2> QED
    BY <2>1, <2>4 DEF EndsWell, g
<1> QED
  BY <1>2, <1>3, <1>4, HostErrorEndsWell DEF AnswersStep

LEMMA SendAnswers ==
  ASSUME CallInv, NEW t \in Threads, SockSendMsg(t)
  PROVE  AnswersStep(t)
<1> DEFINE c == call[t]
           to == WasiAppSockAddrToHostSockAddr(c.addr)
<1>1. c.op = "SockSendMsg" /\ pc[t] = "resolved"
  BY DEF SockSendMsg, Calls
<1>2. \/ LateError(c) # "0" /\ Gives(t, c, LateError(c), "0", None)
      \/ Gives(t, c, "0", "0", None)
      \/ /\ LateError(c) = "0" /\ c.addr.family # "UNSPEC"
         /\ Gives(t, c, "0", "0", [sentTo |-> to])
  BY DEF SockSendMsg, Return
<1>3. ASSUME Gives(t, c, "0", "0", None)
      PROVE  EndsWell(t)
  <2> DEFINE g == [call |-> c, err |-> "0", host |-> "0", val |-> None, stale |-> stale[t]]
  <2>1. g.call = c /\ g.host = "0" /\ g.val = None
    OBVIOUS
  <2> HIDE DEF g
  <2>2. Kept(g)
    BY <1>1, <2>1 DEF Kept, ErrorKept, AddressKept, OptionKept, ReadKept, LockKept
  <2> QED
    BY <1>3, <2>2 DEF EndsWell, g
<1>4. ASSUME LateError(c) = "0", c.addr.family # "UNSPEC", Gives(t, c, "0", "0", [sentTo |-> to])
      PROVE  EndsWell(t)
  <2> DEFINE val == [sentTo |-> to]
             g == [call |-> c, err |-> "0", host |-> "0", val |-> val, stale |-> stale[t]]
  <2>1. /\ Gives(t, c, "0", "0", val)
        /\ g.call = c /\ g.host = "0" /\ g.val = val /\ val.sentTo = to
    BY <1>4
  <2>2. IsGuestAddr(c.addr)
    BY <1>1, <1>4, InCall DEF LateError, ValidCall
  <2>3. to = KernelAddr(c.addr)
    BY <2>2, AddressRoundTrip
  <2> HIDE DEF val, g, to
  <2>4. Kept(g)
    BY <1>1, <2>1, <2>3 DEF Kept, ErrorKept, AddressKept, OptionKept, ReadKept, LockKept
  <2> QED
    BY <2>1, <2>4 DEF EndsWell, g
<1> QED
  BY <1>2, <1>3, <1>4, FailureEndsWell DEF AnswersStep

LEMMA OptAnswers ==
  ASSUME CallInv, FilesInv, NEW t \in Threads, SockGetOpt(t)
  PROVE  AnswersStep(t)
<1> DEFINE c == call[t]
           f == Target(t)
           name == HostOptName(c.opt)
           opt == IF name \in DOMAIN f.opts THEN f.opts[name] ELSE 0
<1>1. c.op = "SockGetOpt" /\ pc[t] = "resolved"
  BY DEF SockGetOpt, Calls
<1>2. \E len :
        \/ Gives(t, c, "0", "0", [len |-> len, opt |-> at[t].type])
        \/ Gives(t, c, "0", "0", [len |-> len, opt |-> ConvertErrnoToWasiErrno(f.err), pending |-> f.err])
        \/ f.kind = "socket" /\ Gives(t, c, "0", "0", [len |-> len, opt |-> opt, asked |-> f.asked])
  BY DEF SockGetOpt, Return, MapWasiSockOpt
<1>3. ASSUME NEW val, Gives(t, c, "0", "0", val), OptionKept([call |-> c, err |-> "0", host |-> "0", val |-> val, stale |-> stale[t]])
      PROVE  EndsWell(t)
  <2> DEFINE g == [call |-> c, err |-> "0", host |-> "0", val |-> val, stale |-> stale[t]]
  <2>1. g.call = c /\ g.host = "0" /\ OptionKept(g)
    BY <1>3
  <2> HIDE DEF g
  <2>2. Kept(g)
    BY <1>1, <2>1 DEF Kept, ErrorKept, AddressKept, ReadKept, LockKept
  <2> QED
    BY <1>3, <2>2 DEF EndsWell, g
<1>4. ASSUME NEW len, Gives(t, c, "0", "0", [len |-> len, opt |-> at[t].type])
      PROVE  EndsWell(t)
  BY <1>3, <1>4 DEF OptionKept
<1>5. ASSUME NEW len, Gives(t, c, "0", "0", [len |-> len, opt |-> ConvertErrnoToWasiErrno(f.err), pending |-> f.err])
      PROVE  EndsWell(t)
  BY <1>3, <1>5, ErrnoSurvives DEF OptionKept
<1>6. ASSUME NEW len, f.kind = "socket", Gives(t, c, "0", "0", [len |-> len, opt |-> opt, asked |-> f.asked])
      PROVE  EndsWell(t)
  <2>1. SocketOK(f)
    BY <1>1, <1>6, IsSocket DEF FilesInv, Target, CallInv, CallOf, Entries
  <2>2. c.opt \in DOMAIN f.asked => opt = f.asked[c.opt]
    BY <2>1 DEF SocketOK, WellSet
  <2> HIDE DEF opt
  <2> QED
    BY <1>3, <1>6, <2>2 DEF OptionKept
<1> QED
  BY <1>2, <1>4, <1>5, <1>6 DEF AnswersStep

LEMMA LockAnswers ==
  ASSUME CallInv, NEW t \in Threads, FDFcntl(t)
  PROVE  AnswersStep(t)
<1> DEFINE c == call[t]
           lock == HostLockType(c.type)
           found == AppLockType(IF LocksExclude(lock, otherLock) THEN otherLock ELSE "F_UNLCK")
<1>1. c.op = "FDFcntl"
  BY DEF FDFcntl, Calls
<1>2. \/ LateError(c) # "0" /\ Gives(t, c, LateError(c), "0", None)
      \/ HostError(t, "EINVAL") \/ HostError(t, "EAGAIN")
      \/ Gives(t, c, "0", "0", None)
      \/ /\ LateError(c) = "0" /\ lock # "F_UNLCK"
         /\ Gives(t, c, "0", "0", [lock |-> found, other |-> otherLock])
  BY DEF FDFcntl, Return
<1>3. ASSUME NEW val, Gives(t, c, "0", "0", val), LockKept([call |-> c, err |-> "0", host |-> "0", val |-> val, stale |-> stale[t]])
      PROVE  EndsWell(t)
  <2> DEFINE g == [call |-> c, err |-> "0", host |-> "0", val |-> val, stale |-> stale[t]]
  <2>1. g.call = c /\ g.host = "0" /\ LockKept(g)
    BY <1>3
  <2> HIDE DEF g
  <2>2. Kept(g)
    BY <1>1, <2>1 DEF Kept, ErrorKept, AddressKept, OptionKept, ReadKept
  <2> QED
    BY <1>3, <2>2 DEF EndsWell, g
<1>4. ASSUME Gives(t, c, "0", "0", None)
      PROVE  EndsWell(t)
  BY <1>3, <1>4 DEF LockKept
<1>5. ASSUME LateError(c) = "0", lock # "F_UNLCK", Gives(t, c, "0", "0", [lock |-> found, other |-> otherLock])
      PROVE  EndsWell(t)
  <2>1. \/ c.type = 0 /\ lock = "F_RDLCK"
        \/ c.type = 1 /\ lock = "F_WRLCK"
    BY <1>1, <1>5 DEF LateError, FcntlError, HostLockType
  <2>2. otherLock \in {"F_UNLCK", "F_RDLCK", "F_WRLCK"}
    BY DEF CallInv, LockInv
  <2>3. /\ otherLock = "F_WRLCK" => found = 1
        /\ otherLock = "F_RDLCK" => found = (IF c.type = 1 THEN 0 ELSE 2)
        /\ otherLock \notin {"F_WRLCK", "F_RDLCK"} => found = 2
    BY <2>1, <2>2 DEF AppLockType, LocksExclude
  <2> HIDE DEF found
  <2> QED
    BY <1>3, <1>5, <2>3 DEF LockKept
<1> QED
  BY <1>2, <1>4, <1>5, FailureEndsWell, HostErrorEndsWell DEF AnswersStep

\* The calls that nothing more is asked of.
LEMMA OtherAnswers ==
  ASSUME CallInv, NEW t \in Threads,
         \/ PollOneOff(t) \/ PollReturns(t) \/ SockGetIfAddrs(t)
         \/ ProcessSpawn(t) \/ SpawnLookup(t) \/ SpawnChild(t)
         \/ WasiExtSyscall(t) \/ GuestWritesArgs(t) \/ DoSyscall(t)
  PROVE  AnswersStep(t)
<1> DEFINE Ops == {"poll_oneoff", "SockGetIfAddrs", "ProcessSpawn", "syscall"}
<1>1. ASSUME NEW c, NEW val, c.op \in Ops, Gives(t, c, "0", "0", val)
      PROVE  AnswersStep(t)
  BY <1>1, OthersEndWell DEF AnswersStep
<1>2. ASSUME NEW c, NEW err, err # "0", Gives(t, c, err, "0", None)
      PROVE  AnswersStep(t)
  BY <1>2, FailureEndsWell DEF AnswersStep
<1>3. ASSUME NEW c, NEW e, e # "0", Gives(t, c, ConvertErrnoToWasiErrno(e), e, None)
      PROVE  AnswersStep(t)
  <2>1. ConvertErrnoToWasiErrno(e) # "0"
    BY <1>3, ErrnoSurvives
  <2> QED
    BY <1>3, <2>1, FailureEndsWell DEF AnswersStep
<1>4. ASSUME NEW c, NEW where, NEW found, Enter(t, c, where, found)
      PROVE  AnswersStep(t)
  BY <1>4 DEF AnswersStep
<1>5. \A e \in prog.errors : e # "0"
  BY ProgramStarts DEF CallInv, Shape
<1>6. CASE PollOneOff(t)
  <2>1. PICK c \in prog.calls[t] :
          /\ c.op = "poll_oneoff"
          /\ \/ Gives(t, c, "EFAULT", "0", None) \/ Gives(t, c, "EINVAL", "0", None)
             \/ \E val : Gives(t, c, "0", "0", val)
             \/ \E found : Enter(t, c, "polling", found)
    BY <1>6 DEF PollOneOff, Begins
  <2> QED
    BY <2>1, <1>1, <1>2, <1>4
<1>7. CASE PollReturns(t)
  <2>1. call[t].op = "poll_oneoff"
    BY <1>7 DEF PollReturns, CallInv, CallOf
  <2>2. \/ \E e \in prog.errors : Gives(t, call[t], ConvertErrnoToWasiErrno(e), e, None)
        \/ \E val : Gives(t, call[t], "0", "0", val)
    BY <1>7 DEF PollReturns, Return, HostError
  <2> QED
    BY <2>1, <2>2, <1>1, <1>3, <1>5
<1>8. CASE SockGetIfAddrs(t)
  <2>1. PICK c \in prog.calls[t] :
          /\ c.op = "SockGetIfAddrs"
          /\ \/ Gives(t, c, "EFAULT", "0", None) \/ Gives(t, c, "ENOMEM", "0", None)
             \/ \E e \in prog.errors : Gives(t, c, ConvertErrnoToWasiErrno(e), e, None)
             \/ \E val : Gives(t, c, "0", "0", val)
    BY <1>8 DEF SockGetIfAddrs, Begins
  <2> QED
    BY <2>1, <1>1, <1>2, <1>3, <1>5
<1>9. CASE ProcessSpawn(t)
  BY <1>4, <1>9 DEF ProcessSpawn
<1>10. CASE SpawnLookup(t)
  <2>1. Gives(t, call[t], "EBADF", "0", None) \/ UNCHANGED got
    BY <1>10 DEF SpawnLookup, Return
  <2> QED
    BY <2>1, <1>2 DEF AnswersStep
<1>11. CASE SpawnChild(t)
  <2>1. call[t].op = "ProcessSpawn"
    BY <1>11 DEF SpawnChild, CallInv, CallOf
  <2>2. \/ Gives(t, call[t], ConvertErrnoToWasiErrno("EBADF"), "EBADF", None)
        \/ \E val : Gives(t, call[t], "0", "0", val)
    BY <1>11 DEF SpawnChild, Return, HostError
  <2> QED
    BY <2>1, <2>2, <1>1, <1>3
<1>12. CASE WasiExtSyscall(t)
  <2>1. PICK c \in prog.calls[t] :
          \/ InvokeError(c.id, c.argv, c.args) # "0" /\ Gives(t, c, InvokeError(c.id, c.argv, c.args), "0", None)
          \/ \E found : Enter(t, c, "invoked", found)
    BY <1>12 DEF WasiExtSyscall
  <2> QED
    BY <2>1, <1>2, <1>4
<1>13. CASE GuestWritesArgs(t)
  BY <1>13 DEF GuestWritesArgs, AnswersStep
<1>14. CASE DoSyscall(t)
  <2>1. call[t].op = "syscall"
    BY <1>14 DEF DoSyscall, CallInv, CallOf
  <2>2. \E val : Gives(t, call[t], "0", "0", val)
    BY <1>14 DEF DoSyscall, Return
  <2> QED
    BY <2>1, <2>2, <1>1
<1> QED
  BY <1>6, <1>7, <1>8, <1>9, <1>10, <1>11, <1>12, <1>13, <1>14

LEMMA AnswersHold ==
  /\ Init => Answers
  /\ Inv /\ Answers /\ [Next]_vars => Answers'
<1>1. Init => Answers
  BY DEF Init, Answers, Kept
<1>2. ASSUME Inv, NEW t \in Threads, Handler(t)
      PROVE  AnswersStep(t)
  BY <1>2, PlainAnswers, FailAnswers, NameAnswers, RecvAnswers, SendAnswers, OptAnswers, LockAnswers DEF Handler, Inv
<1>3. ASSUME Inv, Answers, Next
      PROVE  Answers'
  <2>1. UNCHANGED got \/ \E t \in Threads : AnswersStep(t)
    <3>1. ASSUME NEW t \in Threads, FDClose(t)
          PROVE  UNCHANGED got
      BY <3>1 DEF FDClose
    <3>2. OtherOpens \/ OtherCloses \/ PeerActs \/ OtherLocks \/ CollectFDs \/ CloseNext \/ Deinstantiate => UNCHANGED got
      BY DEF OtherOpens, OtherCloses, PeerActs, OtherLocks, CollectFDs, CloseNext, Deinstantiate, thread
    <3> QED
      BY <1>2, <1>3, <3>1, <3>2, LookupAnswers, InsertAnswers, OtherAnswers DEF Next, Inv
  <2>2. CASE UNCHANGED got
    BY <1>3, <2>2 DEF Answers
  <2> QED
    BY <1>3, <2>1, <2>2, AnswersStepKeeps DEF Inv
<1>4. Answers /\ UNCHANGED vars => Answers'
  BY DEF vars, Answers
<1> QED
  BY <1>1, <1>3, <1>4

\* The host does what the guest asks: a stream's bytes are given in order and
\* once, a read that asks for all of them gets fewer only at the end, and a
\* lock the guest was told it has excludes those of other processes.
THEOREM HostIsAskedRight == Spec => []HostDoesAsAsked
<1>1. ASSUME Inv, Answers
      PROVE  HostDoesAsAsked
  <2>1. StreamIntact
    BY <1>1, IsSocket DEF StreamIntact, Inv, FilesInv, SocketOK, InOrder
  <2>2. ShortOnlyAtEnd
    BY <1>1 DEF ShortOnlyAtEnd, Answers, Kept, ReadKept
  <2>3. (granted = 1 => otherLock = "F_UNLCK") /\ (granted = 0 => otherLock # "F_WRLCK")
    BY <1>1 DEF Inv, CallInv, LockInv, LocksExclude
  <2>4. LockExcludes
    BY <1>1, <2>3 DEF LockExcludes, Answers, Kept, LockKept
  <2> QED
    BY <2>1, <2>2, <2>4 DEF HostDoesAsAsked
<1> QED
  BY <1>1, InvHolds, AnswersHold, PTL DEF Spec

\* The guest learns what the host says: addresses, errors and options mean to
\* it what they mean to the host.
THEOREM GuestIsTold == Spec => []GuestIsToldTheTruth
<1>1. Answers => GuestIsToldTheTruth
  <2> SUFFICES ASSUME Answers
               PROVE  GuestIsToldTheTruth
    OBVIOUS
  <2>1. AddressesSurvive
    BY DEF AddressesSurvive, Answers, Kept, AddressKept
  <2>2. ErrorsTruthful
    BY DEF ErrorsTruthful, Answers, Kept, ErrorKept
  <2>3. OptionsSeparate
    BY DEF OptionsSeparate, Answers, Kept, OptionKept
  <2> QED
    BY <2>1, <2>2, <2>3 DEF GuestIsToldTheTruth
<1> QED
  BY <1>1, InvHolds, AnswersHold, PTL DEF Spec

=============================================================================
