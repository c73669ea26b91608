-------------------------------- MODULE GuestCalls --------------------------------
(***************************************************************************)
(* The calls of guest threads into WasiSocketExt, WasiFSExt, the dispatch  *)
(* of `syscall' and the redirections of ProcessSpawn, on one table of app  *)
(* descriptors, until wamr_ext_instance_destroy closes what is left in it. *)
(* A call holds the lock of the table only while it looks a descriptor up: *)
(* the host's call comes after it, on a number.                            *)
(*                                                                         *)
(* uvwasi's table and the host's kernel are modelled from their use.       *)
(***************************************************************************)
EXTENDS HostMaps, PollOneOff, SyscallDispatch

CONSTANTS
    Threads,    \* the guest's threads
    AppFDs,     \* the slots of the table of app descriptors: 0..n
    HostFDs,    \* the descriptors of the host process: 0..n
    None,
    Programs    \* name -> what the guest and its surroundings may do

FileTypes == {"STREAM", "DGRAM", "REGULAR_FILE"}

\* The entries of the table.
Entries == [host : HostFDs, type : FileTypes]

ASSUME GuestCallsAssumption ==
    /\ AppFDs \cup HostFDs \subseteq Nat /\ StdFDs \subseteq AppFDs \cap HostFDs
    /\ None \notin HostFDs \cup Entries

VARIABLES
    prog,       \* the program that runs, one of Programs
    fds,        \* app descriptor -> [host, type], or None
    file,       \* host descriptor -> what it refers to
    pc,         \* thread -> where it is in its call
    call,       \* thread -> the call, None outside
    at,         \* thread -> what the call has looked up or created so far
    got,        \* thread -> what its last call gave it
    stale,      \* thread -> was a descriptor closed, or were its arguments written, during its call?
    ownLock,    \* the host process's record lock on the file
    otherLock,  \* another process's
    granted,    \* the lock the guest was told it has, as it asked for it
    phase,      \* of destroy: "running", "closing", "freed"
    doomed      \* what is left of destroy's appFDs

vars == <<prog, fds, file, pc, call, at, got, stale, ownLock, otherLock, granted, phase, doomed>>
locks == <<ownLock, otherLock, granted>>
thread == <<pc, call, at, got, stale>>

Closed == [kind |-> "closed"]
Other == [kind |-> "other"]                  \* of the host program
File(name) == [kind |-> "file", name |-> name]

\* A socket of the guest.  The last six are history: the guest's own address
\* and its peer's as each of them named it, the options the guest set, the
\* number of bytes its peer sent, those it was given to keep, and whether an
\* accept made it, or the socket it comes from, on a number that no longer stood
\* for what the call had looked up.
Socket(type, nonblock, name, peer, bound, dialled) ==
    [kind |-> "socket", type |-> type, nonblock |-> nonblock, name |-> name, peer |-> peer,
     listening |-> FALSE, opts |-> <<>>, err |-> "0", rx |-> <<>>, eof |-> FALSE, shut |-> {},
     bound |-> bound, dialled |-> dialled, asked |-> <<>>, sent |-> 0, read |-> <<>>, raced |-> FALSE]

\* A peer's address in its kernel, from there in this host's.
KernelAddr(a) ==
    [field \in (DOMAIN a \ {"family"}) \cup {"sa_family"} |->
        IF field = "sa_family" THEN HostFamily(a.family) ELSE a[field]]

\* The calls on a descriptor that they look up first.
OnDescriptor == {"SockBind", "SockConnect", "SockListen", "SockAccept", "SockGetSockName", "SockGetPeerName",
                 "SockShutdown", "SockGetOpt", "SockSetOpt", "SockRecvMsg", "SockSendMsg", "FDFcntl", "FDStatVFS"}

\* A program's addresses are of the families the library knows or are refused,
\* its calls name slots of the table, and the table it starts with names each
\* of its host descriptors once, none of them the host's own 0, 1 and 2.
\* getifaddrs(3) gives an interface one AF_PACKET entry at most.
IsGuestAddr(a) ==
    \/ a = [family |-> "INET", addr |-> a.addr, port |-> a.port]
    \/ a = [family |-> "INET6", addr |-> a.addr, port |-> a.port, flowinfo |-> a.flowinfo, scope_id |-> a.scope_id]

ValidCall(c) ==
    /\ c # None
    /\ c.op \in {"SockBind", "SockConnect", "SockSendMsg"} /\ AddressError(c.addr) = "0" => IsGuestAddr(c.addr)
    /\ c.op \in OnDescriptor \cup {"fd_close"} => c.fd \in AppFDs
    /\ c.op = "SockRecvMsg" => c.count \in Nat
    /\ c.op = "poll_oneoff" => c.subs \in Seq(Subscriptions(AppFDs))
    /\ c.op = "ProcessSpawn" => c.actions \in Seq([dest : Int, src : AppFDs])

ValidInterfaces(list) ==
    /\ Len(list) \in Nat /\ DOMAIN list = 1..Len(list)
    /\ \A i \in DOMAIN list : list[i].name \in Nat
    /\ \A i, j \in DOMAIN list :
          list[i].family = "AF_PACKET" /\ list[j].family = "AF_PACKET" /\ list[i].name = list[j].name => i = j

InitialFile(f) ==
    \/ f \in {Closed, Other}
    \/ f.kind = "file"
    \/ /\ f = [Socket(f.type, f.nonblock, f.name, f.peer, None, None) EXCEPT !.listening = f.listening]
       /\ f.type \in {"STREAM", "DGRAM"}

\* The type of an entry is that of what it names.  (That of an accepted socket
\* is not if the guest closed the listening one during the call and another
\* descriptor took its number.)
RightType(entry, f) ==
    IF f.kind = "socket" THEN f.raced \/ entry.type = f.type ELSE f.kind = "file" /\ entry.type = "REGULAR_FILE"

ASSUME ProgramsAssumption ==
    \A name \in DOMAIN Programs :
        LET p == Programs[name]
            names(a, h) == p.fds[a] # None /\ p.fds[a].host = h
        IN /\ \A t \in Threads : \A c \in p.calls[t] : ValidCall(c)
           /\ \A a \in p.peers : IsGuestAddr(a)
           /\ "0" \notin p.errors
           /\ p.times \subseteq 0..Forever /\ p.conditions \subseteq {"POLLHUP", "POLLERR"}
           /\ \A list \in p.interfaces : ValidInterfaces(list)
           /\ p.fds \in [AppFDs -> Entries \cup {None}]
           /\ p.file = [h \in HostFDs |-> p.file[h]] /\ \A h \in HostFDs : InitialFile(p.file[h])
           /\ \A h \in StdFDs : p.file[h] = Other
           /\ \A h \in HostFDs : p.file[h] \notin {Closed, Other} => \E a \in AppFDs : names(a, h)
           /\ \A h \in HostFDs, a, b \in AppFDs : names(a, h) /\ names(b, h) => a = b
           /\ \A a \in AppFDs : p.fds[a] # None => RightType(p.fds[a], p.file[p.fds[a].host])

HostOf == [a \in AppFDs |-> IF fds[a] = None THEN INVALID_SOCKET ELSE fds[a].host]

FreeHostFDs == {h \in HostFDs : file[h] = Closed}
FreeAppFDs == {a \in AppFDs : fds[a] = None}

TypeOK ==
    /\ prog \in {Programs[name] : name \in DOMAIN Programs}
    /\ \A a \in AppFDs : fds[a] # None => fds[a].host \in HostFDs
    /\ DOMAIN file = HostFDs
    /\ pc \in [Threads -> {"idle", "resolved", "created", "polling", "spawning", "invoked"}]
    /\ \A t \in Threads : (pc[t] = "idle") = (call[t] = None)
    /\ stale \in [Threads -> BOOLEAN]
    /\ {ownLock, otherLock} \subseteq {"F_UNLCK", "F_RDLCK", "F_WRLCK"}
    /\ granted \in 0..2 /\ phase \in {"running", "closing", "freed"}
    /\ doomed \subseteq AppFDs

Init ==
    /\ prog \in {Programs[name] : name \in DOMAIN Programs}
    /\ fds = prog.fds /\ file = prog.file
    /\ pc = [t \in Threads |-> "idle"]
    /\ call = [t \in Threads |-> None] /\ at = [t \in Threads |-> None]
    /\ got = [t \in Threads |-> None] /\ stale = [t \in Threads |-> FALSE]
    /\ ownLock = "F_UNLCK" /\ otherLock = "F_UNLCK" /\ granted = 2
    /\ phase = "running" /\ doomed = {}

-----------------------------------------------------------------------------
(* The frame of a call.                                                      *)

\* Thread t may begin call c.  When destroy closes descriptors, only a thread
\* that a destructor of the guest has started is there to do so.
Begins(t, op, c) ==
    /\ phase = "running" \/ (phase = "closing" /\ prog.dtorThreads)
    /\ pc[t] = "idle" /\ (prog.once => got[t] = None)
    /\ c \in prog.calls[t] /\ c.op = op

Enter(t, c, where, found) ==
    /\ pc' = [pc EXCEPT ![t] = where] /\ call' = [call EXCEPT ![t] = c]
    /\ at' = [at EXCEPT ![t] = found] /\ got' = [got EXCEPT ![t] = None]
    /\ stale' = [stale EXCEPT ![t] = FALSE]

\* A descriptor is closed: what the calls under way have looked up may be wrong.
AllStale == stale' = [t \in Threads |-> stale[t] \/ pc[t] # "idle"]

\* The call c ends with err; hosterr is the errno of the host's call.
Gives(t, c, err, hosterr, val) ==
    /\ pc' = [pc EXCEPT ![t] = "idle"] /\ call' = [call EXCEPT ![t] = None]
    /\ at' = [at EXCEPT ![t] = None]
    /\ got' = [got EXCEPT ![t] = [call |-> c, err |-> err, host |-> hosterr, val |-> val, stale |-> stale[t]]]
    /\ stale' = [stale EXCEPT ![t] = FALSE]

Return(t, err, val) == Gives(t, call[t], err, "0", val)
HostError(t, e) == Gives(t, call[t], ConvertErrnoToWasiErrno(e), e, None)

\* The errors found before the descriptor is looked up.
ArgError(c) ==
    IF c.op \in {"SockRecvMsg", "SockSendMsg"} /\ c.count = 0 THEN "EINVAL"
    ELSE IF c.op # "FDFcntl" /\ c.fault THEN "EFAULT"
    ELSE IF c.op \in {"SockBind", "SockConnect"} THEN AddressError(c.addr)
    ELSE IF c.op = "SockShutdown" /\ HostShutdownHow(c.how) = {} THEN "EINVAL"
    ELSE IF c.op \notin {"SockGetOpt", "SockSetOpt"} THEN "0"
    ELSE IF MapWasiSockOpt(c.opt).err # "0" THEN MapWasiSockOpt(c.opt).err
    ELSE IF c.op = "SockSetOpt" /\ c.len < OptSize(MapWasiSockOpt(c.opt).name) THEN "EINVAL"
    ELSE "0"

\* The checks of the arguments, then GetHostFDByAppFD.
GetHostFDByAppFD(t) ==
    \E op \in OnDescriptor, c \in prog.calls[t] :
        /\ Begins(t, op, c)
        /\ IF ArgError(c) # "0" THEN Gives(t, c, ArgError(c), "0", None)
           ELSE IF fds[c.fd] = None THEN Gives(t, c, "EBADF", "0", None)
           ELSE Enter(t, c, "resolved", fds[c.fd])
        /\ UNCHANGED <<prog, fds, file, locks, phase, doomed>>

\* uvwasi_fd_close: the entry and the host descriptor go together.
CloseApp(a) ==
    /\ fds' = [fds EXCEPT ![a] = None]
    /\ file' = [file EXCEPT ![fds[a].host] = Closed]
    /\ IF file[fds[a].host].kind = "file"
       THEN ownLock' = "F_UNLCK" /\ granted' = 2 ELSE UNCHANGED <<ownLock, granted>>
    /\ UNCHANGED otherLock

FDClose(t) ==
    \E c \in prog.calls[t] :
        /\ Begins(t, "fd_close", c) /\ fds[c.fd] # None
        /\ CloseApp(c.fd)
        /\ AllStale
        /\ UNCHANGED <<prog, pc, call, at, got, phase, doomed>>

-----------------------------------------------------------------------------
(* Sockets.                                                                  *)

\* A new host descriptor gets the lowest free number.
NewHostFD == Min(FreeHostFDs)

SockOpen(t) ==
    \E c \in prog.calls[t] :
        /\ Begins(t, "SockOpen", c)
        /\ LET err == SockOpenError(c.domain, c.type, c.protocol)
               unbound == [sa_family |-> HostFamily(c.domain), addr |-> 0, port |-> 0,
                           flowinfo |-> 0, scope_id |-> 0]
           IN IF err # "0" THEN Gives(t, c, err, "0", None) /\ UNCHANGED file
              ELSE IF FreeHostFDs = {} THEN Gives(t, c, "EMFILE", "EMFILE", None) /\ UNCHANGED file
              ELSE /\ file' = [file EXCEPT ![NewHostFD] =
                                 Socket(HostSockType(c.type), "NONBLOCK" \in c.type, unbound, None, None, None)]
                   /\ Enter(t, c, "created", [host |-> NewHostFD, type |-> HostSockType(c.type)])
        /\ UNCHANGED <<prog, fds, locks, phase, doomed>>

\* InsertNewHostSocketFDToTable, in the first free slot.  SockAccept gives the
\* address of the peer after it.
InsertNewHostSocketFDToTable(t) ==
    /\ pc[t] = "created" /\ FreeAppFDs # {}
    /\ LET new == Min(FreeAppFDs) IN
       /\ fds' = [fds EXCEPT ![new] = at[t]]
       /\ Return(t, "0", IF call[t].op = "SockOpen" THEN [fd |-> new]
                         ELSE [fd |-> new, addr |-> HostSockAddrToWasiAppSockAddr(file[at[t].host].peer),
                               meant |-> file[at[t].host].dialled])
    /\ UNCHANGED <<prog, file, locks, phase, doomed>>

\* Mutant: the host's socket stays open when the table takes no entry.
KeepOpen(h) == file

RolledBack(h) == [file EXCEPT ![h] = Closed]

\* The table has no slot and no memory for more.
InsertFails(t) ==
    /\ pc[t] = "created" /\ prog.tableFull
    /\ file' = RolledBack(at[t].host)
    /\ Return(t, "ENOMEM", None)
    /\ UNCHANGED <<prog, fds, locks, phase, doomed>>

\* Thread t is about to call the host for op on what its descriptor is now.
Calls(t, op) == pc[t] = "resolved" /\ call[t].op = op
Target(t) == file[at[t].host]
Sets(t, s) == file' = [file EXCEPT ![at[t].host] = s]
OnSocket(t, op) == Calls(t, op) /\ Target(t).kind = "socket" /\ UNCHANGED <<prog, fds, locks, phase, doomed>>

\* SockGetOpt takes SO_TYPE from the table, FDStatVFS the path.
AsksHost(c) == ~(c.op = "FDStatVFS" \/ (c.op = "SockGetOpt" /\ MapWasiSockOpt(c.opt).name = "SO_TYPE"))

\* The errors found between the lookup and the host's call.
LateError(c) ==
    IF c.op = "FDFcntl" THEN FcntlError(c.cmd, c.fault, c.type, c.whence)
    ELSE IF c.op = "SockSendMsg" /\ c.addr.family # "UNSPEC" THEN AddressError(c.addr) ELSE "0"

\* The number is not what the call needs (any more), or the host fails.
HostFails(t) ==
    /\ pc[t] = "resolved" /\ AsksHost(call[t]) /\ LateError(call[t]) = "0"
    /\ \/ Target(t) = Closed /\ HostError(t, "EBADF")
       \/ Target(t).kind \in {"file", "other"} /\ call[t].op # "FDFcntl" /\ HostError(t, "ENOTSOCK")
       \/ Target(t) # Closed /\ \E e \in prog.errors : HostError(t, e)
    /\ UNCHANGED <<prog, fds, file, locks, phase, doomed>>

SockBind(t) ==
    /\ OnSocket(t, "SockBind")
    /\ Sets(t, [Target(t) EXCEPT !.name = WasiAppSockAddrToHostSockAddr(call[t].addr), !.bound = call[t].addr])
    /\ Return(t, "0", None)

SockConnect(t) ==
    /\ OnSocket(t, "SockConnect")
    /\ Sets(t, [Target(t) EXCEPT !.peer = WasiAppSockAddrToHostSockAddr(call[t].addr), !.dialled = call[t].addr])
    /\ IF Target(t).nonblock /\ Target(t).type = "STREAM" THEN HostError(t, "EINPROGRESS") ELSE Return(t, "0", None)

SockListen(t) ==
    /\ OnSocket(t, "SockListen")
    /\ Sets(t, [Target(t) EXCEPT !.listening = TRUE])
    /\ Return(t, "0", None)

\* accept(): the kernel makes the new socket, which the table gets later, with
\* the type of the entry that was looked up.
SockAccept(t) ==
    /\ OnSocket(t, "SockAccept")
    /\ \/ ~Target(t).listening /\ HostError(t, "EINVAL") /\ UNCHANGED file
       \/ Target(t).listening /\ FreeHostFDs = {} /\ HostError(t, "EMFILE") /\ UNCHANGED file
       \/ Target(t).listening /\ Target(t).nonblock /\ HostError(t, "EAGAIN") /\ UNCHANGED file
       \/ /\ Target(t).listening /\ FreeHostFDs # {}
          /\ \E peer \in prog.peers :
                file' = [file EXCEPT ![NewHostFD] =
                            [Socket(Target(t).type, FALSE, Target(t).name, KernelAddr(peer), Target(t).bound, peer)
                                EXCEPT !.raced = Target(t).raced \/ fds[call[t].fd] # at[t]]]
          /\ pc' = [pc EXCEPT ![t] = "created"]
          /\ at' = [at EXCEPT ![t] = [host |-> NewHostFD, type |-> at[t].type]]
          /\ UNCHANGED <<call, got, stale>>

SockGetSockName(t) ==
    /\ OnSocket(t, "SockGetSockName") /\ UNCHANGED file
    /\ Return(t, "0", [addr |-> HostSockAddrToWasiAppSockAddr(Target(t).name), meant |-> Target(t).bound])

SockGetPeerName(t) ==
    /\ OnSocket(t, "SockGetPeerName") /\ UNCHANGED file
    /\ IF Target(t).peer = None THEN HostError(t, "ENOTCONN")
       ELSE Return(t, "0", [addr |-> HostSockAddrToWasiAppSockAddr(Target(t).peer), meant |-> Target(t).dialled])

SockShutdown(t) ==
    /\ OnSocket(t, "SockShutdown")
    /\ Sets(t, [Target(t) EXCEPT !.shut = @ \cup HostShutdownHow(call[t].how)])
    /\ Return(t, "0", None)

\* The value of an option nobody has set is 0.
SockGetOpt(t) ==
    /\ Calls(t, "SockGetOpt")
    /\ LET name == MapWasiSockOpt(call[t].opt).name
           len == Min({call[t].len, OptSize(name)})
       IN \/ /\ name = "SO_TYPE"
             /\ Return(t, "0", [len |-> len, opt |-> at[t].type]) /\ UNCHANGED file
          \/ /\ name = "SO_ERROR" /\ Target(t).kind = "socket"
             /\ Sets(t, [Target(t) EXCEPT !.err = "0"])
             /\ Return(t, "0", [len |-> len, opt |-> ConvertErrnoToWasiErrno(Target(t).err), pending |-> Target(t).err])
          \/ /\ name \notin {"SO_TYPE", "SO_ERROR"} /\ Target(t).kind = "socket"
             /\ Return(t, "0", [len |-> len, opt |-> IF name \in DOMAIN Target(t).opts THEN Target(t).opts[name] ELSE 0,
                                asked |-> Target(t).asked])
             /\ UNCHANGED file
    /\ UNCHANGED <<prog, fds, locks, phase, doomed>>

\* Function f with v for k.
Put(f, k, v) == [x \in DOMAIN f \cup {k} |-> IF x = k THEN v ELSE f[x]]

SockSetOpt(t) ==
    /\ OnSocket(t, "SockSetOpt")
    /\ LET name == MapWasiSockOpt(call[t].opt).name IN
       IF name \in {"SO_TYPE", "SO_ERROR"} THEN HostError(t, "ENOPROTOOPT") /\ UNCHANGED file
       ELSE /\ Sets(t, [Target(t) EXCEPT !.opts = Put(@, name, call[t].value),
                                    !.asked = Put(@, call[t].opt, call[t].value)])
            /\ Return(t, "0", None)

\* recvmsg().  A datagram comes with its sender's address; a stream blocks
\* until it has a byte, or with WAITALL all of them, unless nothing more comes.
SockRecvMsg(t) ==
    /\ OnSocket(t, "SockRecvMsg")
    /\ LET flags == MapWasiSockMsgFlags(call[t].flags)
           want == call[t].count
           n == Min({want, Len(Target(t).rx)})
           ended == Target(t).eof \/ "RD" \in Target(t).shut
           keeps == "PEEK" \notin call[t].flags
       IN \/ /\ Target(t).type = "DGRAM" /\ UNCHANGED file
             /\ \E peer \in prog.peers :
                   Return(t, "0", [addr |-> HostSockAddrToWasiAppSockAddr(KernelAddr(peer)), meant |-> peer])
          \/ /\ Target(t).type = "STREAM" /\ n = 0 /\ ~ended /\ Target(t).nonblock /\ UNCHANGED file
             /\ HostError(t, "EAGAIN")
          \/ /\ Target(t).type = "STREAM"
             /\ ended \/ n = want \/ (n > 0 /\ (Target(t).nonblock \/ "WAITALL" \notin flags))
             /\ Sets(t, [Target(t) EXCEPT !.rx = IF "PEEK" \in flags THEN @ ELSE SubSeq(@, n + 1, Len(@)),
                                     !.read = IF keeps THEN @ \o SubSeq(Target(t).rx, 1, n) ELSE @])
             /\ Return(t, "0", [size |-> n, ended |-> ended, nonblock |-> Target(t).nonblock])

\* The address is looked at after the descriptor.  (The host may also end the
\* process: no MSG_NOSIGNAL is passed, and nothing ignores SIGPIPE.)
SockSendMsg(t) ==
    /\ Calls(t, "SockSendMsg")
    /\ LET err == LateError(call[t]) IN
       \/ err # "0" /\ Return(t, err, None)
       \/ /\ err = "0" /\ Target(t).kind = "socket"
          /\ Return(t, "0", IF call[t].addr.family = "UNSPEC" THEN None
                            ELSE [sentTo |-> WasiAppSockAddrToHostSockAddr(call[t].addr)])
    /\ UNCHANGED <<prog, fds, file, locks, phase, doomed>>

-----------------------------------------------------------------------------
(* Files.                                                                    *)

LocksExclude(a, b) == a # "F_UNLCK" /\ b # "F_UNLCK" /\ "F_WRLCK" \in {a, b}

\* fcntl() on the record both processes use; the command and the lock are
\* read after the descriptor has been looked up.
FDFcntl(t) ==
    /\ Calls(t, "FDFcntl")
    /\ LET c == call[t]
           lock == HostLockType(c.type)
           blocked == LocksExclude(lock, otherLock)
           asks(cmds) == LateError(c) = "0" /\ Target(t).kind = "file" /\ c.cmd \in cmds
       IN \/ LateError(c) # "0" /\ Return(t, LateError(c), None) /\ UNCHANGED <<ownLock, granted>>
          \/ /\ asks({"F_GETLK"}) /\ UNCHANGED <<ownLock, granted>>
             /\ IF lock = "F_UNLCK" THEN HostError(t, "EINVAL")
                ELSE Return(t, "0", [lock |-> AppLockType(IF blocked THEN otherLock ELSE "F_UNLCK"),
                                     other |-> otherLock])
          \/ asks({"F_SETLK"}) /\ blocked /\ HostError(t, "EAGAIN") /\ UNCHANGED <<ownLock, granted>>
          \/ /\ asks({"F_SETLK", "F_SETLKW"}) /\ ~blocked
             /\ ownLock' = lock /\ granted' = c.type
             /\ Return(t, "0", None)
    /\ UNCHANGED <<prog, fds, file, otherLock, phase, doomed>>

\* statvfs() of the path that the table recorded, "<socket_n>" for a socket;
\* the path may no longer be there.
FDStatVFS(t) ==
    /\ Calls(t, "FDStatVFS")
    /\ \/ at[t].type = "REGULAR_FILE" /\ Return(t, "0", None)
       \/ HostError(t, "ENOENT")
    /\ UNCHANGED <<prog, fds, file, locks, phase, doomed>>

-----------------------------------------------------------------------------
(* poll_oneoff.                                                              *)

\* The subscriptions are read under the table's lock, at some time.  With no
\* descriptor among them the call sleeps.
PollOneOff(t) ==
    \E c \in prog.calls[t], now \in prog.times :
        /\ Begins(t, "poll_oneoff", c)
        /\ LET arr == PollArr(c.subs, HostOf)
               best == Timeout(c.subs, now)
               val(slept) == [events |-> ClockEvent(c.subs, best.sub), slept |-> slept, now |-> now]
           IN IF c.fault THEN Gives(t, c, "EFAULT", "0", None)
              ELSE IF c.subs = <<>> THEN Gives(t, c, "0", "0", [events |-> <<>>, slept |-> 0, now |-> now])
              ELSE IF ~SleepOnly(arr) THEN Enter(t, c, "polling", [arr |-> arr, best |-> best, now |-> now])
              ELSE IF best.sub = 0 THEN Gives(t, c, "EINVAL", "0", None)
              ELSE Gives(t, c, "0", "0", val(SleepTime(best.timeout)))
        /\ UNCHANGED <<prog, fds, file, locks, phase, doomed>>

\* What poll() may say of the i-th descriptor: POLLNVAL if it is closed now,
\* else what was asked for, and the two conditions nobody asks for.
Revents(t, i) ==
    IF at[t].arr[i] = INVALID_SOCKET THEN {{}}
    ELSE IF file[at[t].arr[i]] = Closed THEN {{"POLLNVAL"}}
    ELSE SUBSET ({IF call[t].subs[i].type = "FD_WRITE" THEN "POLLWRNORM" ELSE "POLLRDNORM"} \cup prog.conditions)

PollReturns(t) ==
    /\ pc[t] = "polling"
    /\ LET subs == call[t].subs
           slept == PollTimeout(at[t].best.timeout) * NsPerMs
           val(events, revents, time) ==
               [events |-> events, arr |-> at[t].arr, revents |-> revents, slept |-> time, now |-> at[t].now]
       IN \/ \E e \in prog.errors : HostError(t, e)
          \/ \E revents \in [DOMAIN subs -> UNION {Revents(t, i) : i \in DOMAIN subs}] :
                /\ \A i \in DOMAIN subs : revents[i] \in Revents(t, i)
                /\ IF \A i \in DOMAIN subs : revents[i] = {}
                   THEN Return(t, "0", val(ClockEvent(subs, at[t].best.sub), revents, slept))
                   ELSE Return(t, "0", val(ReadyEvents(subs, at[t].arr, revents), revents, 0))
    /\ UNCHANGED <<prog, fds, file, locks, phase, doomed>>

-----------------------------------------------------------------------------
(* Interfaces, processes and the dispatch.                                   *)

\* getifaddrs() may fail; the guest's malloc, called in between, may too.
SockGetIfAddrs(t) ==
    \E c \in prog.calls[t], list \in prog.interfaces :
        /\ Begins(t, "SockGetIfAddrs", c)
        /\ \/ c.fault /\ Gives(t, c, "EFAULT", "0", None)
           \/ ~c.fault /\ \E e \in prog.errors : Gives(t, c, ConvertErrnoToWasiErrno(e), e, None)
           \/ ~c.fault /\ list # <<>> /\ Gives(t, c, "ENOMEM", "0", None)
           \/ /\ ~c.fault
              /\ Gives(t, c, "0", "0", [cnt |-> IfAddrCount(list), ifaddrs |-> AppIfAddrs(list), list |-> list])
        /\ UNCHANGED <<prog, fds, file, locks, phase, doomed>>

\* ProcessSpawn looks descriptors up one by one, each under the lock: 0, 1
\* and 2, then the sources of the guest's requests.  own, history, is what the
\* guest's numbers stood for when the call began.
ProcessSpawn(t) ==
    \E c \in prog.calls[t] :
        /\ Begins(t, "ProcessSpawn", c)
        /\ Enter(t, c, "spawning", [host |-> <<>>, own |-> HostOf])
        /\ UNCHANGED <<prog, fds, file, locks, phase, doomed>>

Lookups(c) == <<0, 1, 2>> \o [i \in DOMAIN c.actions |-> c.actions[i].src]

SpawnLookup(t) ==
    /\ pc[t] = "spawning" /\ Len(at[t].host) < Len(Lookups(call[t]))
    /\ LET i == Len(at[t].host) + 1
           h == HostOf[Lookups(call[t])[i]]
       IN IF i > 3 /\ call[t].actions[i - 3].dest \in StdFDs /\ h = INVALID_SOCKET
          THEN Return(t, "EBADF", None)
          ELSE at' = [at EXCEPT ![t].host = Append(@, h)] /\ UNCHANGED <<pc, call, got, stale>>
    /\ UNCHANGED <<prog, fds, file, locks, phase, doomed>>

\* posix_spawn(): a descriptor closed meanwhile fails it.
SpawnChild(t) ==
    /\ pc[t] = "spawning" /\ Len(at[t].host) = Len(Lookups(call[t]))
    /\ LET found == at[t].host
           arr == dup2FDArr([fd \in StdFDs |-> found[fd + 1]],
                            [i \in DOMAIN call[t].actions |->
                                [dest |-> call[t].actions[i].dest, host |-> found[i + 3]]])
       IN IF \E fd \in StdFDs : arr[fd] # -1 /\ file[arr[fd]] = Closed THEN HostError(t, "EBADF")
          ELSE Return(t, "0", [std |-> ChildStd([h \in HostFDs |-> h], arr), own |-> at[t].own])
    /\ UNCHANGED <<prog, fds, file, locks, phase, doomed>>

\* The `syscall' import, up to the handler: Invoke checks the arguments and
\* translates addresses in the array itself, which is the guest's memory.
WasiExtSyscall(t) ==
    \E c \in prog.calls[t] :
        /\ Begins(t, "syscall", c)
        /\ LET err == InvokeError(c.id, c.argv, c.args) IN
           IF err # "0" THEN Gives(t, c, err, "0", None)
           ELSE Enter(t, c, "invoked", [argv |-> InvokedArgs(c.id)])
        /\ UNCHANGED <<prog, fds, file, locks, phase, doomed>>

\* Another thread of the guest writes to the array.
GuestWritesArgs(t) ==
    /\ pc[t] = "invoked" /\ prog.writes
    /\ \E i \in DOMAIN at[t].argv : at' = [at EXCEPT ![t].argv[i] = "word"]
    /\ stale' = [stale EXCEPT ![t] = TRUE]
    /\ UNCHANGED <<prog, fds, file, pc, call, got, locks, phase, doomed>>

DoSyscall(t) ==
    /\ pc[t] = "invoked"
    /\ Return(t, "0", HandlerCall(call[t].id, at[t].argv))
    /\ UNCHANGED <<prog, fds, file, locks, phase, doomed>>

-----------------------------------------------------------------------------
(* The host's other work, the peers and another process.                     *)

OtherOpens ==
    /\ Cardinality({h \in HostFDs \ StdFDs : file[h] = Other}) < prog.others /\ FreeHostFDs # {}
    /\ file' = [file EXCEPT ![NewHostFD] = Other]
    /\ UNCHANGED <<prog, fds, thread, locks, phase, doomed>>

\* The host process keeps its own 0, 1 and 2.
OtherCloses ==
    /\ \E h \in HostFDs \ StdFDs : file[h] = Other /\ file' = [file EXCEPT ![h] = Closed]
    /\ UNCHANGED <<prog, fds, thread, locks, phase, doomed>>

\* A peer sends a byte, closes, or turns out not to be there.
PeerActs ==
    /\ \E h \in HostFDs : file[h].kind = "socket" /\ file[h].peer # None /\ ~file[h].eof
          /\ \/ /\ file[h].sent < prog.bytes
                /\ file' = [file EXCEPT ![h].sent = @ + 1, ![h].rx = Append(@, file[h].sent + 1)]
             \/ prog.bytes > 0 /\ file' = [file EXCEPT ![h].eof = TRUE]
             \/ \E e \in prog.pending : file[h].err = "0" /\ file' = [file EXCEPT ![h].err = e]
    /\ UNCHANGED <<prog, fds, thread, locks, phase, doomed>>

OtherLocks ==
    /\ prog.otherLocks
    /\ \E lock \in {"F_UNLCK", "F_RDLCK", "F_WRLCK"} :
          lock # otherLock /\ ~LocksExclude(lock, ownLock) /\ otherLock' = lock
    /\ UNCHANGED <<prog, fds, file, thread, ownLock, granted, phase, doomed>>

-----------------------------------------------------------------------------
(* wamr_ext_instance_destroy.                                                *)

\* Mutant: the calls of other threads are not waited for.
OneEnded == \E t \in Threads : pc[t] = "idle"

\* CleanupAppThreadInfo has joined the threads.
ThreadsEnded == \A t \in Threads : pc[t] = "idle"

\* The destructors that run after it may start threads, and nobody waits for
\* those.
CollectFDs ==
    /\ phase = "running" /\ prog.destroyed /\ (ThreadsEnded \/ prog.dtorThreads)
    /\ doomed' = {a \in AppFDs : fds[a] # None}
    /\ phase' = "closing"
    /\ UNCHANGED <<prog, fds, file, thread, locks>>

CloseNext ==
    /\ phase = "closing" /\ doomed # {}
    /\ LET a == Min(doomed) IN
       /\ IF fds[a] = None THEN UNCHANGED <<fds, file, stale, locks>> ELSE CloseApp(a) /\ AllStale
       /\ doomed' = doomed \ {a}
    /\ UNCHANGED <<prog, pc, call, at, got, phase>>

\* The table is freed with what it holds, which stays open.  What a thread that
\* is left does then is undefined and not followed.
Deinstantiate ==
    /\ phase = "closing" /\ doomed = {}
    /\ phase' = "freed"
    /\ UNCHANGED <<prog, fds, file, thread, locks, doomed>>

-----------------------------------------------------------------------------

Handler(t) ==
    \/ SockBind(t) \/ SockConnect(t) \/ SockListen(t) \/ SockAccept(t)
    \/ SockGetSockName(t) \/ SockGetPeerName(t) \/ SockShutdown(t)
    \/ SockGetOpt(t) \/ SockSetOpt(t) \/ SockRecvMsg(t) \/ SockSendMsg(t)
    \/ FDFcntl(t) \/ FDStatVFS(t) \/ HostFails(t)

Next ==
    \/ phase # "freed" /\ \E t \in Threads :
          \/ GetHostFDByAppFD(t) \/ FDClose(t) \/ SockOpen(t)
          \/ InsertNewHostSocketFDToTable(t) \/ InsertFails(t)
          \/ Handler(t)
          \/ PollOneOff(t) \/ PollReturns(t) \/ SockGetIfAddrs(t)
          \/ ProcessSpawn(t) \/ SpawnLookup(t) \/ SpawnChild(t)
          \/ WasiExtSyscall(t) \/ GuestWritesArgs(t) \/ DoSyscall(t)
    \/ OtherOpens \/ OtherCloses \/ PeerActs \/ OtherLocks
    \/ CollectFDs \/ CloseNext \/ Deinstantiate

Spec == Init /\ [][Next]_vars

-----------------------------------------------------------------------------
(* Properties.                                                               *)

\* Threads that hold host descriptor h between its creation and the table.
Holders(h) == {t \in Threads : pc[t] = "created" /\ at[t].host = h}

\* Every host descriptor the guest's calls have opened is named by just one
\* entry of the table, of the right type, or is in the hands of one call that
\* is about to enter it: none is lost when an insertion fails, none is named
\* twice, and an entry never names what the host program opened.  "Close all
\* FDs opened by app" leaves nothing of the guest open when the table is freed,
\* unless a destructor of the guest started a thread: nobody waits for that
\* one, and what it opens meanwhile may stay open.
TableOwnsHostFDs ==
    /\ \A h \in HostFDs : file[h] \notin {Closed, Other} =>
          Cardinality({a \in AppFDs : fds[a] # None /\ fds[a].host = h}) + Cardinality(Holders(h)) = 1
    /\ \A a \in AppFDs : fds[a] # None => RightType(fds[a], file[fds[a].host])
    /\ phase = "freed" /\ ~prog.dtorThreads => \A h \in HostFDs : file[h] \in {Closed, Other}

\* An address comes back as it was given, by this guest or by its peer: the
\* name of a bound socket, the peer of a connected or accepted one, the sender
\* of a datagram; and a message goes where the guest says.
AddressesSurvive ==
    \A t \in Threads : got[t] # None /\ got[t].val # None =>
        LET v == got[t].val IN
        /\ got[t].call.op \in {"SockAccept", "SockGetSockName", "SockGetPeerName", "SockRecvMsg"}
              => ("meant" \in DOMAIN v /\ v.meant # None => v.addr = v.meant)
        /\ got[t].call.op = "SockSendMsg" => v.sentTo = KernelAddr(got[t].call.addr)

\* A failure of the host is never success for the guest, and one that the
\* guest's C library acts on keeps its meaning.
ErrorsTruthful ==
    \A t \in Threads : got[t] # None /\ got[t].host # "0" =>
        /\ got[t].err # "0"
        /\ got[t].host \in {"EAGAIN", "EINPROGRESS", "EINTR", "EBADF"} => got[t].err = got[t].host

\* An option reads as the guest last set it and is untouched by the others, and
\* a pending error is told, as an error.
OptionsSeparate ==
    \A t \in Threads : got[t] # None /\ got[t].err = "0" /\ got[t].call.op = "SockGetOpt" =>
        LET v == got[t].val IN
        /\ "asked" \in DOMAIN v /\ got[t].call.opt \in DOMAIN v.asked => v.opt = v.asked[got[t].call.opt]
        /\ "pending" \in DOMAIN v => (v.pending = "0") = (v.opt = "0")

\* What the guest has been given to keep, and what waits, is what its peer
\* sent, in order and once: a look at the data takes nothing.
StreamIntact ==
    \A h \in HostFDs : file[h].kind = "socket" =>
        file[h].read \o file[h].rx = [i \in 1..file[h].sent |-> i]

\* A blocking read of a stream that asks for all bytes gets fewer only when no
\* more can come.
ShortOnlyAtEnd ==
    \A t \in Threads : got[t] # None /\ got[t].err = "0" /\ got[t].call.op = "SockRecvMsg"
                       /\ "WAITALL" \in got[t].call.flags /\ "size" \in DOMAIN got[t].val =>
        got[t].val.size = got[t].call.count \/ got[t].val.ended \/ got[t].val.nonblock

\* While the guest has been told that it holds a lock, no other process holds
\* one that excludes it; and F_GETLK names a lock just if one is in the way.
LockExcludes ==
    /\ granted = 1 => otherLock = "F_UNLCK"
    /\ granted = 0 => otherLock # "F_WRLCK"
    /\ \A t \in Threads : got[t] # None /\ got[t].call.op = "FDFcntl" /\ got[t].val # None =>
          CASE got[t].val.other = "F_WRLCK" -> got[t].val.lock = 1
            [] got[t].val.other = "F_RDLCK" -> got[t].val.lock = (IF got[t].call.type = 1 THEN 0 ELSE 2)
            [] OTHER -> got[t].val.lock = 2

\* The last call of t is poll_oneoff with success.
Polled(t) == got[t] # None /\ got[t].call.op = "poll_oneoff" /\ got[t].err = "0"

\* The events fit the guest's array: they answer different subscriptions, in
\* their order, each of its own type.  When poll() finds something, a descriptor
\* is answered just if it is ready, hung up or bad, and no clock is; when time
\* is up, a clock alone is, if one asked for a time.
EventsAnswer ==
    \A t \in Threads : Polled(t) =>
        LET v == got[t].val
            ev == v.events
            subs == got[t].call.subs
            told(i) == \E k \in DOMAIN ev : ev[k].userdata = i
            found == "revents" \in DOMAIN v /\ \E i \in DOMAIN subs : v.revents[i] # {}
        IN /\ \A i, j \in DOMAIN ev : i < j => ev[i].userdata < ev[j].userdata
           /\ \A i \in DOMAIN ev : ev[i].userdata \in DOMAIN subs /\ ev[i].type = subs[ev[i].userdata].type
           /\ found => \A i \in DOMAIN subs :
                 told(i) = (~IsClock(subs[i]) /\ (v.arr[i] = INVALID_SOCKET \/ v.revents[i] \cap Told # {}))
           /\ ~found => /\ \A i \in DOMAIN subs : told(i) => IsClock(subs[i])
                        /\ (\E i \in DOMAIN subs : IsClock(subs[i]) /\ TimeoutOf(subs[i], v.now) < Forever) => ev # <<>>

\* The assertion after poll() returned 0: pTimeoutSub is set, so that the guest
\* is told of a time it asked for.
PollTimesOutForClock ==
    \A t \in Threads : Polled(t) /\ "revents" \in DOMAIN got[t].val =>
        LET v == got[t].val IN (\A i \in DOMAIN v.revents : v.revents[i] = {}) => v.events # <<>>

\* When poll() returns for some descriptor, those that are closed or were never
\* open are answered with EBADF and no other is; a hangup is answered with
\* EPIPE or with what is left to read.
BadDescriptorTold ==
    \A t \in Threads : Polled(t) /\ "revents" \in DOMAIN got[t].val =>
        LET v == got[t].val
            subs == got[t].call.subs
            answers(i) == {v.events[k] : k \in {n \in DOMAIN v.events : v.events[n].userdata = i}}
            missing(i) == ~IsClock(subs[i]) /\ v.arr[i] = INVALID_SOCKET /\ \E j \in DOMAIN subs : v.revents[j] # {}
        IN \A i \in DOMAIN subs :
            /\ (missing(i) \/ "POLLNVAL" \in v.revents[i]) = (\E e \in answers(i) : e.error = "EBADF")
            /\ "POLLHUP" \in v.revents[i] => \E e \in answers(i) : e.hangup

\* A clock subscription is answered no more than a millisecond early, and it
\* is one whose time comes first, unless its time is beyond what poll() or
\* sleep_for() can wait.
ClockEventTimely ==
    \A t \in Threads : Polled(t) =>
        \A i \in DOMAIN got[t].val.events :
            LET subs == got[t].call.subs
                v == got[t].val
                due(k) == TimeoutOf(subs[k], v.now)
                k == v.events[i].userdata
            IN IsClock(subs[k]) =>
               /\ \/ due(k) - v.slept < NsPerMs
                  \/ IF "revents" \in DOMAIN v THEN due(k) >= (MaxPoll + 1) * NsPerMs ELSE due(k) > MaxSleep
               /\ \A other \in DOMAIN subs : IsClock(subs[other]) => due(k) <= due(other)

\* The guest gets each address of the host's interfaces once, with the
\* hardware address and the index of the interface wherever the kernel lists
\* them, an entry for each interface without addresses, and as many entries
\* as its buffer was made for (the assertion after the loop).
IfAddrsComplete ==
    \A t \in Threads : got[t] # None /\ got[t].call.op = "SockGetIfAddrs" /\ got[t].err = "0" =>
        LET list == got[t].val.list
            out == got[t].val.ifaddrs
        IN /\ Len(out) = got[t].val.cnt
           /\ \A i \in DOMAIN list : IsInet(list[i]) =>
                 Cardinality({k \in DOMAIN out : out[k].name = list[i].name /\ out[k].addr = list[i].addr})
                 = Cardinality({j \in DOMAIN list : IsInet(list[j]) /\ list[j].name = list[i].name
                                                    /\ list[j].addr = list[i].addr})
           /\ \A i \in DOMAIN list : \E k \in DOMAIN out : out[k].name = list[i].name
           /\ \A i \in DOMAIN list, k \in DOMAIN out : list[i].family = "AF_PACKET" /\ out[k].name = list[i].name =>
                 out[k].hw = [mac |-> list[i].mac, index |-> list[i].index]

\* What the guest's descriptors own refer to after its redirections acts, taken
\* one after another as POSIX does.
PosixStd(own, acts) ==
    LET child[n \in 0..Len(acts)] ==
            IF n = 0 THEN own ELSE [child[n - 1] EXCEPT ![acts[n].dest] = child[n - 1][acts[n].src]]
    IN child[Len(acts)]

\* The library takes every source as it was before the redirections.  It agrees
\* with POSIX when no source is the destination of an earlier one and the guest
\* closes nothing meanwhile: 0, 1 and 2 of the new process are then what the
\* guest asked for.
RedirectsLikePosix ==
    \A t \in Threads : got[t] # None /\ got[t].call.op = "ProcessSpawn" /\ got[t].err = "0" /\ ~got[t].stale =>
        LET acts == got[t].call.actions
            posix == PosixStd(got[t].val.own, acts)
        IN (\A i, j \in DOMAIN acts : i < j => acts[j].src # acts[i].dest) =>
           \A fd \in StdFDs : posix[fd] # INVALID_SOCKET => got[t].val.std[fd] = posix[fd]

\* A handler that runs gets what its declaration says, in number, order and
\* kind, although only a cast says so, unless another thread of the guest has
\* written to the arguments between the check and the call.
HandlersGetWhatTheyDeclare ==
    \A t \in Threads : got[t] # None /\ got[t].call.op = "syscall" /\ got[t].err = "0" /\ ~got[t].stale =>
        got[t].val.args = Params[got[t].val.func]

\* What poll_oneoff gives the guest answers what it asked: the right
\* subscriptions, bad descriptors among them, and the clock in time.
PollAnswers == EventsAnswer /\ BadDescriptorTold /\ ClockEventTimely

\* The lists that pass between the guest and the host keep their order and
\* what belongs together: subscriptions and events, redirections, the
\* arguments of a handler and the interfaces of the host.
ListsTranslated == PollAnswers /\ RedirectsLikePosix /\ HandlersGetWhatTheyDeclare /\ IfAddrsComplete

\* On its way from the guest to the host a call keeps its meaning: the flags of
\* a read and the type of a lock.
HostDoesAsAsked == StreamIntact /\ ShortOnlyAtEnd /\ LockExcludes

\* And so does the answer on its way back: addresses, errors and options.
GuestIsToldTheTruth == AddressesSurvive /\ ErrorsTruthful /\ OptionsSeparate

=============================================================================
