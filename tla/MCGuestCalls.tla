------------------------------ MODULE MCGuestCalls ------------------------------
(* GuestCalls with small programs, each about one family of calls, so that   *)
(* the state space is their sum.                                             *)
EXTENDS GuestCalls

CONSTANTS t1, t2

\* Nothing is asked and nothing happens.
Base ==
    [calls |-> [t \in Threads |-> {}], fds |-> [a \in AppFDs |-> None],
     file |-> [h \in HostFDs |-> IF h \in StdFDs THEN Other ELSE Closed],
     errors |-> {}, peers |-> {}, pending |-> {}, bytes |-> 0, conditions |-> {}, times |-> {0},
     interfaces |-> {<<>>}, others |-> 0, otherLocks |-> FALSE, tableFull |-> FALSE, destroyed |-> FALSE, dtorThreads |-> FALSE, writes |-> FALSE, once |-> FALSE]

Opened(p, entries) ==
    [p EXCEPT !.fds = [a \in AppFDs |-> IF a \in DOMAIN entries THEN [host |-> a + 3, type |-> entries[a].type]
                                        ELSE None],
              !.file = [h \in HostFDs |-> IF h - 3 \in DOMAIN entries THEN entries[h - 3].f ELSE @[h]]]
Sock(type, nonblock, peer) ==
    [type |-> type, f |-> Socket(type, nonblock, [sa_family |-> "AF_INET", addr |-> 0, port |-> 0], peer, None, None)]
Listener == [Sock("STREAM", FALSE, None) EXCEPT !.f.listening = TRUE]
Reg(name) == [type |-> "REGULAR_FILE", f |-> File(name)]

On(op, fd) == [op |-> op, fd |-> fd, fault |-> FALSE]
Open(domain, type, protocol) == [op |-> "SockOpen", domain |-> domain, type |-> type, protocol |-> protocol]
Close(fd) == [op |-> "fd_close", fd |-> fd]

V4 == [family |-> "INET", addr |-> 7, port |-> 80]
V6 == [family |-> "INET6", addr |-> 9, port |-> 81, flowinfo |-> 1, scope_id |-> 2]
Unix == [family |-> "UNIX"]
Unspec == [family |-> "UNSPEC"]
Peer == [sa_family |-> "AF_INET", addr |-> 1, port |-> 1]

Descriptors ==
    [Opened(Base, 0 :> Listener) EXCEPT
        !.calls = t1 :> {Open("INET6", {"1", "4", "NONBLOCK"}, 0), Close(1)} @@
                  t2 :> {On("SockAccept", 0), Close(0)},
        !.peers = {V4}, !.others = 1, !.tableFull = TRUE, !.destroyed = TRUE]

Outliving == [Descriptors EXCEPT !.dtorThreads = TRUE, !.others = 0, !.tableFull = FALSE, !.once = TRUE]

Addresses ==
    [Opened(Base, 0 :> Sock("STREAM", TRUE, None) @@ 1 :> Sock("DGRAM", FALSE, None)) EXCEPT
        !.calls = t1 :> {On(op, 0) : op \in {"SockListen", "SockAccept", "SockGetSockName", "SockGetPeerName"}}
                     \cup {On("SockBind", 0) @@ [addr |-> a] : a \in {V4, V6, Unix}}
                     \cup {On("SockConnect", fd) @@ [addr |-> V6] : fd \in 0..1}
                     \cup {On("SockGetPeerName", fd) : fd \in {1, 2}}
                     \cup {On("SockSendMsg", 1) @@ [addr |-> a, count |-> n] : a \in {V6, Unix, Unspec}, n \in 0..1}
                     \cup {[On("SockRecvMsg", 1) EXCEPT !.fault = f] @@ [flags |-> {}, count |-> 1] : f \in BOOLEAN}
                  @@ t2 :> {},
        !.peers = {V4, V6}]

Opt(level, n) == <<level, n>>
Get(opt, len) == On("SockGetOpt", 0) @@ [opt |-> opt, len |-> len]
Set(opt, len, value) == On("SockSetOpt", 0) @@ [opt |-> opt, len |-> len, value |-> value]

Options ==
    [Opened(Base, 0 :> Sock("STREAM", TRUE, Peer)) EXCEPT
        !.calls = t1 :> {Get(Opt("SOL_SOCKET", n), 16) : n \in {2, 3, 4, 20, 21}}
                     \cup {Set(Opt("SOL_SOCKET", n), 16, v) : n \in {2, 20, 21}, v \in 1..2}
                     \cup {Set(Opt("SOL_SOCKET", 20), 8, 1), Set(Opt("SOL_SOCKET", 4), 4, 1), Get(Opt("SOL_IP", 9), 4),
                           Get(Opt("SOL_NONE", 2), 4), Get(Opt("SOL_SOCKET", 21), 8)}
                  @@ t2 :> {},
        !.pending = {"ECONNREFUSED", "ESHUTDOWN"}]

Stream ==
    [Opened(Base, 0 :> Sock("STREAM", FALSE, Peer)) EXCEPT
        !.calls = t1 :> ({On("SockRecvMsg", 0) @@ [flags |-> fl, count |-> n] : fl \in SUBSET {"PEEK", "WAITALL"}, n \in 0..2}
                         \cup {On("SockShutdown", 0) @@ [how |-> how] : how \in 0..3})
                  @@ t2 :> {On("SockRecvMsg", 0) @@ [flags |-> fl, count |-> 1] : fl \in {{}, {"PEEK"}}},
        !.bytes = 2]
Nonblocking == [Stream EXCEPT !.file[3].nonblock = TRUE]

Fcntl(cmd, type, whence, fault) ==
    [On("FDFcntl", 0) EXCEPT !.fault = fault] @@ [cmd |-> cmd, type |-> type, whence |-> whence]

Locking ==
    [Opened(Base, 0 :> Reg("f") @@ 1 :> Sock("STREAM", FALSE, None)) EXCEPT
        !.calls = [t \in {t1, t2} |->
                     {Fcntl(cmd, type, "SET", FALSE) : cmd \in LockCommands, type \in 0..2}
                     \cup {Fcntl("F_SETLK", 3, "SET", FALSE), Fcntl("F_SETLK", 1, "X", FALSE), Fcntl("F_DUPFD", 0, "SET", FALSE),
                           Fcntl("F_GETLK", 1, "CUR", TRUE), Close(0), On("FDStatVFS", 0), On("FDStatVFS", 1)}],
        !.otherLocks = TRUE]

Clock(timeout, abs) == [type |-> "CLOCK", timeout |-> timeout, abs |-> abs]
FD(type, fd) == [type |-> type, fd |-> fd]
Subs == {Clock(1, FALSE), Clock(5, TRUE), Clock(12, FALSE), Clock(Forever, TRUE), FD("FD_READ", 0), FD("FD_WRITE", 0), FD("FD_READ", 1)}
Poll(subs, fault) == [op |-> "poll_oneoff", subs |-> subs, fault |-> fault]

Polling ==
    [Opened(Base, 0 :> Sock("STREAM", FALSE, Peer)) EXCEPT
        !.calls = t1 :> {Poll(subs, FALSE) : subs \in UNION {[1..n -> Subs] : n \in 0..2}} 
                     \cup {Poll(<<FD("FD_READ", 0), a, b>>, FALSE) : a, b \in {Clock(1, FALSE), Clock(12, FALSE), FD("FD_WRITE", 0)}}
                     \cup {Poll(<<FD("FD_READ", 0)>>, TRUE)}
                  @@ t2 :> {Close(0)},
        !.conditions = {"POLLHUP", "POLLERR"}, !.times = {0, 4, Forever}, !.errors = {"EINTR"}, !.once = TRUE]

If(name, family, addr, hw) ==
    [name |-> name, flags |-> {"UP", "NOARP"}, family |-> family, addr |-> addr, mac |-> hw, index |-> hw]
IfPool == {If(1, "AF_PACKET", "p1", 11), If(1, "AF_INET", "a", 0), If(1, "AF_INET6", "b", 0),
           If(2, "AF_PACKET", "p2", 12), If(2, "AF_INET", "c", 0), If(3, "none", "n", 0)}

Interfaces ==
    [Base EXCEPT !.calls = t1 :> {[op |-> "SockGetIfAddrs", fault |-> f] : f \in BOOLEAN} @@ t2 :> {},
                 !.interfaces = UNION {SetToSeqs(S) : S \in {X \in SUBSET IfPool : Cardinality(X) <= 4}},
                 !.errors = {"ENOBUFS"}, !.once = TRUE]

Dup2 == [dest : {0, 1, 2, 5}, src : 0..3]
Spawning ==
    [Opened(Base, 0 :> Reg("in") @@ 1 :> Reg("out") @@ 3 :> Reg("log")) EXCEPT
        !.calls = t1 :> {[op |-> "ProcessSpawn", actions |-> a] : a \in UNION {[1..n -> Dup2] : n \in 0..2}}
                  @@ t2 :> {Close(3)},
        !.once = TRUE]

Dispatch ==
    [Base EXCEPT !.once = TRUE, !.writes = TRUE, !.calls =
        t1 :> {[op |-> "syscall", id |-> id, argv |-> argv, args |-> args] :
                 id \in {2} \cup DOMAIN gExtSyscallMap, argv \in {"ok", "outside"},
                 args \in {[i \in 1..n |-> IF i = bad THEN "outside" ELSE "ok"] : n \in {0, 5}, bad \in {0, 1, 3}}}
        @@ t2 :> {}]

Failing ==
    [Opened(Base, 0 :> Sock("STREAM", FALSE, None) @@ 1 :> Reg("f")) EXCEPT
        !.calls = t1 :> {On(op, fd) : op \in {"SockListen", "SockGetSockName"}, fd \in 0..1}
                     \cup {Open(d, ty, pr) : d \in {"INET", "UNIX"}, ty \in {{"1", "2", "4"}, {"2", "4"}, {"4"}}, pr \in {0, 6, 17}}
                     \cup {On("SockConnect", 0) @@ [addr |-> V4]}
                  @@ t2 :> {Close(0)},
        !.errors = {"EINTR", "EADDRINUSE", "EOPNOTSUPP", "ESHUTDOWN"}, !.others = 1, !.once = TRUE]

MCPrograms ==
    [descriptors |-> Descriptors, outliving |-> Outliving, addresses |-> Addresses, options |-> Options, stream |-> Stream,
     nonblocking |-> Nonblocking, locking |-> Locking, polling |-> Polling, interfaces |-> Interfaces, spawning |-> Spawning,
     dispatch |-> Dispatch, failing |-> Failing]

\* One of the programs alone.
PollingOnly == [polling |-> Polling]

=============================================================================
