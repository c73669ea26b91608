-------------------------------- MODULE HostMaps --------------------------------
(***************************************************************************)
(* What the handlers of the guest's socket, file and spawn calls translate *)
(* between the guest's numbers (of wasi-libc) and the host's: errors,      *)
(* addresses, the arguments of socket(), socket options, message flags,    *)
(* record locks, the interfaces of the host and the redirections of a new  *)
(* process.  An error is its name, "0" for none.                           *)
(***************************************************************************)
EXTENDS Lists, Sequences, SequencesExt, FiniteSetsExt, TLC

\* The errno values that have a number of the same name in WASI.
SameName == {
    "E2BIG", "EACCES", "EADDRINUSE", "EADDRNOTAVAIL", "EAFNOSUPPORT", "EAGAIN", "EALREADY", "EBADF",
    "EBADMSG", "EBUSY", "ECANCELED", "ECHILD", "ECONNABORTED", "ECONNREFUSED", "ECONNRESET", "EDEADLK",
    "EDESTADDRREQ", "EDOM", "EDQUOT", "EEXIST", "EFAULT", "EFBIG", "EHOSTUNREACH", "EIDRM", "EILSEQ",
    "EINPROGRESS", "EINTR", "EINVAL", "EIO", "EISCONN", "EISDIR", "ELOOP", "EMFILE", "EMLINK", "EMSGSIZE",
    "EMULTIHOP", "ENAMETOOLONG", "ENETDOWN", "ENETRESET", "ENETUNREACH", "ENFILE", "ENOBUFS", "ENODEV",
    "ENOENT", "ENOEXEC", "ENOLCK", "ENOLINK", "ENOMEM", "ENOMSG", "ENOPROTOOPT", "ENOSPC", "ENOSYS",
    "ENOTCONN", "ENOTDIR", "ENOTEMPTY", "ENOTRECOVERABLE", "ENOTSOCK", "ENOTSUP", "ENOTTY", "ENXIO",
    "EOVERFLOW", "EOWNERDEAD", "EPERM", "EPIPE", "EPROTO", "EPROTONOSUPPORT", "EPROTOTYPE", "ERANGE",
    "EROFS", "ESPIPE", "ESRCH", "ESTALE", "ETIMEDOUT", "ETXTBSY", "EXDEV"}

\* Mutant: an errno that WASI does not know is no error.
UnknownIsSuccess(e) == IF e \in SameName THEN e ELSE "0"

ConvertErrnoToWasiErrno(e) ==
    IF e \in SameName \cup {"0"} THEN e
    ELSE IF e = "EOPNOTSUPP" THEN "ENOTSUP" ELSE "ENOSYS"

-----------------------------------------------------------------------------
(* Addresses.  The family of the guest's is "INET", "INET6", "UNSPEC" or one *)
(* that the library does not know; fields of the other family are absent.    *)

HostFamily(family) == IF family = "INET" THEN "AF_INET" ELSE "AF_INET6"

\* Mutant: the scope of an IPv6 address is forgotten.
WithoutScope(a) ==
    IF a.family = "INET" THEN [sa_family |-> "AF_INET", addr |-> a.addr, port |-> a.port]
    ELSE [sa_family |-> "AF_INET6", addr |-> a.addr, port |-> a.port, flowinfo |-> a.flowinfo, scope_id |-> 0]

\* Only for the two families it knows: see AddressError.
WasiAppSockAddrToHostSockAddr(a) ==
    IF a.family = "INET" THEN [sa_family |-> "AF_INET", addr |-> a.addr, port |-> a.port]
    ELSE [sa_family |-> "AF_INET6", addr |-> a.addr, port |-> a.port,
          flowinfo |-> a.flowinfo, scope_id |-> a.scope_id]

AddressError(a) == IF a.family \in {"INET", "INET6"} THEN "0" ELSE "EAFNOSUPPORT"

\* For another family, assert(false) first.
HostSockAddrToWasiAppSockAddr(a) ==
    CASE a.sa_family = "AF_INET"  -> [family |-> "INET", addr |-> a.addr, port |-> a.port]
      [] a.sa_family = "AF_INET6" -> [family |-> "INET6", addr |-> a.addr, port |-> a.port,
                                      flowinfo |-> a.flowinfo, scope_id |-> a.scope_id]
      [] OTHER -> [family |-> "UNSPEC"]

-----------------------------------------------------------------------------
(* SockOpen: type is the set of the guest's bits, of which 1 and 4 together  *)
(* are FILETYPE_SOCKET_DGRAM (5), 2 and 4 FILETYPE_SOCKET_STREAM (6).        *)

HostSockType(type) ==
    IF {"1", "4"} \subseteq type THEN "DGRAM" ELSE IF {"2", "4"} \subseteq type THEN "STREAM" ELSE "none"

\* __WASI_IPPROTO_UDP and __WASI_IPPROTO_TCP.
ProtocolOf(sockType) == IF sockType = "DGRAM" THEN 17 ELSE 6

SockOpenError(domain, type, protocol) ==
    IF domain \notin {"INET", "INET6"} THEN "EAFNOSUPPORT"
    ELSE IF HostSockType(type) = "none" THEN "EINVAL"
    ELSE IF protocol \notin {0, ProtocolOf(HostSockType(type))} THEN "EPROTONOSUPPORT"
    ELSE "0"

\* What shutdown() is told to close; UVWASI_SHUT_RD is 1, UVWASI_SHUT_WR 2.
HostShutdownHow(how) ==
    CASE how = 1 -> {"RD"} [] how = 2 -> {"WR"} [] how = 3 -> {"RD", "WR"} [] OTHER -> {}

-----------------------------------------------------------------------------
(* Socket options, <<level, number>> in the guest.                           *)

HostOptName(opt) ==
    CASE opt = <<"SOL_SOCKET", 2>>  -> "SO_REUSEADDR" [] opt = <<"SOL_SOCKET", 3>>  -> "SO_TYPE"
      [] opt = <<"SOL_SOCKET", 4>>  -> "SO_ERROR"     [] opt = <<"SOL_SOCKET", 5>>  -> "SO_DONTROUTE"
      [] opt = <<"SOL_SOCKET", 6>>  -> "SO_BROADCAST" [] opt = <<"SOL_SOCKET", 7>>  -> "SO_SNDBUF"
      [] opt = <<"SOL_SOCKET", 8>>  -> "SO_RCVBUF"    [] opt = <<"SOL_SOCKET", 9>>  -> "SO_KEEPALIVE"
      [] opt = <<"SOL_SOCKET", 13>> -> "SO_LINGER"    [] opt = <<"SOL_SOCKET", 15>> -> "SO_REUSEPORT"
      [] opt = <<"SOL_SOCKET", 20>> -> "SO_RCVTIMEO"  [] opt = <<"SOL_SOCKET", 21>> -> "SO_SNDTIMEO"
      [] opt = <<"IPPROTO_TCP", 1>> -> "TCP_NODELAY"  [] opt = <<"SOL_IP", 2>>      -> "IP_TTL"
      [] opt = <<"SOL_IPV6", 26>>   -> "IPV6_V6ONLY"  [] opt = <<"SOL_IPV6", 16>>   -> "IPV6_UNICAST_HOPS"
      [] OTHER -> "none"

\* Mutant: a missing break, after which SO_RCVTIMEO is SO_SNDTIMEO.
MissingBreak(opt) ==
    [err |-> IF HostOptName(opt) # "none" THEN "0" ELSE "EINVAL",
     name |-> IF HostOptName(opt) = "SO_RCVTIMEO" THEN "SO_SNDTIMEO" ELSE HostOptName(opt)]

MapWasiSockOpt(opt) ==
    [err |-> IF HostOptName(opt) # "none" THEN "0"
             ELSE IF opt[1] \in {"SOL_SOCKET", "IPPROTO_TCP", "SOL_IP", "SOL_IPV6"} THEN "EINVAL" ELSE "ENOPROTOOPT",
     name |-> HostOptName(opt)]

\* The size of the guest's value: a uint32_t, a wasi_linger_t or a wasi_timeval_t.
OptSize(name) ==
    CASE name = "SO_LINGER" -> 8 [] name \in {"SO_RCVTIMEO", "SO_SNDTIMEO"} -> 16 [] OTHER -> 4

\* Mutant: MSG_PEEK is not passed on.
OnlyWaitAll(flags) == flags \cap {"WAITALL"}

\* Mutant: MSG_WAITALL is not passed on.
OnlyPeek(flags) == flags \cap {"PEEK"}

MapWasiSockMsgFlags(flags) == flags \cap {"PEEK", "WAITALL"}

-----------------------------------------------------------------------------
(* FDFcntl: the record lock that the guest's flock asks for.                 *)

LockCommands == {"F_GETLK", "F_SETLK", "F_SETLKW"}

\* Mutant: the names of read and write locks are exchanged.
SwappedLockType(type) ==
    CASE type = 0 -> "F_WRLCK" [] type = 1 -> "F_RDLCK" [] type = 2 -> "F_UNLCK" [] OTHER -> "none"

HostLockType(type) ==
    CASE type = 0 -> "F_RDLCK" [] type = 1 -> "F_WRLCK" [] type = 2 -> "F_UNLCK" [] OTHER -> "none"

AppLockType(hostType) == CASE hostType = "F_RDLCK" -> 0 [] hostType = "F_WRLCK" -> 1 [] hostType = "F_UNLCK" -> 2

\* Mutant: an unknown type of lock is passed on.
TypeNotChecked(cmd, fault, type, whence) ==
    IF cmd \notin LockCommands THEN "EINVAL"
    ELSE IF fault THEN "EFAULT" ELSE IF whence \notin {"SET", "CUR", "END"} THEN "EINVAL" ELSE "0"

\* fault: the guest's flock does not lie in its memory.  A whence is the name of
\* a UVWASI_WHENCE, or unknown.
FcntlError(cmd, fault, type, whence) ==
    IF cmd \notin LockCommands THEN "EINVAL"
    ELSE IF fault THEN "EFAULT"
    ELSE IF HostLockType(type) = "none" \/ whence \notin {"SET", "CUR", "END"} THEN "EINVAL" ELSE "0"

-----------------------------------------------------------------------------
(* SockGetIfAddrs: list is what getifaddrs() gave, each entry with a name (a *)
(* number stands for it), flags, the family of the address ("none" for       *)
(* null), the address, and the mac and index of an AF_PACKET entry.          *)

IsInet(e) == e.family \in {"AF_INET", "AF_INET6"}

\* The entries of one interface.
EntriesOf(list, name) == {i \in DOMAIN list : list[i].name = name}

\* mac and ifIndex of an interface, from the last AF_PACKET entry before the n-th.
IfHardware(list, name, n) ==
    LET packets == {i \in EntriesOf(list, name) : list[i].family = "AF_PACKET" /\ i < n}
    IN IF packets = {} THEN [mac |-> 0, index |-> 0]
       ELSE [mac |-> list[Max(packets)].mac, index |-> list[Max(packets)].index]

\* The flags that WASI has, each under its own name.
MapIfFlags(flags) ==
    flags \cap {"UP", "BROADCAST", "LOOPBACK", "POINTOPOINT", "RUNNING", "PROMISC", "ALLMULTI", "MULTICAST"}

\* Mutant: the hardware of the interface as far as it is known at the entry
\* of the address (one pass instead of two).
OnePass(list, i) == IfHardware(list, list[i].name, i)

HardwareOf(list, i) == IfHardware(list, list[i].name, Len(list) + 1)

\* The guest's entry for an address, or for an interface without addresses,
\* whose flags are those of its last entry.
AppIfAddr(list, i) ==
    [name |-> list[i].name, flags |-> MapIfFlags(list[i].flags),
     addr |-> IF IsInet(list[i]) THEN list[i].addr ELSE "UNSPEC", hw |-> HardwareOf(list, i)]

WithoutAddr(list, name) == \A i \in EntriesOf(list, name) : ~IsInet(list[i])

\* What tempIfMap holds for the guest: each address, and the last entry of an
\* interface without addresses.
IfInfos(list) ==
    {i \in DOMAIN list :
        \/ IsInet(list[i])
        \/ WithoutAddr(list, list[i].name) /\ \A j \in EntriesOf(list, list[i].name) : j <= i}

\* Does entry i come before j?  The map is in the order of the names.
IfBefore(list, i, j) == list[i].name < list[j].name \/ (list[i].name = list[j].name /\ i < j)

AppIfAddrs(list) ==
    LET order == Arranged(IfInfos(list), {p \in IfInfos(list) \X IfInfos(list) : IfBefore(list, p[1], p[2])})
    IN [k \in DOMAIN order |-> AppIfAddr(list, order[k])]

\* ret_ifaddr_cnt, for which the guest's malloc is called.
IfAddrCount(list) ==
    Cardinality({i \in DOMAIN list : IsInet(list[i])})
    + Cardinality({name \in {list[i].name : i \in DOMAIN list} : WithoutAddr(list, name)})

-----------------------------------------------------------------------------
(* ProcessSpawn: std gives the host descriptors of 0, 1 and 2 in the guest,  *)
(* -1 if there is none; an action is one of the guest's dup2 requests, with  *)
(* the host descriptor of its source.                                        *)

StdFDs == 0..2

\* Mutant: of two requests for a descriptor the first counts.
FirstRequest(requests) == Min(requests)

\* Of several requests for a descriptor the last counts.
Counts(requests) == Max(requests)

dup2FDArr(std, actions) ==
    [fd \in StdFDs |->
        LET requests == {i \in DOMAIN actions : actions[i].dest = fd}
        IN IF requests = {} THEN std[fd] ELSE actions[Counts(requests)].host]

\* dup2(from, to) in a process whose descriptors refer to child, unless from is -1.
AfterDup2(child, from, to) == IF from = -1 THEN child ELSE [child EXCEPT ![to] = child[from]]

\* What the child does before exec, for 0, 1 and 2 in turn.  opened tells what
\* each host descriptor of the parent refers to.
ChildStd(opened, arr) == AfterDup2(AfterDup2(AfterDup2(opened, arr[0], 0), arr[1], 1), arr[2], 2)
=============================================================================
