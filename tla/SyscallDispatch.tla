----------------------------- MODULE SyscallDispatch -----------------------------
(***************************************************************************)
(* How a guest's `syscall' import reaches its handler: the table filled by *)
(* the Init() of each extension, the checks of WasiExtSyscall and Invoke,  *)
(* and DoSyscall, which casts a void* to the type of function that the     *)
(* class of the entry stands for.  Nothing but the names ties the class,   *)
(* its signature string, the cast and the handler's parameters together.   *)
(***************************************************************************)
EXTENDS Integers, Sequences, SequencesExt, FiniteSetsExt

\* The classes ExtSyscall_*: the string each gives to ExtSyscallBase.
ArgSig == [
    P               |-> <<"*">>,
    U32             |-> <<"i">>,
    S               |-> <<"$">>,
    P_U32           |-> <<"*", "i">>,
    P_U64           |-> <<"*", "I">>,
    P_P             |-> <<"*", "*">>,
    U32_P           |-> <<"i", "*">>,
    U32_U32         |-> <<"i", "i">>,
    P_P_P           |-> <<"*", "*", "*">>,
    S_P_P           |-> <<"$", "*", "*">>,
    P_P_U64         |-> <<"*", "*", "I">>,
    U32_P_P         |-> <<"i", "*", "*">>,
    U32_U32_U32_P   |-> <<"i", "i", "i", "*">>,
    U32_P_P_U32     |-> <<"i", "*", "*", "i">>,
    U32_U32_P_P     |-> <<"i", "i", "*", "*">>,
    U32_U32_U32_P_P |-> <<"i", "i", "i", "*", "*">>,
    U32_U32_U32_P_U32 |-> <<"i", "i", "i", "*", "i">>]

\* The members of the argument union their DoSyscall reads, in order.
Reads == LET n == "native_pointer" w == "u32" d == "u64" IN [
    P               |-> <<n>>,
    U32             |-> <<w>>,
    S               |-> <<n>>,
    P_U32           |-> <<n, w>>,
    P_U64           |-> <<n, d>>,
    P_P             |-> <<n, n>>,
    U32_P           |-> <<w, n>>,
    U32_U32         |-> <<w, w>>,
    P_P_P           |-> <<n, n, n>>,
    S_P_P           |-> <<n, n, n>>,
    P_P_U64         |-> <<n, n, d>>,
    U32_P_P         |-> <<w, n, n>>,
    U32_U32_U32_P   |-> <<w, w, w, n>>,
    U32_P_P_U32     |-> <<w, n, n, w>>,
    U32_U32_P_P     |-> <<w, w, n, n>>,
    U32_U32_U32_P_P |-> <<w, w, w, n, n>>,
    U32_U32_U32_P_U32 |-> <<w, w, w, n, w>>]

\* The parameters the handlers declare after the exec env.
Params == LET p == "pointer" i == "int" IN [
    WamrExtSysctl |-> <<p, p, p>>,     PthreadSetName |-> <<p>>,
    FDStatVFS |-> <<i, p>>,            FDFcntl |-> <<i, p>>,
    SockOpen |-> <<i, i, i, p>>,       SockBind |-> <<i, p>>,
    SockConnect |-> <<i, p>>,          SockListen |-> <<i, i>>,
    SockAccept |-> <<i, p, p>>,        SockGetSockName |-> <<i, p>>,
    SockGetPeerName |-> <<i, p>>,      SockShutdown |-> <<i, i>>,
    SockGetOpt |-> <<i, i, i, p, p>>,  SockSetOpt |-> <<i, i, i, p, i>>,
    SockRecvMsg |-> <<i, p, p, i>>,    SockSendMsg |-> <<i, p, p, i>>,
    SockGetIfAddrs |-> <<p>>,
    ProcessSpawn |-> <<p>>,            ProcessWaitPID |-> <<i, i, p, p>>]

\* The calls of the Init() functions, in the order of wamr_ext_init.
PthreadInit == <<<<130, "S", "PthreadSetName">>>>
WamrInit == <<<<1, "S_P_P", "WamrExtSysctl">>>>
FSInit == <<<<200, "U32_P", "FDStatVFS">>, <<201, "U32_P", "FDFcntl">>>>
SocketInit == <<
    <<300, "U32_U32_U32_P", "SockOpen">>,         <<301, "U32_P", "SockBind">>,
    <<302, "U32_P", "SockConnect">>,              <<303, "U32_U32", "SockListen">>,
    <<304, "U32_P_P", "SockAccept">>,             <<305, "U32_P", "SockGetSockName">>,
    <<306, "U32_P", "SockGetPeerName">>,          <<307, "U32_U32", "SockShutdown">>,
    <<308, "U32_U32_U32_P_P", "SockGetOpt">>,     <<309, "U32_U32_U32_P_U32", "SockSetOpt">>,
    <<310, "U32_P_P_U32", "SockRecvMsg">>,        <<311, "U32_P_P_U32", "SockSendMsg">>,
    <<312, "P", "SockGetIfAddrs">>>>
ProcessInit == <<<<400, "P", "ProcessSpawn">>, <<401, "U32_U32_P_P", "ProcessWaitPID">>>>

Registered == PthreadInit \o WamrInit \o FSInit \o SocketInit \o ProcessInit

\* An id that is there already gets the new entry.
RegisterExtSyscall(id) ==
    LET r == Registered[Max({k \in DOMAIN Registered : Registered[k][1] = id})]
    IN [class |-> r[2], func |-> r[3]]

gExtSyscallMap == [id \in {Registered[k][1] : k \in DOMAIN Registered} |-> RegisterExtSyscall(id)]

-----------------------------------------------------------------------------
\* An argument of the guest, and the address argv of the array of arguments, is
\* "ok" or an address outside the guest's memory, "outside".
IsAddress(c) == c \in {"*", "$"}

\* Mutant: addresses of strings are passed on as they are.
PlainPointersOnly(c) == c = "*"

Translated(c) == IsAddress(c)

\* What the places of the guest's own array of arguments hold once Invoke has
\* put native pointers over the addresses.
InvokedArgs(id) ==
    LET sig == ArgSig[gExtSyscallMap[id].class] IN [i \in DOMAIN sig |-> IF Translated(sig[i]) THEN "pointer" ELSE "word"]

\* What DoSyscall reads as a member of the union from a place that holds v.
Passed(v, member) ==
    IF member = "native_pointer"
    THEN IF v = "pointer" THEN "pointer" ELSE "the guest's word taken for a pointer"
    ELSE IF v = "pointer" THEN "half a pointer" ELSE IF member = "u32" THEN "int" ELSE "int64"

\* WasiExtSyscall and Invoke: the error of the call, "0" if the handler runs.
\* (An assert(false) before each error ends a build with assertions.)  For the
\* array itself the error is the host's EFAULT, which is ECONNREFUSED in WASI.
InvokeError(id, argv, args) ==
    IF args # <<>> /\ argv = "outside" THEN "ECONNREFUSED"
    ELSE IF id \notin DOMAIN gExtSyscallMap THEN "ENOSYS"
    ELSE LET sig == ArgSig[gExtSyscallMap[id].class] IN
         IF Len(args) < Len(sig) THEN "ENOSYS"
         ELSE IF \E i \in DOMAIN sig : IsAddress(sig[i]) /\ args[i] = "outside" THEN "EFAULT"
         ELSE "0"

\* DoSyscall: the handler that runs and what it gets, read back from the array.
HandlerCall(id, argv) ==
    LET entry == gExtSyscallMap[id] IN
    [func |-> entry.func,
     args |-> [i \in DOMAIN Reads[entry.class] |-> Passed(argv[i], Reads[entry.class][i])]]
=============================================================================
