--------------------------- MODULE PthreadManager ---------------------------
(***************************************************************************)
(* The guest threads of one WamrExtInstance: WasiPthreadExt.               *)
(*                                                                         *)
(* Guest code starts a thread with the import wasi.thread-spawn            *)
(* (WasiThreadSpawn).  Every thread has an ExecEnvThreadInfo object, held  *)
(* by shared pointers in m_threadMap, in the local variable of the spawner *)
(* and in the vector of the destroying thread.  wamr_ext_instance_destroy  *)
(* cancels and joins the threads (CleanupAppThreadInfo, DoHostThreadJoin)  *)
(* before it runs the guest's destructors and frees the wasm instance; the *)
(* WamrExtInstance with m_threadMap is deleted later, by the loop thread.  *)
(*                                                                         *)
(* A critical section of m_threadMapLock never blocks inside, so it is one *)
(* step.  exitLock is held across a blocking call by the joiner only, so   *)
(* it is the predicate ExitLockFree.                                       *)
(***************************************************************************)
EXTENDS Integers, FiniteSets

CONSTANTS
    Threads,          \* the ExecEnvThreadInfo objects that may be created
    Main,             \* the exec env of the main thread
    NoThread,         \* null pointer
    HandleMod,        \* m_curHandleId wraps from HandleMod - 1 to 0 (2^32 - 1 in the code)
    HeapStacks,       \* how many thread stacks the app heap has room for
    AuxStackFails,    \* may wasm_exec_env_set_aux_stack() refuse a stack?
    SpuriousWakeups,  \* may exitCV.wait() return without a notification?
    DtorsSpawn        \* may the guest's destructors start threads?

Execs == Threads \cup {Main}
Handles == 0 .. HandleMod - 1
MainHandle == 0       \* PTHREAD_EXT_MAIN_THREAD_ID

ASSUME ExecAssumption ==
    /\ Main \notin Threads
    /\ NoThread \notin Execs

\* An entry stays in m_threadMap until the instance is destroyed, so an instance
\* cannot have had 2^32 threads: the map does not fit into memory.
ASSUME HandleAssumption ==
    /\ IsFiniteSet(Threads)
    /\ HandleMod \in Nat
    /\ HandleMod > 1
    /\ HandleMod > Cardinality(Threads)

ASSUME FlagAssumption ==
    /\ HeapStacks \in Nat
    /\ AuxStackFails \in BOOLEAN
    /\ SpuriousWakeups \in BOOLEAN
    /\ DtorsSpawn \in BOOLEAN

VARIABLES
    pc,           \* per thread: how far it is in its life
    spawner,      \* per thread: the exec env inside WasiThreadSpawn for it
    handleID,     \* per thread: ExecEnvThreadInfo::handleID
    pHostThread,  \* per thread: the std::thread, "null" until it is assigned
    waitCount,    \* per thread: exitCtrl.waitCount
    destroyed,    \* per thread: how often its sub-instance and exec env were freed
    threadMap,    \* m_threadMap
    curHandleId,  \* m_curHandleId
    stacks,       \* the threads whose stack is on the app heap
    suspended,    \* exec envs with suspend_flags & 1 (CancelAppThread)
    exception,    \* exec envs whose module instance has an exception
    dpc,          \* how far wamr_ext_instance_destroy is
    batch,        \* allThreadInfo, the snapshot of the destroying thread
    toCancel,     \* what is left of batch for the cancel loop
    toJoin,       \* what is left of batch for the join loop
    target,       \* the thread being joined
    signaled,     \* was exitCV of target notified?
    crashed       \* the process died, of a null pointer for instance

infoVars == <<spawner, handleID, pHostThread, destroyed>>
mapVars == <<threadMap, curHandleId>>
guestVars == <<stacks, suspended, exception>>
joinVars == <<dpc, batch, toCancel, toJoin, target, signaled>>
vars == <<pc, infoVars, waitCount, mapVars, guestVars, joinVars, crashed>>

-----------------------------------------------------------------------------
(* A thread's life.  "building": its info exists, its stack does not yet;  *)
(* "registered": it is in m_threadMap, its host thread does not run yet;   *)
(* "running": inside wasi_thread_start; "exiting", "locking": after it,    *)
(* before and after DoAppThreadExit; "exited": it left the exitLock        *)
(* section and touches nothing of the instance any more; "done": the host  *)
(* thread has terminated; "failed": WasiThreadSpawn returned an error.     *)

ThreadStates == {"unborn", "building", "registered", "running", "exiting",
                 "locking", "exited", "done", "failed"}

\* States in which the host thread is going to use its info and its exec env.
UsesInfo(t) == pc[t] \in {"registered", "running", "exiting", "locking"}

DestroyStates == {"open", "snapshot", "cancel", "join", "waiting", "hostjoin",
                  "erase", "exitMain", "dtors", "dead", "deleted"}

\* Mutant: no flag is set.
NotCancelled(t) == suspended

CancelAppThread(t) == suspended \cup {t}

\* Inside WasiThreadSpawn an exec env executes no guest code.
Spawning(s) == \E t \in Threads : spawner[t] = s

\* Guest code runs on s.  The main exec env runs it under execFuncLock, so
\* before wamr_ext_instance_destroy or as __wasm_call_dtors inside of it.
RunsGuestCode(s) ==
    /\ ~Spawning(s)
    /\ IF s = Main THEN dpc \in {"open"} \cup (IF DtorsSpawn THEN {"dtors"} ELSE {})
                   ELSE pc[s] = "running"

InMap(t) == \E h \in Handles : threadMap[h] = t

\* Mutant: the lambda keeps a shared pointer to the info that owns its std::thread.
NeverLast(refs, map) == {}

\* The thread objects whose last shared pointer goes when the snapshot and
\* the map are `refs' and `map'.
Unreferenced(refs, map) ==
    {t \in refs : spawner[t] = NoThread /\ \A h \in Handles : map[h] # t}

\* The deleter of pExecEnv: the sub-instance and the exec env are freed.
Release(S) == destroyed' = [t \in Threads |-> IF t \in S THEN destroyed[t] + 1 ELSE destroyed[t]]

\* exitLock is held over a blocking call only while the joiner is in join().
ExitLockFree(t) == ~(dpc = "hostjoin" /\ target = t)

-----------------------------------------------------------------------------
\* WasiPthreadExt::InitAppMainThreadInfo
Init ==
    /\ pc = [t \in Threads |-> "unborn"]
    /\ spawner = [t \in Threads |-> NoThread]
    /\ handleID = [t \in Threads |-> 0]
    /\ pHostThread = [t \in Threads |-> "null"]
    /\ waitCount = [t \in Threads |-> 0]
    /\ destroyed = [t \in Threads |-> 0]
    /\ threadMap = [h \in Handles |-> IF h = MainHandle THEN Main ELSE NoThread]
    /\ curHandleId = 1
    /\ stacks = {}
    /\ suspended = {}
    /\ exception = {}
    /\ dpc = "open"
    /\ batch = {} /\ toCancel = {} /\ toJoin = {}
    /\ target = NoThread
    /\ signaled = FALSE
    /\ crashed = FALSE

-----------------------------------------------------------------------------
(* WasiThreadSpawn, called by the guest on exec env s.                     *)

\* The sub-instance, its exec env and the thread info are created.  A failure
\* before the info exists frees both and changes nothing here.
SpawnBuild(s, t) ==
    /\ RunsGuestCode(s)
    /\ pc[t] = "unborn"
    /\ pc' = [pc EXCEPT ![t] = "building"]
    /\ spawner' = [spawner EXCEPT ![t] = s]
    /\ UNCHANGED <<handleID, pHostThread, waitCount, destroyed, mapVars, guestVars,
                   joinVars, crashed>>

\* wasm_runtime_module_malloc finds no room for the stack, or the exec env does
\* not take the one it found and it is given back: the error path erases the
\* handle of the info, which is still 0, from m_threadMap, and frees the
\* sub-instance and the exec env that the deleter frees again: the process may
\* survive that or not.
SpawnFail(s, t) ==
    /\ spawner[t] = s
    /\ pc[t] = "building"
    /\ Cardinality(stacks) = HeapStacks \/ AuxStackFails
    /\ pc' = [pc EXCEPT ![t] = "failed"]
    /\ spawner' = [spawner EXCEPT ![t] = NoThread]
    /\ threadMap' = [threadMap EXCEPT ![handleID[t]] = NoThread]
    /\ destroyed' = [destroyed EXCEPT ![t] = @ + 2]
    /\ crashed' \in BOOLEAN
    /\ UNCHANGED <<handleID, pHostThread, waitCount, curHandleId, guestVars, joinVars>>

\* The handle the loop over m_curHandleId++ stops at: the first that is free,
\* from m_curHandleId to the last handle and on from 0.
FirstFreeHandle(h) ==
    /\ threadMap[h] = NoThread
    /\ \A taken \in IF curHandleId <= h THEN curHandleId .. h - 1
                                      ELSE Handles \ (h .. curHandleId - 1) :
          threadMap[taken] # NoThread

\* Mutant: the counter does not wrap.
NextHandleNoWrap(h) == h + 1

NextHandle(h) == IF h + 1 = HandleMod THEN 0 ELSE h + 1

\* The stack is allocated, then the info enters m_threadMap under a new handle.
SpawnRegister(s, t) ==
    /\ spawner[t] = s
    /\ pc[t] = "building"
    /\ Cardinality(stacks) < HeapStacks
    /\ \E h \in Handles :
          /\ FirstFreeHandle(h)
          /\ handleID' = [handleID EXCEPT ![t] = h]
          /\ threadMap' = [threadMap EXCEPT ![h] = t]
          /\ curHandleId' = NextHandle(h)
    /\ stacks' = stacks \cup {t}
    /\ pc' = [pc EXCEPT ![t] = "registered"]
    /\ UNCHANGED <<spawner, pHostThread, waitCount, destroyed, suspended, exception,
                   joinVars, crashed>>

\* new std::thread: the host thread starts, pHostThread is not assigned yet.
SpawnStartHostThread(s, t) ==
    /\ spawner[t] = s
    /\ pc[t] = "registered"
    /\ pc' = [pc EXCEPT ![t] = "running"]
    /\ UNCHANGED <<infoVars, waitCount, mapVars, guestVars, joinVars, crashed>>

\* The constructor of std::thread has returned: pHostThread is assigned.
SpawnAssign(s, t) ==
    /\ spawner[t] = s
    /\ pc[t] \notin {"building", "registered"}
    /\ pHostThread[t] = "null"
    /\ pHostThread' = [pHostThread EXCEPT ![t] = "joinable"]
    /\ UNCHANGED <<pc, spawner, handleID, waitCount, destroyed, mapVars, guestVars,
                   joinVars, crashed>>

\* WasiThreadSpawn returns and its shared pointer goes.
SpawnReturn(s, t) ==
    /\ spawner[t] = s
    /\ pHostThread[t] # "null"
    /\ spawner' = [spawner EXCEPT ![t] = NoThread]
    /\ Release(IF InMap(t) \/ t \in batch THEN {} ELSE {t})
    /\ UNCHANGED <<pc, handleID, pHostThread, waitCount, mapVars, guestVars, joinVars,
                   crashed>>

-----------------------------------------------------------------------------
(* The host thread of t: the lambda in WasiThreadSpawn.                    *)

\* wasi_thread_start returns: it is finished or saw its suspend flag.
GuestReturn(t) ==
    /\ pc[t] = "running"
    /\ ~Spawning(t)
    /\ pc' = [pc EXCEPT ![t] = "exiting"]
    /\ UNCHANGED <<infoVars, waitCount, mapVars, guestVars, joinVars, crashed>>

\* wasi_thread_start traps.
GuestTrap(t) ==
    /\ pc[t] = "running"
    /\ ~Spawning(t)
    /\ pc' = [pc EXCEPT ![t] = "exiting"]
    /\ exception' = exception \cup {t}
    /\ UNCHANGED <<infoVars, waitCount, mapVars, stacks, suspended, joinVars, crashed>>

\* Mutant: only the other app threads are told.
SpreadToThreads(t) ==
    IF t \in exception THEN exception \cup {e \in Threads : InMap(e)} ELSE exception

\* Spreading an exception: to every exec env in m_threadMap.
Spread(t) ==
    IF t \in exception THEN exception \cup {e \in Execs : InMap(e)} ELSE exception

\* DoAppThreadExit, which does neither for the handle of the main thread, then
\* wasm_runtime_module_free of the stack.
AppThreadExit(t) ==
    /\ pc[t] = "exiting"
    /\ IF handleID[t] = MainHandle
       THEN UNCHANGED <<exception, suspended>>
       ELSE exception' = Spread(t) /\ suspended' = CancelAppThread(t)
    /\ stacks' = stacks \ {t}
    /\ pc' = [pc EXCEPT ![t] = "locking"]
    /\ UNCHANGED <<infoVars, waitCount, mapVars, joinVars, crashed>>

\* Mutant: a thread somebody waits for detaches itself too.
UnawaitedOrNot(t) == waitCount[t] >= 0

\* Nobody waits for the thread: it detaches itself.
Unawaited(t) == waitCount[t] = 0

\* Mutant: detach() is not called.
KeepJoinable(t) == UNCHANGED pHostThread

Detach(t) == pHostThread' = [pHostThread EXCEPT ![t] = "detached"]

ExitDetach(t) ==
    /\ pc[t] = "locking"
    /\ ExitLockFree(t)
    /\ Unawaited(t)
    /\ pHostThread[t] # "null"
    /\ Detach(t)
    /\ waitCount' = [waitCount EXCEPT ![t] = -1]
    /\ pc' = [pc EXCEPT ![t] = "exited"]
    /\ UNCHANGED <<spawner, handleID, destroyed, mapVars, guestVars, joinVars, crashed>>

\* The thread reaches detach() before its spawner has assigned pHostThread.
ExitDetachNull(t) ==
    /\ pc[t] = "locking"
    /\ ExitLockFree(t)
    /\ Unawaited(t)
    /\ pHostThread[t] = "null"
    /\ crashed' = TRUE
    /\ UNCHANGED <<pc, infoVars, waitCount, mapVars, guestVars, joinVars>>

\* exitCV.notify_all(): the joiner is told, and joins.
ExitNotify(t) ==
    /\ pc[t] = "locking"
    /\ ExitLockFree(t)
    /\ ~Unawaited(t)
    /\ signaled' = (signaled \/ (dpc = "waiting" /\ target = t))
    /\ pc' = [pc EXCEPT ![t] = "exited"]
    /\ UNCHANGED <<infoVars, waitCount, mapVars, guestVars, dpc, batch, toCancel, toJoin,
                   target, crashed>>

HostThreadEnd(t) ==
    /\ pc[t] = "exited"
    /\ pc' = [pc EXCEPT ![t] = "done"]
    /\ UNCHANGED <<infoVars, waitCount, mapVars, guestVars, joinVars, crashed>>

-----------------------------------------------------------------------------
(* wamr_ext_instance_destroy: CleanupAppThreadInfo, the destructors and    *)
(* the end of the wasm instance.                                           *)

\* Mutant: destroy does not take execFuncLock.
NoExecFuncLock == TRUE

\* execFuncLock is free: no call into the guest is in progress on the main exec env.
ExecFuncLockFree == ~Spawning(Main)

DestroyBegin ==
    /\ dpc = "open"
    /\ ExecFuncLockFree
    /\ dpc' = "snapshot"
    /\ UNCHANGED <<pc, infoVars, waitCount, mapVars, guestVars, batch, toCancel, toJoin,
                   target, signaled, crashed>>

\* Mutant: threads that exited already are passed over.
LiveThreadInfo ==
    {t \in Threads : waitCount[t] >= 0 /\ \E h \in Handles \ {MainHandle} : threadMap[h] = t}

\* allThreadInfo: what m_threadMap holds apart from the main thread.
AllThreadInfo == {t \in Threads : \E h \in Handles \ {MainHandle} : threadMap[h] = t}

CleanupSnapshot ==
    /\ dpc = "snapshot"
    /\ batch' = AllThreadInfo
    /\ toCancel' = AllThreadInfo
    /\ toJoin' = AllThreadInfo
    /\ dpc' = IF AllThreadInfo = {} THEN "exitMain" ELSE "cancel"
    /\ UNCHANGED <<pc, infoVars, waitCount, mapVars, guestVars, target, signaled, crashed>>

CleanupCancel(t) ==
    /\ dpc = "cancel"
    /\ t \in toCancel
    /\ suspended' = CancelAppThread(t)
    /\ toCancel' = toCancel \ {t}
    /\ dpc' = IF toCancel = {t} THEN "join" ELSE dpc
    /\ UNCHANGED <<pc, infoVars, waitCount, mapVars, stacks, exception, batch, toJoin,
                   target, signaled, crashed>>

\* Mutant: a thread that still runs counts as exited.
ExitedOrUnawaited(t) == waitCount[t] <= 0

\* waitCount < 0: the thread exited or was detached.
ExitedOrDetached(t) == waitCount[t] < 0

\* DoHostThreadJoin up to exitCV.wait(), which gives exitLock back.
JoinEnter(t) ==
    /\ dpc = "join"
    /\ t \in toJoin
    /\ target' = t
    /\ IF ExitedOrDetached(t)
       THEN /\ dpc' = "erase"
            /\ UNCHANGED <<waitCount, signaled>>
       ELSE /\ dpc' = "waiting"
            /\ waitCount' = [waitCount EXCEPT ![t] = @ + 1]
            /\ signaled' = FALSE
    /\ UNCHANGED <<pc, infoVars, mapVars, guestVars, batch, toCancel, toJoin, crashed>>

WaitReturns == signaled \/ SpuriousWakeups

\* wait() returns with exitLock held.  Only the destroying thread ever waits,
\* so waitCount is 0 again and it goes on to join() without giving exitLock back.
JoinWake ==
    /\ dpc = "waiting"
    /\ WaitReturns
    /\ pHostThread[target] # "null"
    /\ waitCount' = [waitCount EXCEPT ![target] = @ - 1]
    /\ dpc' = "hostjoin"
    /\ UNCHANGED <<pc, infoVars, mapVars, guestVars, batch, toCancel, toJoin, target,
                   signaled, crashed>>

\* The joiner reaches join() before the spawner has assigned pHostThread.
JoinWakeNull ==
    /\ dpc = "waiting"
    /\ WaitReturns
    /\ pHostThread[target] = "null"
    /\ crashed' = TRUE
    /\ UNCHANGED <<pc, infoVars, waitCount, mapVars, guestVars, joinVars>>

\* Mutant: join() is skipped.
NotJoined(t) == TRUE

\* join() returns when the host thread has terminated.
JoinReturns(t) == pc[t] = "done"

HostJoined ==
    /\ dpc = "hostjoin"
    /\ JoinReturns(target)
    /\ pHostThread' = [pHostThread EXCEPT ![target] = "joined"]
    /\ waitCount' = [waitCount EXCEPT ![target] = -1]
    /\ dpc' = "erase"
    /\ UNCHANGED <<pc, spawner, handleID, destroyed, mapVars, guestVars, batch, toCancel,
                   toJoin, target, signaled, crashed>>

\* Mutant: one round of cancelling and joining is enough.
OneRound == "exitMain"

NextRound == "snapshot"

\* The entry leaves m_threadMap; after the last one the snapshot goes too.
JoinErase ==
    /\ dpc = "erase"
    /\ threadMap' = [threadMap EXCEPT ![handleID[target]] = NoThread]
    /\ toJoin' = toJoin \ {target}
    /\ target' = NoThread
    /\ IF toJoin = {target}
       THEN /\ dpc' = NextRound
            /\ batch' = {}
            /\ Release(Unreferenced(batch, threadMap'))
       ELSE /\ dpc' = "join"
            /\ UNCHANGED <<batch, destroyed>>
    /\ UNCHANGED <<pc, spawner, handleID, pHostThread, waitCount, curHandleId, guestVars,
                   toCancel, signaled, crashed>>

\* DoAppThreadExit(pMainExecEnv) reads the handle from the main thread's info.
\* Without an entry in m_threadMap that info has been freed: any handle may be
\* read, and one that is not 0 makes the main exec env cancel itself.
ExitMain ==
    /\ dpc = "exitMain"
    /\ \/ UNCHANGED suspended
       \/ ~InMap(Main) /\ suspended' = suspended \cup {Main}
    /\ dpc' = "dtors"
    /\ UNCHANGED <<pc, infoVars, waitCount, mapVars, stacks, exception, batch, toCancel,
                   toJoin, target, signaled, crashed>>

\* After __wasm_call_dtors: the main exec env and the wasm instance are freed.
\* A thread the destructors left running works with freed memory from here on.
Deinstantiate ==
    /\ dpc = "dtors"
    /\ ~Spawning(Main)
    /\ dpc' = "dead"
    /\ crashed' \in IF \E t \in Threads : UsesInfo(t) THEN BOOLEAN ELSE {FALSE}
    /\ UNCHANGED <<pc, infoVars, waitCount, mapVars, guestVars, batch, toCancel, toJoin,
                   target, signaled>>

\* A std::thread that is neither joined nor detached ends the process when it is
\* destroyed with its info.
DiesJoinable(t) == pHostThread[t] = "joinable"

\* The loop thread deletes the WamrExtInstance, and with it m_threadMap and the
\* last shared pointer to each info of a thread that nobody has joined.
DeleteInstance ==
    LET empty == [h \in Handles |-> NoThread]
        last == Unreferenced({t \in Threads : InMap(t)}, empty)
    IN  /\ dpc = "dead"
        /\ threadMap' = empty
        /\ Release(last)
        /\ dpc' = "deleted"
        /\ crashed' \in IF \E t \in last : DiesJoinable(t) THEN {TRUE}
                        ELSE IF \E t \in Threads : UsesInfo(t) THEN BOOLEAN ELSE {FALSE}
        /\ UNCHANGED <<pc, spawner, handleID, pHostThread, waitCount, curHandleId, guestVars,
                       batch, toCancel, toJoin, target, signaled>>

-----------------------------------------------------------------------------
Spawn(s, t) ==
    \/ SpawnBuild(s, t)
    \/ SpawnFail(s, t)
    \/ SpawnRegister(s, t)
    \/ SpawnStartHostThread(s, t)
    \/ SpawnAssign(s, t)
    \/ SpawnReturn(s, t)

Exit(t) ==
    \/ AppThreadExit(t)
    \/ ExitDetach(t)
    \/ ExitDetachNull(t)
    \/ ExitNotify(t)
    \/ HostThreadEnd(t)

Cleanup ==
    \/ CleanupSnapshot
    \/ \E t \in Threads : CleanupCancel(t) \/ JoinEnter(t)
    \/ JoinWake
    \/ JoinWakeNull
    \/ HostJoined
    \/ JoinErase
    \/ ExitMain

Next ==
    /\ ~crashed
    /\ \/ \E s \in Execs, t \in Threads : Spawn(s, t)
       \/ \E t \in Threads : GuestReturn(t) \/ GuestTrap(t) \/ Exit(t)
       \/ DestroyBegin
       \/ Cleanup
       \/ Deinstantiate
       \/ DeleteInstance

Spec == Init /\ [][Next]_vars

\* The scheduler runs every host thread, a call of WasiThreadSpawn goes on, the
\* destroying thread goes on (out of the wait once it has been notified: nothing
\* makes a wakeup come without it), and guest code on a cancelled exec env returns.
\* Guest code that was not cancelled may run for ever.
Fairness ==
    /\ \A t \in Threads :
          /\ WF_vars(~crashed /\ \E s \in Execs : Spawn(s, t) /\ pc[t] # "unborn")
          /\ WF_vars(~crashed /\ Exit(t))
          /\ WF_vars(~crashed /\ t \in suspended /\ GuestReturn(t))
    /\ WF_vars(~crashed /\ (dpc = "waiting" => signaled) /\ Cleanup)

FairSpec == Spec /\ Fairness

-----------------------------------------------------------------------------
TypeOK ==
    /\ pc \in [Threads -> ThreadStates]
    /\ spawner \in [Threads -> Execs \cup {NoThread}]
    /\ handleID \in [Threads -> Handles]
    /\ pHostThread \in [Threads -> {"null", "joinable", "detached", "joined"}]
    /\ waitCount \in [Threads -> {-1, 0, 1}]
    /\ destroyed \in [Threads -> 0 .. 2]
    /\ threadMap \in [Handles -> Execs \cup {NoThread}]
    /\ curHandleId \in Handles
    /\ stacks \in SUBSET Threads
    /\ suspended \in SUBSET Execs
    /\ exception \in SUBSET Execs
    /\ dpc \in DestroyStates
    /\ batch \in SUBSET Threads
    /\ toCancel \in SUBSET batch
    /\ toJoin \in SUBSET batch
    /\ target \in Threads \cup {NoThread}
    /\ signaled \in BOOLEAN
    /\ crashed \in BOOLEAN

\* A host thread works with a plain pointer to its info (the lambda's
\* pCurThreadInfo): neither the info nor the exec env and the sub-instance
\* inside it are freed before the thread has used them for the last time,
\* whoever drops the last of the shared pointers: the spawner, the destroying
\* thread or the loop thread that deletes the instance.
InfoOutlivesThread == \A t \in Threads : UsesInfo(t) => destroyed[t] = 0

\* ~ExecEnvThreadInfo deletes pHostThread, and the destructor of a std::thread
\* that is still joinable ends the process: before an info is freed its thread
\* has been joined or has detached itself.  (An info whose spawn failed has none.)
JoinedOrDetachedBeforeFree ==
    \A t \in Threads :
        destroyed[t] > 0 /\ pc[t] # "failed" => pHostThread[t] \in {"joined", "detached"}

\* The three holders of an info let go of it in any order, and none of them keeps
\* it: a thread's sub-instance and exec env are freed once and not again, and when
\* the instance is deleted they have been.
InfoFreedOnce ==
    \A t \in Threads : pc[t] \notin {"unborn", "building", "failed"} =>
        /\ destroyed[t] <= 1
        /\ dpc = "deleted" => destroyed[t] = 1

\* exitCV.wait() has no predicate, so a notification must not come before the
\* wait: while the destroying thread waits, it has been notified or the thread
\* it waits for has its exitLock section still ahead of it.
NoLostWakeup == dpc = "waiting" => signaled \/ UsesInfo(target)

\* The cleanup finds threads through m_threadMap: a thread that runs, or is
\* about to, has the entry of its handle.
HandlesConsistent ==
    dpc # "deleted" => \A t \in Threads : UsesInfo(t) => threadMap[handleID[t]] = t

\* When CleanupAppThreadInfo leaves its loop no app thread uses the instance
\* and none is being started, though the threads it cancelled could start new
\* ones until they stopped; with destructors that start no thread that is still
\* so when the instance is freed.
QuietAfterCleanup ==
    dpc \in {"exitMain", "dtors", "dead", "deleted"} =>
        \A t \in Threads : pc[t] \in {"unborn", "failed", "exited", "done"}

\* assert(pManager->m_threadMap.size() == 1) at the end of CleanupAppThreadInfo.
CleanupAssert == dpc = "dtors" => Cardinality({h \in Handles : threadMap[h] # NoThread}) = 1

NoSpawnFailed == \A t \in Threads : pc[t] # "failed"

\* That assertion holds in an instance none of whose spawns has failed, whatever
\* threads come and go between the rounds of the cleanup.
OneEntryLeftByCleanup == NoSpawnFailed => CleanupAssert

\* The loop thread looks for an exception in the main wasm instance only: a
\* trap of any app thread is there when the thread's DoAppThreadExit is over, if
\* no failed spawn has taken the main thread out of m_threadMap.
TrapReachesMain ==
    NoSpawnFailed => \A t \in Threads :
        t \in exception /\ pc[t] \in {"locking", "exited", "done"} => Main \in exception

\* CleanupAppThreadInfo ends: every thread it finds stops, is joined and its
\* entry goes, or the process dies.  One thing may keep it for ever: a wakeup from
\* exitCV.wait() without a notification takes it to join() with exitLock held,
\* while the thread still has that lock to take.
CleanupTerminates ==
    dpc = "snapshot" ~> dpc = "dtors" \/ crashed \/ (dpc = "hostjoin" /\ ~signaled)

-----------------------------------------------------------------------------
\* What the thread manager promises its callers: AppThreads, with a thread alive
\* from its registration to the end of its exitLock section.
Status(t) ==
    IF UsesInfo(t) THEN "alive" ELSE IF pc[t] \in {"exited", "done"} THEN "gone" ELSE "unborn"

StatusMap == [t \in Threads |-> Status(t)]

Closed == dpc \in {"exitMain", "dtors", "dead", "deleted"}

Abstract == INSTANCE AppThreads WITH status <- StatusMap, closed <- Closed

\* Every behaviour of the thread manager is one of AppThreads: a thread lives
\* once, and after the cleanup none is alive and none starts.
ImplementsAppThreads == Abstract!Spec

=============================================================================
