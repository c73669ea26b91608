-------------------------- MODULE InstanceLifecycle --------------------------
(***************************************************************************)
(* The life of a WamrExtInstance: the API calls that create, start, run    *)
(* and destroy it, made by any thread of the embedder, and the routine of  *)
(* the loop thread (LoopCheckInstanceRoutine) that looks every 100 ms for  *)
(* an exception, calls the exception callback and deletes what was         *)
(* destroyed.                                                              *)
(*                                                                         *)
(* No thread blocks inside a critical section of gWasmLock or instanceLock *)
(* (the callback runs with both released), so each is one step.            *)
(* execFuncLock is held while guest code runs: it is a variable.           *)
(***************************************************************************)
EXTENDS Integers, Sequences, SequencesExt

CONSTANTS
    Instances,   \* the WamrExtInstance objects that may be created
    Clients,     \* the embedder's threads
    Loop,        \* the loop thread, a client while it is in the callback
    None,        \* null pointer, nobody
    StartFaults  \* which steps of start may fail: "instantiate", "exec env", "memory"

ASSUME NamesAssumption == Loop \notin Clients /\ None \notin Instances \cup Clients \cup {Loop}

ASSUME FaultsAssumption == StartFaults \subseteq {"instantiate", "exec env", "memory"}

Callers == Clients \cup {Loop}

STATE_NEW == 0
STATE_STARTED == 1
STATE_ENDED == 2
STATE_DESTROYING == 3
STATE_DESTROYED == 4

VARIABLES
    pc,            \* per caller: where it is in an API call, "idle" outside
    cur,           \* per caller: pInst of that call
    bRunDtor,      \* per caller: the local variable of destroy
    handle,        \* instances whose user handle *inst is set
    state,         \* WamrExtInstance::state
    exceptionCB,   \* instances with config.exceptionCB.func
    wasm,          \* instances whose wasmMainInstance is instantiated
    execEnv,       \* instances with a pMainExecEnv
    customData,    \* instances wasmMainInstance's custom data points to
    exception,     \* instances whose wasmMainInstance has an exception
    execFuncLock,  \* who holds it
    leaked,        \* instances that lost a wasmMainInstance without freeing it
    notified,      \* per instance: calls of the exception callback
    list,          \* gAllInstanceList
    loopPc,        \* where LoopCheckInstanceRoutine is
    it,            \* instanceListIt
    held,          \* pInst of the loop thread, a shared pointer
    doomed,        \* bInstDestroyed
    freed,         \* instances that have been deleted
    crashed        \* the process died on a null or dangling pointer

callVars == <<pc, cur, bRunDtor>>
wasmVars == <<wasm, execEnv, customData, exception, leaked>>
loopVars == <<list, loopPc, it, held, doomed, freed, notified>>
vars == <<callVars, handle, state, exceptionCB, wasmVars, execFuncLock, loopVars, crashed>>

-----------------------------------------------------------------------------
Init ==
    /\ pc = [c \in Callers |-> "idle"]
    /\ cur = [c \in Callers |-> None]
    /\ bRunDtor = [c \in Callers |-> FALSE]
    /\ handle = {}
    /\ state = [i \in Instances |-> STATE_NEW]
    /\ exceptionCB = {}
    /\ wasm = {} /\ execEnv = {} /\ customData = {} /\ exception = {} /\ leaked = {}
    /\ execFuncLock = [i \in Instances |-> None]
    /\ notified = [i \in Instances |-> 0]
    /\ list = <<>>
    /\ loopPc = "idle"
    /\ it = None /\ held = None
    /\ doomed = FALSE
    /\ freed = {}
    /\ crashed = FALSE

\* The loop thread calls the API from the callback only, which may make every call.
MayCall(c) ==
    /\ pc[c] = "idle"
    /\ c = Loop => loopPc = "callback"

Goto(c, l) == pc' = [pc EXCEPT ![c] = l]

\* The call returns.  The lock guard of execFuncLock goes, if it was taken.
Return(c) ==
    /\ pc' = [pc EXCEPT ![c] = "idle"]
    /\ cur' = [cur EXCEPT ![c] = None]
    /\ execFuncLock' = [i \in Instances |-> IF execFuncLock[i] = c THEN None ELSE execFuncLock[i]]

-----------------------------------------------------------------------------
\* wamr_ext_instance_create: the user's handle is set before the instance is in
\* the list.
CreateNew(c, i) ==
    /\ MayCall(c)
    /\ i \notin handle /\ state[i] = STATE_NEW /\ ~Contains(list, i)
    /\ \A d \in Callers : pc[d] = "listing" => cur[d] # i
    /\ handle' = handle \cup {i}
    /\ Goto(c, "listing")
    /\ cur' = [cur EXCEPT ![c] = i]
    /\ UNCHANGED <<bRunDtor, state, exceptionCB, wasmVars, execFuncLock, loopVars, crashed>>

CreateList(c) ==
    /\ pc[c] = "listing"
    /\ list' = Append(list, cur[c])
    /\ Return(c)
    /\ UNCHANGED <<bRunDtor, handle, state, exceptionCB, wasmVars, loopPc, it, held, doomed,
                   freed, notified, crashed>>

\* The other calls read *inst, without a lock.
Enter(c, i) ==
    /\ MayCall(c)
    /\ i \in handle
    /\ \E call \in {"set_opt", "start", "exec_main", "destroy"} : Goto(c, call)
    /\ cur' = [cur EXCEPT ![c] = i]
    /\ UNCHANGED <<bRunDtor, handle, state, exceptionCB, wasmVars, execFuncLock, loopVars, crashed>>

\* wamr_ext_instance_set_opt, of its options the exception callback.
SetOpt(c) ==
    /\ pc[c] = "set_opt"
    /\ exceptionCB' = exceptionCB \cup {cur[c]}
    /\ Return(c)
    /\ UNCHANGED <<bRunDtor, handle, state, wasmVars, loopVars, crashed>>

\* Mutant: the call does not wait for execFuncLock.
NoWait(i) == TRUE

ExecFuncLockFree(i) == execFuncLock[i] = None

\* The call gets execFuncLock and finds the state it needs.
Locked(c, call, states, next) ==
    /\ pc[c] = call
    /\ ExecFuncLockFree(cur[c])
    /\ state[cur[c]] \in states
    /\ execFuncLock' = [execFuncLock EXCEPT ![cur[c]] = c]
    /\ Goto(c, next)
    /\ UNCHANGED cur

\* The call gets execFuncLock, finds another state and returns.
Refused(c, call, states) ==
    /\ pc[c] = call
    /\ ExecFuncLockFree(cur[c])
    /\ state[cur[c]] \notin states
    /\ Return(c)

-----------------------------------------------------------------------------
\* Mutant: an instance that has ended can be started again.
StartableAgain == {STATE_NEW, STATE_ENDED}

Startable == {STATE_NEW}

\* wamr_ext_instance_start.
StartLock(c) ==
    /\ Locked(c, "start", Startable, "instantiate") \/ Refused(c, "start", Startable)
    /\ UNCHANGED <<bRunDtor, handle, state, exceptionCB, wasmVars, loopVars, crashed>>

\* wasm_runtime_instantiate fails: nothing has changed, the state is still NEW.
StartNoInstance(c) ==
    /\ pc[c] = "instantiate"
    /\ "instantiate" \in StartFaults
    /\ leaked' = leaked \cup ({cur[c]} \cap wasm)
    /\ wasm' = wasm \ {cur[c]}
    /\ Return(c)
    /\ UNCHANGED <<bRunDtor, handle, state, exceptionCB, execEnv, customData, exception, loopVars,
                   crashed>>

\* A new wasmMainInstance takes the place of what an earlier call has left there.
Instantiate(i) ==
    /\ leaked' = leaked \cup ({i} \cap wasm)
    /\ wasm' = wasm \cup {i}
    /\ exception' = exception \ {i}

\* wasm_runtime_create_exec_env fails: the wasm instance stays, the state is NEW.
StartNoExecEnv(c) ==
    /\ pc[c] = "instantiate"
    /\ "exec env" \in StartFaults
    /\ Instantiate(cur[c])
    /\ Return(c)
    /\ UNCHANGED <<bRunDtor, handle, state, exceptionCB, execEnv, customData, loopVars, crashed>>

\* No memory for config.maxMemory: ENDED, before the custom data is set.
StartNoMemory(c) ==
    /\ pc[c] = "instantiate"
    /\ "memory" \in StartFaults
    /\ Instantiate(cur[c])
    /\ execEnv' = execEnv \cup {cur[c]}
    /\ state' = [state EXCEPT ![cur[c]] = STATE_ENDED]
    /\ Return(c)
    /\ UNCHANGED <<bRunDtor, handle, exceptionCB, customData, loopVars, crashed>>

StartInstantiate(c) ==
    /\ pc[c] = "instantiate"
    /\ Instantiate(cur[c])
    /\ execEnv' = execEnv \cup {cur[c]}
    /\ customData' = customData \cup {cur[c]}
    /\ Goto(c, "initialize")
    /\ UNCHANGED <<cur, bRunDtor, handle, state, exceptionCB, execFuncLock, loopVars, crashed>>

\* _initialize returns.
StartDone(c) ==
    /\ pc[c] = "initialize"
    /\ state' = [state EXCEPT ![cur[c]] = STATE_STARTED]
    /\ Return(c)
    /\ UNCHANGED <<bRunDtor, handle, exceptionCB, wasmVars, loopVars, crashed>>

\* There is no _initialize, or it traps.
StartTrap(c) ==
    /\ pc[c] = "initialize"
    /\ exception' \in {exception, exception \cup {cur[c]}}
    /\ state' = [state EXCEPT ![cur[c]] = STATE_ENDED]
    /\ Return(c)
    /\ UNCHANGED <<bRunDtor, handle, exceptionCB, wasm, execEnv, customData, leaked, loopVars, crashed>>

-----------------------------------------------------------------------------
\* Mutant: only an instance that was never started is refused.
NotNew == STATE_STARTED .. STATE_DESTROYED

Runnable == {STATE_STARTED}

\* wamr_ext_instance_exec_main_func.
ExecLock(c) ==
    /\ Locked(c, "exec_main", Runnable, "main") \/ Refused(c, "exec_main", Runnable)
    /\ UNCHANGED <<bRunDtor, handle, state, exceptionCB, wasmVars, loopVars, crashed>>

ExecReturn(c) ==
    /\ pc[c] = "main"
    /\ Return(c)
    /\ UNCHANGED <<bRunDtor, handle, state, exceptionCB, wasmVars, loopVars, crashed>>

\* App threads exist from _initialize on until destroy has joined them.
AppThreadsRun(i) ==
    i \in customData /\ \A c \in Callers : ~(pc[c] = "teardown" /\ cur[c] = i)

\* A trap in main() or in an app thread, which spreads it to the main instance.
GuestTrap(i) ==
    /\ AppThreadsRun(i)
    /\ i \notin exception
    /\ exception' = exception \cup {i}
    /\ UNCHANGED <<callVars, handle, state, exceptionCB, wasm, execEnv, customData, leaked,
                   execFuncLock, loopVars, crashed>>

-----------------------------------------------------------------------------
\* Mutant: the state stays what it was until the instance is torn down.
NotMarked(i) == state[i]

MarkDestroying(i) == STATE_DESTROYING

\* wamr_ext_instance_destroy.
DestroyLock(c) ==
    /\ Locked(c, "destroy", STATE_NEW .. STATE_ENDED, "cleanup")
    /\ bRunDtor' = [bRunDtor EXCEPT ![c] = state[cur[c]] = STATE_STARTED]
    /\ state' = [state EXCEPT ![cur[c]] = MarkDestroying(cur[c])]
    /\ UNCHANGED <<handle, exceptionCB, wasmVars, loopVars, crashed>>

\* Destroyed, or being destroyed, by another call.
DestroyAgain(c) ==
    /\ Refused(c, "destroy", STATE_NEW .. STATE_ENDED)
    /\ handle' = handle \ {cur[c]}
    /\ UNCHANGED <<bRunDtor, state, exceptionCB, wasmVars, loopVars, crashed>>

\* CleanupAppThreadInfo, which finds the instance in the custom data.
DestroyCleanup(c) ==
    /\ pc[c] = "cleanup"
    /\ cur[c] \notin execEnv \/ cur[c] \in customData
    /\ Goto(c, "teardown")
    /\ UNCHANGED <<cur, bRunDtor, handle, state, exceptionCB, wasmVars, execFuncLock, loopVars,
                   crashed>>

DestroyCleanupNull(c) ==
    /\ pc[c] = "cleanup"
    /\ cur[c] \in execEnv \ customData
    /\ crashed' = TRUE
    /\ UNCHANGED <<callVars, handle, state, exceptionCB, wasmVars, execFuncLock, loopVars>>

\* The destructors run if bRunDtor, then exec env and wasm instance are freed.
DestroyTeardown(c) ==
    /\ pc[c] = "teardown"
    /\ execEnv' = execEnv \ {cur[c]}
    /\ wasm' = wasm \ {cur[c]}
    /\ customData' = customData \ {cur[c]}
    /\ exception' = exception \ {cur[c]}
    /\ Goto(c, "mark")
    /\ UNCHANGED <<cur, bRunDtor, handle, state, exceptionCB, leaked, execFuncLock, loopVars,
                   crashed>>

\* DESTROYED under instanceLock, which is released first.
DestroyMark(c) ==
    /\ pc[c] = "mark"
    /\ state' = [state EXCEPT ![cur[c]] = STATE_DESTROYED]
    /\ handle' = handle \ {cur[c]}
    /\ Goto(c, "unlock")
    /\ UNCHANGED <<cur, bRunDtor, exceptionCB, wasmVars, execFuncLock, loopVars, crashed>>

\* Then execFuncLock is, and the call returns.
DestroyUnlock(c) ==
    /\ pc[c] = "unlock"
    /\ Return(c)
    /\ UNCHANGED <<bRunDtor, handle, state, exceptionCB, wasmVars, loopVars, crashed>>

\* Whatever a call does with a deleted instance, it may die of it.
UseAfterFree(c) ==
    /\ cur[c] \in freed
    /\ crashed' = TRUE
    /\ UNCHANGED <<callVars, handle, state, exceptionCB, wasmVars, execFuncLock, loopVars>>

-----------------------------------------------------------------------------
\* Mutant: the routine ends after its first instance.
NothingFollows(i) == None

\* Where an iterator to i stands.
Position(i) == CHOOSE n \in DOMAIN list : list[n] = i

\* What follows i in the list, None at its end.
Following(i) == IF Position(i) = Len(list) THEN None ELSE list[Position(i) + 1]

\* Mutant: whatever pInst holds, the null pointer too, is deleted.
DroppedNull(l) == IF Contains(l, held) THEN {} ELSE {held}

\* The instance the loop thread drops its shared pointer of, if it was the last.
Dropped(l) == IF held = None \/ Contains(l, held) THEN {} ELSE {held}

LoopBegin ==
    /\ loopPc = "idle"
    /\ list # <<>>
    /\ it' = Head(list)
    /\ loopPc' = "visit"
    /\ UNCHANGED <<callVars, handle, state, exceptionCB, wasmVars, execFuncLock, list, held,
                   doomed, freed, notified, crashed>>

\* Mutant: the state is left alone.
StillStarted(i) == state[i]

MarkEnded(i) == STATE_ENDED

\* A running instance has an exception: ENDED, and the callback if there is one.
LoopReport ==
    /\ state[it] = STATE_STARTED
    /\ it \in exception
    /\ state' = [state EXCEPT ![it] = MarkEnded(it)]
    /\ loopPc' = IF it \in exceptionCB THEN "callback" ELSE "advance"
    /\ notified' = [notified EXCEPT ![it] = IF it \in exceptionCB THEN @ + 1 ELSE @]
    /\ doomed' = FALSE

\* Mutant: an instance that is being destroyed is deleted.
DestroyBegun(i) == state[i] >= STATE_DESTROYING

\* Mutant: the wrong constant.
DestroyingOnly(i) == state[i] = STATE_DESTROYING

Destroyed(i) == state[i] = STATE_DESTROYED

LoopPass ==
    /\ ~(state[it] = STATE_STARTED /\ it \in exception)
    /\ doomed' = Destroyed(it)
    /\ loopPc' = "advance"
    /\ UNCHANGED <<state, notified>>

\* pInst takes the next instance and looks at its state under instanceLock.
LoopVisit ==
    /\ loopPc = "visit"
    /\ held' = it
    /\ freed' = freed \cup Dropped(list)
    /\ LoopReport \/ LoopPass
    /\ UNCHANGED <<callVars, handle, exceptionCB, wasmVars, execFuncLock, list, it, crashed>>

\* The callback returns; what happened to the state meanwhile is not looked at.
LoopCallbackEnd ==
    /\ loopPc = "callback"
    /\ pc[Loop] = "idle"
    /\ loopPc' = "advance"
    /\ UNCHANGED <<callVars, handle, state, exceptionCB, wasmVars, execFuncLock, list, it, held,
                   doomed, freed, notified, crashed>>

\* Under gWasmLock: on to the next instance, or to the end of the routine.
LoopAdvance ==
    /\ loopPc = "advance"
    /\ it' = Following(it)
    /\ list' = IF doomed THEN RemoveAt(list, Position(it)) ELSE list
    /\ IF it' = None
       THEN /\ loopPc' = "idle"
            /\ held' = None
            /\ freed' = freed \cup Dropped(list')
       ELSE /\ loopPc' = "visit"
            /\ UNCHANGED <<held, freed>>
    /\ UNCHANGED <<callVars, handle, state, exceptionCB, wasmVars, execFuncLock, doomed,
                   notified, crashed>>

-----------------------------------------------------------------------------
\* A step of a call that is not the choice of the embedder or the guest.
CallStep(c) ==
    \/ CreateList(c) \/ SetOpt(c)
    \/ StartLock(c) \/ StartNoInstance(c) \/ StartNoExecEnv(c) \/ StartNoMemory(c)
    \/ StartInstantiate(c)
    \/ ExecLock(c)
    \/ DestroyLock(c) \/ DestroyAgain(c) \/ DestroyCleanup(c) \/ DestroyCleanupNull(c)
    \/ DestroyTeardown(c) \/ DestroyMark(c) \/ DestroyUnlock(c) \/ UseAfterFree(c)

GuestReturns(c) == StartDone(c) \/ StartTrap(c) \/ ExecReturn(c)

LoopStep == LoopBegin \/ LoopVisit \/ LoopCallbackEnd \/ LoopAdvance

Next ==
    /\ ~crashed
    /\ \/ \E c \in Callers : CallStep(c) \/ GuestReturns(c)
       \/ \E c \in Callers, i \in Instances : CreateNew(c, i) \/ Enter(c, i)
       \/ \E i \in Instances : GuestTrap(i)
       \/ LoopStep

Spec == Init /\ [][Next]_vars

\* Every call goes on, the timer of the loop thread keeps firing, guest code
\* returns once its instance has an exception, and the callback returns, whatever
\* calls it makes and waits for: that is the embedder's part.
Fairness ==
    /\ \A c \in Callers :
          /\ WF_vars(~crashed /\ CallStep(c))
          /\ WF_vars(~crashed /\ cur[c] \in exception /\ GuestReturns(c))
    /\ WF_vars(~crashed /\ LoopStep)
    /\ []<>(loopPc # "callback" \/ crashed)

FairSpec == Spec /\ Fairness

-----------------------------------------------------------------------------
TypeOK ==
    /\ pc \in [Callers -> {"idle", "listing", "set_opt", "start", "exec_main", "destroy",
                            "instantiate", "initialize", "main", "cleanup", "teardown", "mark",
                            "unlock"}]
    /\ cur \in [Callers -> Instances \cup {None}]
    /\ bRunDtor \in [Callers -> BOOLEAN]
    /\ state \in [Instances -> STATE_NEW .. STATE_DESTROYED]
    /\ {handle, exceptionCB, wasm, execEnv, customData, exception, leaked, freed}
          \subseteq SUBSET Instances
    /\ execFuncLock \in [Instances -> Callers \cup {None}]
    /\ notified \in [Instances -> Nat]
    /\ list \in Seq(Instances)
    /\ loopPc \in {"idle", "visit", "callback", "advance"}
    /\ it \in Instances \cup {None}
    /\ held \in Instances \cup {None}
    /\ doomed \in BOOLEAN
    /\ crashed \in BOOLEAN

\* The loop thread reads the exception of wasmMainInstance without execFuncLock,
\* whenever it finds STATE_STARTED: that state must never be seen with a wasm
\* instance that is not there yet or not there any more.
StartedIsLive == \A i \in Instances : state[i] = STATE_STARTED => i \in wasm \cap execEnv

\* Guest code of the main exec env: _initialize, main and the destructors.
RunsGuest(c) ==
    \/ pc[c] \in {"initialize", "main"}
    \/ pc[c] \in {"cleanup", "teardown"} /\ bRunDtor[c]

\* Guest code runs on the main exec env only in a complete wasm instance, and one
\* call at a time, whatever calls race with start and destroy.
GuestRunsAlone ==
    \A c \in Callers : RunsGuest(c) =>
        /\ cur[c] \in wasm \cap execEnv \cap customData
        /\ \A d \in Callers \ {c} : RunsGuest(d) => cur[d] # cur[c]

\* An instance is deleted by the loop thread only: after destroy has freed its
\* wasm instance, and never while the list still holds it.
FreedAfterTeardown ==
    \A i \in freed : state[i] = STATE_DESTROYED /\ i \notin wasm /\ ~Contains(list, i)

\* The user is told of an exception at most once, though traps, restarts of the
\* routine and calls from the callback go on.
CallbackOnce == \A i \in Instances : notified[i] <= 1

\* Two locks guard the state and three threads write it, the loop thread without
\* execFuncLock: no write ever takes an instance back to an earlier state.
StateForward == [][\A i \in Instances : state'[i] >= state[i]]_vars

\* start overwrites wasmMainInstance, and loses what was there, only after an earlier
\* start that got the wasm instance and not the exec env: in no other order of failed
\* and repeated calls, of one thread or several, is a wasm instance lost.
LostByHalfStartOnly == [][\A i \in leaked' \ leaked : i \in wasm \ execEnv]_vars

\* An exception of a running instance is reported or the instance is destroyed.
TrapNoticed ==
    \A i \in Instances :
        state[i] = STATE_STARTED /\ i \in exception ~> state[i] > STATE_STARTED \/ crashed

\* "Mark this instance destroyed first, then destroy finally in the loop thread":
\* what was marked is deleted in the end.
DestroyedIsFreed == \A i \in Instances : state[i] = STATE_DESTROYED ~> i \in freed \/ crashed

\* The same comment's order: the final destruction comes after the call that marked
\* the instance, which has execFuncLock still to release.
DestroyCallDone == \A c \in Callers : pc[c] = "unlock" => cur[c] \notin freed

=============================================================================
