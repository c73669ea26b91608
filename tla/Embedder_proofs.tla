---------------------------- MODULE Embedder_proofs ----------------------------
(***************************************************************************)
(* Proofs about Embedder for every set of programs, threads, instances and *)
(* timers.  The loop thread comes first: LoopInv relates the handles of    *)
(* the loop, which a thread in Stop closes while the loop thread runs the  *)
(* timers, to how far both are, and every step of LoopThread keeps it.     *)
(* The rest of Embedder reaches the loop through these steps only.         *)
(***************************************************************************)
EXTENDS Embedder, TLAPS

UVStates == {"none", "timers", "again", "restart", "callback", "called", "poll", "closing", "ended"}

\* What the handles may be.  A handle of the loop has not been deleted, and Stop
\* visits handles that are not closing.
HandleInv ==
    /\ handles \subseteq Timers \cup {Async}
    /\ heap \cup turn \cup deleted \subseteq Timers
    /\ due \in Timers \cup {None}
    /\ closing \subseteq handles
    /\ handles \cap deleted = {}
    /\ toWalk \subseteq handles \ closing

\* Stop against the loop.  While nobody stops it, the async handle keeps the loop alive.
StopInv ==
    /\ m_bRunning \in BOOLEAN
    /\ stopPc \in {"idle", "walk", "join", "stopped"}
    /\ uvPc \in UVStates
    /\ m_bRunning => stopPc # "stopped" /\ uvPc # "none"
    /\ ~m_bRunning => stopPc \in {"idle", "stopped"} /\ uvPc = "none" /\ handles = {}
    /\ m_bRunning /\ stopPc = "idle" => Async \in handles /\ closing = {}
    /\ toWalk # {} => stopPc = "walk"
    /\ uvPc = "ended" => handles = {}

\* A timer that is not closing is active, or it is the one uv_timer_again works on.
TimerInv ==
    /\ uvPc \in {"again", "restart"} => due \in Timers
    /\ \A t \in (handles \cap Timers) \ closing :
          t \in heap \/ (uvPc \in {"again", "restart"} /\ due = t)

LoopInv == HandleInv /\ StopInv /\ TimerInv

LEMMA LoopInitInv == LoopInit => LoopInv
BY DEF LoopInit, LoopInv, HandleInv, StopInv, TimerInv, UVStates

\* A second start finds no handle of the loop of before.
LEMMA StartKeeps ==
  ASSUME LoopInv, Start
  PROVE  LoopInv' /\ dead' = dead
<1> USE HandlesAssumption DEF Start, LockFree, turnVars
<1>1. HandleInv'
  BY DEF LoopInv, HandleInv, StopInv
<1>2. StopInv'
  BY DEF LoopInv, HandleInv, StopInv, UVStates
<1>3. TimerInv'
  BY DEF LoopInv, StopInv, TimerInv
<1> QED
  BY <1>1, <1>2, <1>3 DEF LoopInv

\* A timer is posted to a loop that nobody stops, so one that has not ended.
LEMMA PostKeeps ==
  ASSUME LoopInv, (\E t \in Timers : PostTimerTask(t)) \/ PostSend
  PROVE  LoopInv' /\ dead' = dead
<1>1. ASSUME NEW t \in Timers, PostTimerTask(t)
      PROVE  LoopInv' /\ dead' = dead
  <2> USE <1>1 DEF PostTimerTask, LockFree, stopVars, turnVars
  <2>1. m_bRunning /\ stopPc = "idle" /\ uvPc # "ended"
    BY DEF LoopInv, StopInv
  <2>2. HandleInv'
    BY DEF LoopInv, HandleInv
  <2>3. StopInv'
    BY <2>1 DEF LoopInv, StopInv
  <2>4. TimerInv'
    BY DEF LoopInv, TimerInv
  <2> QED
    BY <2>2, <2>3, <2>4 DEF LoopInv
<1>2. CASE PostSend
  BY <1>2 DEF PostSend, LoopInv, HandleInv, StopInv, TimerInv, stopVars, turnVars
<1> QED
  BY <1>1, <1>2

\* Stop closes no handle twice, and what it joins has left no handle behind.
LEMMA StopKeeps ==
  ASSUME LoopInv, StopIdle \/ StopWalk \/ StopStep
  PROVE  LoopInv' /\ dead' = dead
<1> USE DEF stopVars, turnVars, loopVars
<1>1. CASE StopIdle
  BY <1>1 DEF StopIdle, LockFree, LoopInv, HandleInv, StopInv, TimerInv
<1>2. CASE StopWalk
  <2>1. m_bRunning /\ stopPc = "idle" /\ closing = {}
    BY <1>2 DEF StopWalk, LockFree, LoopInv, StopInv
  <2> QED
    BY <1>2, <2>1 DEF StopWalk, Walked, LoopInv, HandleInv, StopInv, TimerInv
<1>3. CASE StopSend
  BY <1>3 DEF StopSend, LoopInv, HandleInv, StopInv, TimerInv
<1>4. CASE StopJoin
  BY <1>4 DEF StopJoin, LoopInv, HandleInv, StopInv, TimerInv, UVStates
<1>5. ASSUME NEW h \in toWalk, StopClose(h)
      PROVE  LoopInv' /\ dead' = dead
  <2>1. h \in handles \ closing /\ h \notin deleted
    BY DEF LoopInv, HandleInv
  <2>2. dead' = dead
    BY <1>5, <2>1 DEF StopClose, Close
  <2> QED
    BY <1>5, <2>1, <2>2 DEF StopClose, Close, LoopInv, HandleInv, StopInv, TimerInv
<1> QED
  BY <1>1, <1>2, <1>3, <1>4, <1>5 DEF StopStep

\* The loop thread never asserts; at worst it finds a timer that was deleted.
LEMMA UVRunKeeps ==
  ASSUME LoopInv, UVRun
  PROVE  LoopInv' /\ dead' \in {dead, "freed memory"}
<1> USE HandlesAssumption DEF stopVars, turnVars, UVStates
<1>1. ASSUME NEW t \in heap, TimerDue(t)
      PROVE  LoopInv' /\ dead' \in {dead, "freed memory"}
  BY <1>1 DEF TimerDue, LoopInv, HandleInv, StopInv, TimerInv
<1>2. CASE TimerAgain
  BY <1>2 DEF TimerAgain, LoopInv, HandleInv, StopInv, TimerInv
<1>3. CASE TimerRestart
  BY <1>3 DEF TimerRestart, LoopInv, HandleInv, StopInv, TimerInv
<1>4. CASE CallbackEnds
  BY <1>4 DEF CallbackEnds, OneShot, LoopInv, HandleInv, StopInv, TimerInv
<1>5. CASE TimersDone
  BY <1>5 DEF TimersDone, LoopInv, HandleInv, StopInv, TimerInv
<1>6. CASE PollEnds
  BY <1>6 DEF PollEnds, LoopInv, HandleInv, StopInv, TimerInv
<1>7. CASE ClosingHandles
  <2>1. HandleInv'
    BY <1>7 DEF ClosingHandles, LoopInv, HandleInv
  <2>2. TimerInv'
    BY <1>7 DEF ClosingHandles, LoopInv, TimerInv
  <2>3. uvPc' = "ended" => handles' = {}
    BY <1>7, <2>1 DEF ClosingHandles, LoopInv, HandleInv, TimerInv
  <2>4. StopInv'
    BY <1>7, <2>3 DEF ClosingHandles, LoopInv, HandleInv, StopInv
  <2> QED
    BY <1>7, <2>1, <2>2, <2>4 DEF ClosingHandles, LoopInv
<1> QED
  BY <1>1, <1>2, <1>3, <1>4, <1>5, <1>6, <1>7 DEF UVRun

\* The routine is a callback of the loop: it ends where the loop goes on.
LEMMA RoutineKeeps ==
  ASSUME LoopInv, LoopCheckInstanceRoutine
  PROVE  LoopInv' /\ dead' \in {dead, "freed memory"}
<1>1. CASE UNCHANGED loopThreadVars
  BY <1>1 DEF LoopInv, HandleInv, StopInv, TimerInv, loopThreadVars, stopVars, loopVars, turnVars
<1>2. CASE LoopPassEnds \/ RoutineAfterExit
  BY <1>2 DEF LoopPassEnds, RoutineAfterExit, MayDie, LoopInv, HandleInv, StopInv, TimerInv, stopVars,
     turnVars, UVStates
<1> QED
  BY <1>1, <1>2 DEF LoopCheckInstanceRoutine, LoopVisit, ReportTrap

\* Calls of the embedder's threads reach the loop through Start, PostTimerTask and
\* Stop; all others leave it alone.
LEMMA StepKeeps ==
  ASSUME LoopInv, NEW c \in DOMAIN prog.calls, Step(c)
  PROVE  LoopInv' /\ dead' \in {dead, "freed memory", "memory assert"}
<1>1. CASE InitStart(c)
  BY <1>1, StartKeeps DEF InitStart
<1>2. CASE InitPost(c) \/ InitSend(c)
  BY <1>2, PostKeeps DEF InitPost, InitSend
<1>3. CASE ExitStop(c)
  BY <1>3, StopKeeps DEF ExitStop
<1>4. CASE UNCHANGED theLoop /\ dead' \in {dead, "freed memory", "memory assert"}
  BY <1>4 DEF LoopInv, HandleInv, StopInv, TimerInv, theLoop, stopVars, loopVars, turnVars
<1>5. CASE SetDefaultOpt(c) \/ CreateList(c) \/ SetOpt(c)
  <2>1. UNCHANGED theLoop /\ dead' \in {dead, "freed memory"}
    BY <1>5 DEF SetDefaultOpt, CreateList, SetOpt, MayDie
  <2> QED
    BY <1>4, <2>1
<1>6. CASE StartInstantiate(c) \/ StartEnlarge(c)
  <2>1. UNCHANGED theLoop
    BY <1>6 DEF StartInstantiate, StartEnlarge
  <2>2. dead' \in {dead, "freed memory", "memory assert"}
    BY <1>6 DEF StartInstantiate, Instantiate, StartEnlarge, MayDie
  <2> QED
    BY <1>4, <2>1, <2>2
<1>7. CASE UNCHANGED loopThreadVars
  BY <1>7 DEF LoopInv, HandleInv, StopInv, TimerInv, loopThreadVars, stopVars, loopVars, turnVars
<1> QED
  BY <1>1, <1>2, <1>3, <1>5, <1>6, <1>7 DEF Step, InitRuntime, LoadName, LoadOpen, LoadMap,
     LoadCopy, LoadModule, CreateNew, CreateCopy, NoInstance, StartCheck, StartLoop, StartArgs,
     EnlargeHeap, EnlargePage, EnlargeAllocate, EnlargeEnd, StartInitialize, ExecMain, MainReturns,
     Destroy, DestroyReturns, ExitCall, ExitDone

-----------------------------------------------------------------------------
LEMMA NextKeeps ==
  ASSUME LoopInv, LoopClosesClean, [Next]_vars
  PROVE  LoopInv' /\ LoopClosesClean'
<1> USE DEF LoopClosesClean
<1>1. ASSUME NEW c \in DOMAIN prog.calls, Step(c)
      PROVE  LoopInv' /\ dead' # "assert"
  BY <1>1, StepKeeps
<1>2. ASSUME NEW i \in Instances, GuestTrap(i)
      PROVE  LoopInv' /\ dead' # "assert"
  BY <1>2 DEF GuestTrap, LoopInv, HandleInv, StopInv, TimerInv, loopThreadVars, stopVars, loopVars,
     turnVars
<1>3. CASE LoopStep
  BY <1>3, UVRunKeeps, RoutineKeeps DEF LoopStep
<1>4. CASE Stopping
  BY <1>4, StopKeeps DEF Stopping
<1>5. CASE UNCHANGED vars
  BY <1>5 DEF vars, LoopInv, HandleInv, StopInv, TimerInv, loopThreadVars, stopVars, loopVars, turnVars
<1> QED
  BY <1>1, <1>2, <1>3, <1>4, <1>5 DEF Next

\* The handles of the loop are as Stop and the loop thread expect them.
THEOREM LoopHandles == Spec => [](LoopInv /\ LoopClosesClean)
<1>1. Init => LoopInv /\ LoopClosesClean
  BY NoneAssumption, LoopInitInv DEF Init, LoopInit, LoopClosesClean
<1> QED
  BY <1>1, NextKeeps, PTL DEF Spec

\* No assertion about the handles of the loop fails, however the calls of Stop on the
\* exiting thread and the callbacks on the loop thread interleave: Stop closes each
\* handle once, and uv_loop_close finds none.
THEOREM LoopIsClosedClean == Spec => []LoopClosesClean
BY LoopHandles, PTL

\* Once the main function of MiniApp's instance has trapped, the process has ended with -1.
TrapEnds == prog.miniApp /\ mainTrapped => exitStatus = -1

\* An app whose main function has trapped never makes MiniApp end with the value the
\* function left behind, though the exception callback may end the process as well.
THEOREM TrapIsReported == Spec => []TrapFailsMiniApp
<1>1. Init => TrapEnds
  BY DEF Init, TrapEnds
<1>2. TrapEnds /\ [Next]_vars => TrapEnds'
  <2> SUFFICES ASSUME TrapEnds, [Next]_vars
               PROVE  TrapEnds'
    OBVIOUS
  <2>1. CASE UNCHANGED vars
    BY <2>1 DEF vars, instanceVars, otherVars, TrapEnds
  <2>2. CASE Lives /\ UNCHANGED <<prog, mainTrapped>>
    BY <2>2, StatusAssumption DEF TrapEnds, Lives
  <2>3. ASSUME Next, NEW c \in DOMAIN prog.calls, MainReturns(c)
        PROVE  TrapEnds'
    <3>1. UNCHANGED prog /\ mainTrapped' = (mainTrapped \/ Call(c).inst \in trapped)
      BY <2>3 DEF MainReturns
    <3>2. Call(c).inst \in trapped /\ prog.miniApp => exitStatus' = -1
      BY <2>3 DEF MainReturns, MainFails, CallFails
    <3>3. ~(prog.miniApp /\ mainTrapped)
      BY <2>3, StatusAssumption DEF Next, Lives, TrapEnds
    <3> QED
      BY <3>1, <3>2, <3>3 DEF TrapEnds
  <2>4. ASSUME NEW c \in DOMAIN prog.calls, Step(c)
        PROVE  MainReturns(c) \/ UNCHANGED <<prog, mainTrapped>>
    BY <2>4 DEF Step, InitRuntime, InitStart, InitPost, InitSend, LoadName, LoadOpen, LoadMap,
       LoadCopy, LoadModule, SetDefaultOpt, CreateNew, CreateCopy, CreateList, NoInstance, SetOpt,
       StartCheck, StartLoop, StartArgs, StartInstantiate, StartEnlarge, EnlargeHeap, EnlargePage,
       EnlargeAllocate, EnlargeEnd, StartInitialize, ExecMain, Destroy, DestroyReturns, ExitCall,
       ExitStop, ExitDone, instanceVars, otherVars
  <2>5. (\E i \in Instances : GuestTrap(i)) \/ LoopStep \/ Stopping => UNCHANGED <<prog, mainTrapped>>
    BY DEF GuestTrap, LoopStep, LoopCheckInstanceRoutine, LoopVisit, ReportTrap, LoopPassEnds,
       RoutineAfterExit, Stopping, instanceVars, otherVars
  <2> QED
    BY <2>1, <2>2, <2>3, <2>4, <2>5 DEF Next
<1>3. TrapEnds => TrapFailsMiniApp
  BY DEF TrapEnds, TrapFailsMiniApp
<1> QED
  BY <1>1, <1>2, <1>3, PTL DEF Spec

-----------------------------------------------------------------------------
\* The calls of the threads.

Starting ==
    {"dirs", "env", "argv", "args of module", "instantiate", "enlarge", "heap size", "page bytes",
     "allocate", "data size", "initialize"}

\* A thread in the middle of a call has one, and is at a step of it.
CallInv ==
    \A c \in DOMAIN prog.calls :
        /\ step[c] \notin {"call", "leave", "exit"} => at[c] \in DOMAIN prog.calls[c]
        /\ step[c] \in {"open", "map", "copy", "load"} => Call(c).call = "load"
        /\ step[c] \in {"list"} \cup Fields => Call(c).call = "create"
        /\ step[c] \in Starting => Call(c).call = "start"

-----------------------------------------------------------------------------
\* Types.

CallSteps ==
    {"call", "start loop", "post", "post send", "open", "map", "copy", "load", "list", "main",
     "destroyed", "leave", "exit"} \cup Fields \cup Starting

LEMMA FieldsAre ==
  Fields = {"preOpenDirs", "envVars", "hostCmdWhitelist", "args", "maxMemory", "exceptionCB"}
BY DEF Fields, OptionOf

\* The conjuncts of TypeOK, of the calls and of the loop thread.
CallType ==
    /\ prog \in {Programs[name] : name \in DOMAIN Programs}
    /\ at \in [Clients -> Nat]
    /\ step \in [Clients -> CallSteps]

ApiType ==
    /\ initialized \in BOOLEAN
    /\ opened \subseteq Clients
    /\ loaded \subseteq mapped \cap Modules /\ mapped \subseteq Modules \cup Clients
    /\ gWasmLock \in Clients \cup {None}
    /\ state \in [Instances -> {"none", "new", "started", "ended", "destroyed"}]
    /\ list \in (SUBSET Instances) \cup {None}
    /\ visited \subseteq Instances /\ calling \in Instances \cup {None}
    /\ trapped \subseteq Instances /\ mainTrapped \in BOOLEAN

LoopType ==
    /\ post \in Timers \cup {None} /\ woken \in BOOLEAN
    /\ timeout \in {"none", "timer", "forever"}
    /\ dead \in {None, "assert", "memory assert", "freed memory"}

LEMMA TypeParts == LoopInv => (TypeOK <=> CallType /\ ApiType /\ LoopType)
BY DEF TypeOK, CallType, ApiType, LoopType, CallSteps, Starting, LoopInv, HandleInv, StopInv, UVStates

Inv == CallType /\ CallInv /\ ApiType /\ LoopType /\ LoopInv

\* A thread of the program that has a call to make.
Calling(c) == at[c] \in DOMAIN prog.calls[c] /\ step[c] # "exit"

\* It goes on to a step that fits its call, or returns.
Fits(c, s) ==
    /\ s \in CallSteps \ {"exit"}
    /\ s \in {"open", "map", "copy", "load"} => Call(c).call = "load"
    /\ s \in {"list"} \cup Fields => Call(c).call = "create"
    /\ s \in Starting => Call(c).call = "start"

Goes(c, s) == step' = [step EXCEPT ![c] = s] /\ at' = at /\ Fits(c, s)

Returned(c) ==
    \E s \in {"call", "leave"} :
        step' = [step EXCEPT ![c] = s] /\ at' = [at EXCEPT ![c] = @ + 1]

Moves(c) == Returned(c) \/ \E s \in CallSteps : Goes(c, s)

LEMMA ReturnMoves ==
  ASSUME NEW c, NEW err, Return(c, err)
  PROVE  Returned(c)
BY DEF Return, Returned

LEMMA GotoMoves ==
  ASSUME NEW c, NEW s \in CallSteps, Goto(c, s), Fits(c, s)
  PROVE  Goes(c, s)
BY DEF Goto, Goes

LEMMA ProgramCalls ==
  ASSUME CallType
  PROVE  /\ DOMAIN prog.calls \subseteq Clients
         /\ \A m \in Modules : Instantiable(prog.memory[m])
         /\ \A c \in DOMAIN prog.calls : \A n \in DOMAIN prog.calls[c] : prog.calls[c][n] \in ApiCalls
<1>1. PICK name \in DOMAIN Programs : prog = Programs[name]
  BY DEF CallType
<1> QED
  BY <1>1, ProgramsAssumption DEF ApiCalls

LEMMA MovesKeep ==
  ASSUME CallType, CallInv, NEW c \in DOMAIN prog.calls, Calling(c), Moves(c), UNCHANGED prog
  PROVE  CallType' /\ CallInv'
<1>1. c \in Clients /\ DOMAIN prog.calls \subseteq Clients
  BY ProgramCalls
<1>2. CallType'
  <2>1. CASE Returned(c)
    <3>1. PICK s \in {"call", "leave"} :
             step' = [step EXCEPT ![c] = s] /\ at' = [at EXCEPT ![c] = @ + 1]
      BY <2>1 DEF Returned
    <3>2. at[c] + 1 \in Nat
      BY <1>1 DEF CallType
    <3> QED
      BY <1>1, <3>1, <3>2 DEF CallType, CallSteps
  <2>2. ASSUME NEW s \in CallSteps, Goes(c, s)
        PROVE  CallType'
    BY <1>1, <2>2 DEF CallType, Goes
  <2> QED
    BY <2>1, <2>2 DEF Moves
<1>3. ASSUME NEW d \in DOMAIN prog.calls, d # c
      PROVE  step'[d] = step[d] /\ at'[d] = at[d] /\ Call(d)' = Call(d)
  BY <1>1, <1>3 DEF CallType, Moves, Goes, Returned, Call
<1>4. CASE Returned(c)
  <2>1. step'[c] \in {"call", "leave"}
    BY <1>1, <1>4 DEF CallType, Returned
  <2> QED
    BY <1>2, <1>3, <2>1, FieldsAre DEF CallInv, Starting
<1>5. ASSUME NEW s \in CallSteps, Goes(c, s)
      PROVE  CallInv'
  <2>1. step'[c] = s /\ at' = at /\ Call(c)' = Call(c)
    BY <1>1, <1>5 DEF CallType, Goes, Call
  <2> QED
    BY <1>3, <1>5, <2>1 DEF CallInv, Goes, Fits, Calling
<1> QED
  BY <1>2, <1>4, <1>5 DEF Moves

\* A thread that calls a function of the API has a call to make.
LEMMA MakesCall ==
  ASSUME NEW c \in DOMAIN prog.calls, NEW call, Makes(c, call)
  PROVE  Calling(c) /\ step[c] = "call" /\ Call(c).call = call
BY DEF Makes, Calling

\* And a thread inside it too.
LEMMA InsideCall ==
  ASSUME CallInv, NEW c \in DOMAIN prog.calls, step[c] \notin {"call", "leave", "exit"}
  PROVE  Calling(c)
BY DEF CallInv, Calling

ModuleStep(c) ==
    \/ LoadName(c) \/ LoadOpen(c) \/ LoadMap(c) \/ LoadCopy(c) \/ LoadModule(c)
    \/ SetDefaultOpt(c)

InstanceStep(c) ==
    \/ CreateNew(c) \/ CreateCopy(c) \/ CreateList(c) \/ NoInstance(c) \/ SetOpt(c)
    \/ ExecMain(c) \/ MainReturns(c) \/ Destroy(c) \/ DestroyReturns(c)

InitStep(c) == InitRuntime(c) \/ InitStart(c) \/ InitPost(c) \/ InitSend(c)

StartStep(c) ==
    \/ StartCheck(c) \/ StartLoop(c) \/ StartArgs(c) \/ StartInstantiate(c) \/ StartEnlarge(c)
    \/ EnlargeHeap(c) \/ EnlargePage(c) \/ EnlargeAllocate(c) \/ EnlargeEnd(c)
    \/ StartInitialize(c)

ExitStep(c) == ExitCall(c) \/ ExitStop(c) \/ ExitDone(c)

LEMMA StepKinds ==
  ASSUME NEW c, Step(c)
  PROVE  InitStep(c) \/ ModuleStep(c) \/ InstanceStep(c) \/ StartStep(c) \/ ExitStep(c)
BY DEF Step, InitStep, ModuleStep, InstanceStep, StartStep, ExitStep

LEMMA InitMoves ==
  ASSUME CallInv, NEW c \in DOMAIN prog.calls, InitStep(c)
  PROVE  Calling(c) /\ Moves(c)
<1> USE FieldsAre DEF CallSteps, Fits, Starting
<1>1. CASE InitRuntime(c)
  <2>1. Calling(c)
    BY <1>1, MakesCall DEF InitRuntime
  <2>2. Returned(c) \/ Goes(c, "start loop")
    BY <1>1, ReturnMoves, GotoMoves DEF InitRuntime
  <2> QED
    BY <2>1, <2>2 DEF Moves
<1>2. CASE InitStart(c)
  <2>1. Calling(c) /\ Goes(c, "post")
    BY <1>2, InsideCall, GotoMoves DEF InitStart
  <2> QED
    BY <2>1 DEF Moves
<1>3. CASE InitPost(c)
  <2>1. Calling(c) /\ Goes(c, "post send")
    BY <1>3, InsideCall, GotoMoves DEF InitPost
  <2> QED
    BY <2>1 DEF Moves
<1>4. CASE InitSend(c)
  BY <1>4, InsideCall, ReturnMoves DEF InitSend, Moves
<1> QED
  BY <1>1, <1>2, <1>3, <1>4 DEF InitStep

LEMMA ModuleMoves ==
  ASSUME CallInv, NEW c \in DOMAIN prog.calls, ModuleStep(c)
  PROVE  Calling(c) /\ Moves(c)
<1> USE FieldsAre DEF CallSteps, Fits, Starting
<1>1. CASE LoadName(c)
  <2>1. Calling(c) /\ Call(c).call = "load"
    BY <1>1, MakesCall DEF LoadName
  <2>2. Returned(c) \/ Goes(c, "copy") \/ Goes(c, "open")
    BY <1>1, <2>1, ReturnMoves, GotoMoves DEF LoadName
  <2> QED
    BY <2>1, <2>2 DEF Moves
<1>2. ASSUME step[c] \in {"open", "map", "copy", "load"}
      PROVE  Calling(c) /\ Call(c).call = "load"
  BY <1>2, InsideCall DEF CallInv
<1>3. CASE LoadOpen(c)
  <2>1. Returned(c) \/ Goes(c, "map")
    BY <1>2, <1>3, ReturnMoves, GotoMoves DEF LoadOpen
  <2> QED
    BY <1>2, <1>3, <2>1 DEF Moves, LoadOpen
<1>4. CASE LoadMap(c)
  <2>1. Returned(c) \/ Goes(c, "load")
    BY <1>2, <1>4, ReturnMoves, GotoMoves DEF LoadMap
  <2> QED
    BY <1>2, <1>4, <2>1 DEF Moves, LoadMap
<1>5. CASE LoadCopy(c)
  <2>1. Goes(c, "load")
    BY <1>2, <1>5, GotoMoves DEF LoadCopy
  <2> QED
    BY <1>2, <1>5, <2>1 DEF Moves, LoadCopy
<1>6. CASE LoadModule(c)
  <2>1. Returned(c)
    BY <1>6, ReturnMoves DEF LoadModule
  <2> QED
    BY <1>2, <1>6, <2>1 DEF Moves, LoadModule
<1>7. CASE SetDefaultOpt(c)
  <2>1. Returned(c)
    BY <1>7, ReturnMoves DEF SetDefaultOpt
  <2> QED
    BY <1>7, <2>1, MakesCall DEF Moves, SetDefaultOpt
<1> QED
  BY <1>1, <1>3, <1>4, <1>5, <1>6, <1>7 DEF ModuleStep

LEMMA InstanceMoves ==
  ASSUME CallInv, NEW c \in DOMAIN prog.calls, InstanceStep(c)
  PROVE  Calling(c) /\ Moves(c)
<1> USE FieldsAre DEF CallSteps, Fits, Starting
<1>1. CASE CreateNew(c)
  <2>1. Calling(c) /\ Call(c).call = "create"
    BY <1>1, MakesCall DEF CreateNew
  <2>2. Returned(c) \/ Goes(c, "preOpenDirs")
    BY <1>1, <2>1, ReturnMoves, GotoMoves DEF CreateNew
  <2> QED
    BY <2>1, <2>2 DEF Moves
<1>9. CASE CreateCopy(c)
  <2>1. step[c] \in Fields /\ Goto(c, NextField[step[c]]) /\ Calling(c) /\ Call(c).call = "create"
    BY <1>9, InsideCall, FieldsAre DEF CreateCopy, CallInv
  <2>2. NextField[step[c]] \in {"list"} \cup Fields
    BY <2>1, FieldsAre DEF NextField
  <2>3. Goes(c, NextField[step[c]])
    BY <2>1, <2>2, FieldsAre, GotoMoves
  <2> QED
    BY <2>1, <2>2, <2>3 DEF Moves
<1>2. CASE CreateList(c)
  BY <1>2, InsideCall, ReturnMoves DEF CreateList, Moves
<1>3. CASE NoInstance(c)
  BY <1>3, MakesCall, ReturnMoves DEF NoInstance, Moves
<1>4. CASE SetOpt(c)
  <2>1. Returned(c)
    BY <1>4, ReturnMoves DEF SetOpt
  <2> QED
    BY <1>4, <2>1, MakesCall DEF SetOpt, Uses, Moves
<1>5. CASE ExecMain(c)
  <2>1. Calling(c)
    BY <1>5, MakesCall DEF ExecMain, Uses
  <2>2. Returned(c) \/ Goes(c, "main")
    BY <1>5, ReturnMoves, GotoMoves DEF ExecMain, MainFails
  <2> QED
    BY <2>1, <2>2 DEF Moves
<1>6. CASE MainReturns(c)
  <2>1. Returned(c)
    BY <1>6, ReturnMoves DEF MainReturns, MainFails
  <2> QED
    BY <1>6, <2>1, InsideCall DEF MainReturns, Moves
<1>7. CASE Destroy(c)
  <2>1. Calling(c) /\ Goes(c, "destroyed")
    BY <1>7, MakesCall, GotoMoves DEF Destroy, Uses
  <2> QED
    BY <2>1 DEF Moves
<1>8. CASE DestroyReturns(c)
  BY <1>8, InsideCall, ReturnMoves DEF DestroyReturns, Moves
<1> QED
  BY <1>1, <1>2, <1>3, <1>4, <1>5, <1>6, <1>7, <1>8, <1>9 DEF InstanceStep

LEMMA StartMoves ==
  ASSUME CallInv, NEW c \in DOMAIN prog.calls, StartStep(c)
  PROVE  Calling(c) /\ Moves(c) /\ Call(c).call = "start"
<1> USE FieldsAre DEF CallSteps, Fits, Starting
<1>1. CASE StartCheck(c)
  <2>1. Calling(c) /\ Call(c).call = "start"
    BY <1>1, MakesCall DEF StartCheck, Uses
  <2>2. Returned(c) \/ Goes(c, "dirs")
    BY <1>1, <2>1, ReturnMoves, GotoMoves DEF StartCheck
  <2> QED
    BY <2>1, <2>2 DEF Moves
<1>2. ASSUME step[c] \in Starting
      PROVE  Calling(c) /\ Call(c).call = "start"
  BY <1>2, InsideCall DEF CallInv
<1>3. ASSUME NEW s \in Starting, Goto(c, s), step[c] \in Starting
      PROVE  Calling(c) /\ Call(c).call = "start" /\ Moves(c)
  <2>1. Goes(c, s)
    BY <1>2, <1>3, GotoMoves
  <2> QED
    BY <1>2, <1>3, <2>1 DEF Moves
<1>4. ASSUME NEW err, Return(c, err), step[c] \in Starting
      PROVE  Calling(c) /\ Call(c).call = "start" /\ Moves(c)
  BY <1>2, <1>4, ReturnMoves DEF Moves
<1>5. CASE StartLoop(c)
  <2>1. step[c] \in {"dirs", "env", "argv"} /\ Goto(c, AfterLoop[step[c]])
    BY <1>5 DEF StartLoop, ReadBy
  <2>2. /\ AfterLoop["dirs"] = "env" /\ AfterLoop["env"] = "argv"
        /\ AfterLoop["argv"] = "args of module"
    BY DEF AfterLoop
  <2>3. AfterLoop[step[c]] \in Starting
    BY <2>1, <2>2
  <2> QED
    BY <1>3, <2>1, <2>3
<1>6. CASE StartArgs(c)
  BY <1>3, <1>6 DEF StartArgs
<1>7. CASE StartInstantiate(c)
  BY <1>3, <1>4, <1>7 DEF StartInstantiate
<1>8. CASE StartEnlarge(c)
  BY <1>3, <1>8 DEF StartEnlarge
<1>9. CASE EnlargeHeap(c) \/ EnlargePage(c) \/ EnlargeEnd(c)
  BY <1>3, <1>9 DEF EnlargeHeap, EnlargePage, EnlargeEnd
<1>10. CASE EnlargeAllocate(c)
  BY <1>3, <1>4, <1>10 DEF EnlargeAllocate
<1>11. CASE StartInitialize(c)
  BY <1>4, <1>11 DEF StartInitialize
<1> QED
  BY <1>1, <1>5, <1>6, <1>7, <1>8, <1>9, <1>10, <1>11 DEF StartStep

\* The kinds of steps keep the types of what the calls share.
LEMMA CallOperands ==
  ASSUME CallType, NEW c \in DOMAIN prog.calls, Calling(c)
  PROVE  /\ c \in Clients /\ Call(c) \in ApiCalls
         /\ Call(c).call \in {"load", "default", "create", "start"} => Call(c).module \in Modules
         /\ Call(c).call \in {"create", "set_opt", "start", "main", "destroy"} => Call(c).inst \in Instances
<1>1. c \in Clients /\ Call(c) \in ApiCalls
  BY ProgramCalls DEF Calling, Call
<1> QED
  BY <1>1, ProgramsAssumption

LEMMA InitTypes ==
  ASSUME Inv, NEW c \in DOMAIN prog.calls, InitStep(c)
  PROVE  ApiType' /\ UNCHANGED prog
<1>1. UNCHANGED <<moduleVars, instanceVars, prog, gWasmLock, passVars>> /\ initialized' \in {initialized, TRUE}
  BY DEF InitStep, InitRuntime, InitStart, InitPost, InitSend, otherVars
<1> QED
  BY <1>1 DEF Inv, ApiType, moduleVars, instanceVars, passVars

LEMMA ModuleTypes ==
  ASSUME Inv, NEW c \in DOMAIN prog.calls, ModuleStep(c)
  PROVE  ApiType' /\ UNCHANGED prog
<1> USE DEF instanceVars, otherVars, passVars
<1>1. c \in Clients
  BY ProgramCalls DEF Inv
<1>2. UNCHANGED <<initialized, gWasmLock, state, list, trapped, mainTrapped, prog, visited, calling>>
  BY DEF ModuleStep, LoadName, LoadOpen, LoadMap, LoadCopy, LoadModule, SetDefaultOpt
<1>3. opened' \subseteq Clients
  BY <1>1 DEF Inv, ApiType, ModuleStep, LoadName, LoadOpen, LoadMap, LoadCopy, LoadModule,
     SetDefaultOpt, moduleVars
<1>4. loaded' \subseteq mapped' \cap Modules /\ mapped' \subseteq Modules \cup Clients
  <2>1. CASE LoadModule(c)
    <3>1. Call(c).module \in Modules
      BY <2>1, InsideCall, CallOperands DEF LoadModule, Inv, CallInv
    <3> QED
      BY <2>1, <1>1, <3>1, NamesAssumption DEF Inv, ApiType, LoadModule, BufferKept
  <2>2. CASE ~LoadModule(c)
    BY <2>2, <1>1, NamesAssumption DEF Inv, ApiType, ModuleStep, LoadName, LoadOpen, LoadMap,
       LoadCopy, SetDefaultOpt, moduleVars
  <2> QED
    BY <2>1, <2>2
<1> QED
  BY <1>2, <1>3, <1>4 DEF Inv, ApiType

LEMMA InstanceTypes ==
  ASSUME Inv, NEW c \in DOMAIN prog.calls, InstanceStep(c)
  PROVE  ApiType' /\ UNCHANGED prog
<1> USE DEF moduleVars, instanceVars, otherVars, passVars
<1>1. UNCHANGED <<initialized, gWasmLock, opened, loaded, mapped, trapped, prog, visited, calling>>
  BY DEF InstanceStep, CreateNew, CreateCopy, CreateList, NoInstance, SetOpt, ExecMain, MainReturns,
     Destroy, DestroyReturns
<1>2. state' \in [Instances -> {"none", "new", "started", "ended", "destroyed"}]
  <2>1. CASE CreateCopy(c)
    BY <2>1 DEF Inv, ApiType, CreateCopy
  <2>2. CASE ~CreateCopy(c)
    BY <2>2 DEF Inv, ApiType, InstanceStep, CreateNew, CreateList, NoInstance, SetOpt, ExecMain,
       MainReturns, Destroy, DestroyReturns
  <2> QED
    BY <2>1, <2>2
<1>3. list' \in (SUBSET Instances) \cup {None}
  <2>1. CASE CreateList(c)
    <3>1. Call(c).inst \in Instances
      BY <2>1, InsideCall, CallOperands DEF CreateList, Inv, CallInv
    <3>2. list' = IF list = None THEN None ELSE list \cup {Call(c).inst}
      BY <2>1 DEF CreateList
    <3> QED
      BY <3>1, <3>2 DEF Inv, ApiType
  <2>2. CASE ~CreateList(c)
    BY <2>2 DEF Inv, ApiType, InstanceStep, CreateNew, CreateCopy, NoInstance, SetOpt, ExecMain,
       MainReturns, Destroy, DestroyReturns
  <2> QED
    BY <2>1, <2>2
<1>4. mainTrapped' \in BOOLEAN
  <2>1. CASE MainReturns(c)
    BY <2>1 DEF MainReturns, Inv, ApiType
  <2>2. CASE ~MainReturns(c)
    BY <2>2 DEF Inv, ApiType, InstanceStep, CreateNew, CreateCopy, CreateList, NoInstance, SetOpt,
       ExecMain, Destroy, DestroyReturns
  <2> QED
    BY <2>1, <2>2
<1> QED
  BY <1>1, <1>2, <1>3, <1>4 DEF Inv, ApiType

LEMMA StartTypes ==
  ASSUME Inv, NEW c \in DOMAIN prog.calls, StartStep(c)
  PROVE  ApiType' /\ UNCHANGED prog
<1> USE DEF moduleVars, instanceVars, otherVars, passVars, StartStep, StartCheck, StartLoop, StartArgs,
        StartInstantiate, StartEnlarge, EnlargeHeap, EnlargePage, EnlargeAllocate, EnlargeEnd,
        StartInitialize
<1>1. c \in Clients
  BY ProgramCalls DEF Inv
<1>2. UNCHANGED <<initialized, opened, loaded, mapped, list, trapped, mainTrapped, prog, visited, calling>>
  OBVIOUS
<1>3. gWasmLock' \in Clients \cup {None}
  <2>1. gWasmLock' \in {gWasmLock, c, None}
    OBVIOUS
  <2> QED
    BY <1>1, <2>1 DEF Inv, ApiType
<1>4. state' \in [Instances -> {"none", "new", "started", "ended", "destroyed"}]
  <2>1. \/ state' = state
        \/ \E s \in {"started", "ended"} : state' = [state EXCEPT ![Call(c).inst] = s]
    OBVIOUS
  <2> QED
    BY <2>1 DEF Inv, ApiType
<1> QED
  BY <1>2, <1>3, <1>4 DEF Inv, ApiType

\* What is left of the loop thread's types.
LoopMeans == post' \in Timers \cup {None} /\ woken' \in BOOLEAN /\ timeout' \in {"none", "timer", "forever"}

LEMMA UVRunTypes ==
  ASSUME LoopType, UVRun
  PROVE  LoopMeans
<1> USE DEF LoopType, LoopMeans, turnVars
<1>1. ASSUME NEW t \in heap, TimerDue(t)
      PROVE  LoopMeans
  BY <1>1 DEF TimerDue
<1>2. CASE TimersDone
  BY <1>2 DEF TimersDone
<1>3. CASE TimerAgain \/ TimerRestart \/ CallbackEnds \/ PollEnds \/ ClosingHandles
  BY <1>3 DEF TimerAgain, TimerRestart, CallbackEnds, PollEnds, ClosingHandles
<1> QED
  BY <1>1, <1>2, <1>3 DEF UVRun

LEMMA CallTypes ==
  ASSUME LoopType, Start \/ (\E t \in Timers : PostTimerTask(t)) \/ PostSend \/ StopIdle \/ StopWalk
                      \/ StopStep \/ UNCHANGED <<post, stopVars, loopVars>>
  PROVE  LoopMeans
BY DEF LoopType, LoopMeans, Start, PostTimerTask, PostSend, AsyncSend, StopIdle, StopWalk, StopStep,
   StopSend, StopJoin, StopClose, turnVars, loopVars

LEMMA StepTypes ==
  ASSUME LoopType, NEW c, Step(c)
  PROVE  LoopMeans
<1> USE DEF theLoop
<1>1. CASE InitStart(c) \/ InitPost(c) \/ InitSend(c) \/ ExitStop(c)
  BY <1>1, CallTypes DEF InitStart, InitPost, InitSend, ExitStop
<1>2. CASE ~(InitStart(c) \/ InitPost(c) \/ InitSend(c) \/ ExitStop(c))
  <2>1. UNCHANGED <<post, stopVars, loopVars>>
    BY <1>2 DEF Step, InitRuntime, LoadName, LoadOpen, LoadMap, LoadCopy, LoadModule, SetDefaultOpt,
       CreateNew, CreateCopy, CreateList, NoInstance, SetOpt, StartCheck, StartLoop, StartArgs,
       StartInstantiate, StartEnlarge, EnlargeHeap, EnlargePage, EnlargeAllocate, EnlargeEnd,
       StartInitialize, ExecMain, MainReturns, Destroy, DestroyReturns, ExitCall, ExitDone,
       loopThreadVars
  <2> QED
    BY <2>1, CallTypes
<1> QED
  BY <1>1, <1>2

\* The thread that exits takes the list away, whatever the others do.
LEMMA ExitKeeps ==
  ASSUME Inv, NEW c \in DOMAIN prog.calls, ExitStep(c)
  PROVE  CallType' /\ CallInv' /\ ApiType'
<1> USE DEF moduleVars, instanceVars, otherVars, clientVars, passVars
<1>1. c \in Clients /\ DOMAIN prog.calls \subseteq Clients
  BY ProgramCalls DEF Inv
<1>2. UNCHANGED <<prog, at, initialized, gWasmLock, opened, loaded, mapped, state, trapped, mainTrapped,
                  visited, calling>>
  BY DEF ExitStep, ExitCall, ExitStop, ExitDone
<1>3. CASE ExitCall(c)
  <2>1. step' = [step EXCEPT ![c] = "exit"] /\ list' = None
    BY <1>3 DEF ExitCall
  <2>2. CallType'
    BY <1>2, <2>1 DEF Inv, CallType, CallSteps
  <2>3. ASSUME NEW d \in DOMAIN prog.calls
        PROVE  Call(d)' = Call(d) /\ step'[d] \in {step[d], "exit"}
    BY <1>1, <1>2, <2>1 DEF Inv, CallType, Call
  <2>4. CallInv'
    BY <1>2, <2>3, FieldsAre DEF Inv, CallInv, Starting
  <2> QED
    BY <1>2, <2>1, <2>2, <2>4 DEF Inv, ApiType
<1>4. CASE ExitStop(c) \/ ExitDone(c)
  <2>1. UNCHANGED <<step, list>>
    BY <1>4 DEF ExitStop, ExitDone
  <2> QED
    BY <1>2, <2>1 DEF Inv, CallType, CallInv, ApiType, Call
<1> QED
  BY <1>3, <1>4 DEF ExitStep

\* The other threads: the loop's, and the guest's.
LEMMA OthersKeep ==
  ASSUME Inv, LoopStep \/ Stopping \/ (\E i \in Instances : GuestTrap(i)) \/ UNCHANGED vars
  PROVE  CallType' /\ CallInv' /\ ApiType'
<1> USE DEF moduleVars, instanceVars, otherVars, clientVars, passVars
<1>1. UNCHANGED <<prog, at, step, initialized, gWasmLock, opened, loaded, mapped, mainTrapped>>
  BY DEF LoopStep, LoopCheckInstanceRoutine, LoopVisit, ReportTrap, LoopPassEnds, RoutineAfterExit,
     Stopping, GuestTrap, vars
<1>2. CallType' /\ CallInv'
  BY <1>1 DEF Inv, CallType, CallInv, Call
<1>3. ASSUME NEW i \in Instances, LoopVisit(i)
      PROVE  ApiType'
  <2>1. list' \in SUBSET Instances
    BY <1>3, NamesAssumption DEF LoopVisit, Inv, ApiType
  <2>2. state' \in [Instances -> {"none", "new", "started", "ended", "destroyed"}] /\ UNCHANGED trapped
    BY <1>3 DEF LoopVisit, Inv, ApiType
  <2>3. visited' \subseteq Instances /\ calling' \in Instances \cup {None}
    BY <1>3 DEF LoopVisit, Inv, ApiType
  <2> QED
    BY <1>1, <2>1, <2>2, <2>3 DEF Inv, ApiType
<1>4. CASE \A i \in Instances : ~LoopVisit(i)
  <2> DEFINE Types == /\ UNCHANGED <<state, list>> /\ trapped' \subseteq Instances
                      /\ visited' \subseteq Instances /\ calling' \in Instances \cup {None}
  <2>1. ASSUME NEW i \in Instances, GuestTrap(i)
        PROVE  Types
    BY <2>1 DEF GuestTrap, Inv, ApiType
  <2>2. LoopCheckInstanceRoutine => Types
    BY <1>4 DEF LoopCheckInstanceRoutine, ReportTrap, LoopPassEnds, RoutineAfterExit, Inv, ApiType
  <2>3. UNCHANGED <<instanceVars, passVars>> => Types
    BY DEF Inv, ApiType
  <2>4. \/ \E i \in Instances : GuestTrap(i)
        \/ LoopCheckInstanceRoutine
        \/ UNCHANGED <<instanceVars, passVars>>
    BY DEF LoopStep, Stopping, vars
  <2>5. Types
    BY <2>1, <2>2, <2>3, <2>4
  <2> QED
    BY <1>1, <1>2, <2>5 DEF Inv, ApiType
<1> QED
  BY <1>2, <1>3, <1>4

LEMMA InitTypeInv == Init => Inv
<1> SUFFICES ASSUME Init PROVE Inv
  OBVIOUS
<1>1. CallType
  BY DEF Init, CallType, CallSteps
<1>2. CallInv
  <2>1. \A c \in DOMAIN prog.calls : step[c] = "call"
    BY <1>1, ProgramCalls DEF Init
  <2> QED
    BY <2>1, FieldsAre DEF CallInv, Starting
<1>3. ApiType
  BY DEF Init, ApiType
<1>4. LoopInv /\ LoopType
  BY LoopInitInv DEF Init, LoopInit, LoopType
<1> QED
  BY <1>1, <1>2, <1>3, <1>4 DEF Inv

LEMMA NextTypeInv ==
  ASSUME Inv, [Next]_vars
  PROVE  Inv'
<1>1. ASSUME NEW c \in DOMAIN prog.calls, Step(c)
      PROVE  Inv'
  <2>1. LoopInv' /\ LoopType'
    BY <1>1, StepKeeps, StepTypes DEF Inv, LoopType, LoopMeans
  <2>2. ASSUME Calling(c), Moves(c), ApiType', UNCHANGED prog
        PROVE  Inv'
    BY <2>1, <2>2, MovesKeep DEF Inv
  <2>4. CASE InitStep(c)
    BY <2>2, <2>4, InitMoves, InitTypes DEF Inv
  <2>5. CASE ModuleStep(c)
    BY <2>2, <2>5, ModuleMoves, ModuleTypes DEF Inv
  <2>6. CASE InstanceStep(c)
    BY <2>2, <2>6, InstanceMoves, InstanceTypes DEF Inv
  <2>7. CASE StartStep(c)
    BY <2>2, <2>7, StartMoves, StartTypes DEF Inv
  <2>8. CASE ExitStep(c)
    BY <2>1, <2>8, ExitKeeps DEF Inv
  <2> QED
    BY <1>1, <2>4, <2>5, <2>6, <2>7, <2>8, StepKinds
<1>2. ASSUME LoopStep \/ Stopping \/ (\E i \in Instances : GuestTrap(i)) \/ UNCHANGED vars
      PROVE  Inv'
  <2>1. LoopInv' /\ dead' \in {dead, "freed memory"}
    <3>1. CASE LoopStep \/ Stopping
      BY <3>1, UVRunKeeps, RoutineKeeps, StopKeeps DEF Inv, LoopStep, Stopping
    <3>2. CASE UNCHANGED loopThreadVars
      BY <3>2 DEF Inv, LoopInv, HandleInv, StopInv, TimerInv, loopThreadVars, stopVars, loopVars,
         turnVars
    <3> QED
      BY <1>2, <3>1, <3>2 DEF GuestTrap, vars
  <2>2. LoopMeans
    <3>1. CASE LoopStep /\ UVRun
      BY <3>1, UVRunTypes DEF Inv
    <3>2. CASE LoopCheckInstanceRoutine
      BY <3>2 DEF LoopCheckInstanceRoutine, LoopVisit, ReportTrap, LoopPassEnds, RoutineAfterExit,
         loopThreadVars, loopVars, turnVars, Inv, LoopType, LoopMeans
    <3>3. CASE Stopping \/ (\E i \in Instances : GuestTrap(i)) \/ UNCHANGED vars
      BY <3>3, CallTypes DEF Inv, Stopping, GuestTrap, vars, loopThreadVars
    <3> QED
      BY <1>2, <3>1, <3>2, <3>3 DEF LoopStep
  <2>3. LoopType'
    BY <2>1, <2>2 DEF Inv, LoopType, LoopMeans
  <2> QED
    BY <1>2, <2>1, <2>3, OthersKeep DEF Inv
<1> QED
  BY <1>1, <1>2 DEF Next

LEMMA TypesHold == Spec => []Inv
BY InitTypeInv, NextTypeInv, PTL DEF Spec

\* Every variable keeps its type, also after exit has taken the list of instances away
\* from under the other threads: in particular each loaded module keeps its buffer.
THEOREM TypeCorrect == Spec => []TypeOK
<1>1. Inv => TypeOK
  BY TypeParts DEF Inv
<1> QED
  BY <1>1, TypesHold, PTL

===============================================================================
