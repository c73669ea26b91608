------------------------------ MODULE ProcManager ------------------------------
(***************************************************************************)
(* The child processes of an instance: WasiProcessExt::ProcessSpawn and    *)
(* ProcessWaitPID, called by any of its threads.  A child is watched       *)
(* through a pipe whose write end it inherits: the pipe hangs up when the  *)
(* child has gone.  File descriptors and process ids are the kernel's, and *)
(* it uses both again once they are free.                                  *)
(*                                                                         *)
(* A section under the ProcManager's lock is one step; m_gProcessSpawnLock *)
(* is a variable, other threads go on while it is held.                    *)
(***************************************************************************)
EXTENDS FiniteSets, Integers

CONSTANTS
    Spawners,      \* threads that call ProcessSpawn
    Waiters,       \* threads that call ProcessWaitPID
    FDs,           \* descriptors pipe() may return for a read end
    PIDs,          \* process ids the kernel may give a child
    Host,          \* this process
    Descendant,    \* processes a child has started and left behind
    None,          \* no descriptor, no process id, "any child"
    ChildrenFork,  \* may a child leave such processes behind?
    OthersReap     \* may other code of this process wait for any child?

Threads == Spawners \cup Waiters

ASSUME NamesAssumption ==
    /\ None \notin FDs \cup PIDs \cup Threads
    /\ Host # Descendant /\ {Host, Descendant} \cap PIDs = {}

ASSUME FlagAssumption == ChildrenFork \in BOOLEAN /\ OthersReap \in BOOLEAN

VARIABLES
    pc,               \* per thread: where it is, "idle" outside the two calls
    fd,               \* per thread: pipeFD[0], then pollFD.fd of the loop's element
    pid,              \* per thread: childPID, or the argument pid (None: any child)
    nohang,           \* per thread: timeout = 0
    polled,           \* per thread: the descriptors in procPollFDs
    ready,            \* per thread: those not yet looked at with POLLIN or POLLHUP
    retPID,           \* per thread: *retPID
    spawnLock,        \* who holds m_gProcessSpawnLock
    childProcMap,     \* per pid: pollPipeFD of its entry, None if it has none
    pollFDToProcMap,  \* per descriptor: the pid its iterator leads to, or None
    file,             \* per descriptor: "closed", "pipe" or another part's "other"
    writers,          \* per descriptor: who holds the write end of that pipe
    proc              \* per pid: "none", "running" or "zombie"

callVars == <<pc, fd, pid, nohang, polled, ready, retPID>>
mapVars == <<childProcMap, pollFDToProcMap>>
kernelVars == <<file, writers, proc>>
vars == <<callVars, spawnLock, mapVars, kernelVars>>

Init ==
    /\ pc = [t \in Threads |-> "idle"]
    /\ fd = [t \in Threads |-> None]
    /\ pid = [t \in Threads |-> None]
    /\ nohang = [t \in Threads |-> FALSE]
    /\ polled = [t \in Threads |-> {}]
    /\ ready = [t \in Threads |-> {}]
    /\ retPID = [t \in Threads |-> None]
    /\ spawnLock = None
    /\ childProcMap = [p \in PIDs |-> None]
    /\ pollFDToProcMap = [f \in FDs |-> None]
    /\ file = [f \in FDs |-> "closed"]
    /\ writers = [f \in FDs |-> {}]
    /\ proc = [p \in PIDs |-> "none"]

Goto(t, l) == pc' = [pc EXCEPT ![t] = l]

Return(t) ==
    /\ Goto(t, "idle")
    /\ fd' = [fd EXCEPT ![t] = None]
    /\ pid' = [pid EXCEPT ![t] = None]
    /\ nohang' = [nohang EXCEPT ![t] = FALSE]
    /\ polled' = [polled EXCEPT ![t] = {}]
    /\ ready' = [ready EXCEPT ![t] = {}]
    /\ retPID' = [retPID EXCEPT ![t] = None]

-----------------------------------------------------------------------------
\* Mutant: spawns run at the same time.
NoSpawnLock == TRUE

SpawnLockFree == spawnLock = None

\* ProcessSpawn, past the checks of its arguments: the lock and the pipe.
SpawnPipe(t) ==
    /\ t \in Spawners /\ pc[t] = "idle"
    /\ SpawnLockFree
    /\ \E f \in FDs :
          /\ file[f] = "closed"
          /\ file' = [file EXCEPT ![f] = "pipe"]
          /\ writers' = [writers EXCEPT ![f] = {Host}]
          /\ fd' = [fd EXCEPT ![t] = f]
    /\ spawnLock' = t
    /\ Goto(t, "pipe")
    /\ UNCHANGED <<pid, nohang, polled, ready, retPID, mapVars, proc>>

\* The child inherits every write end that is open in this process.
Inherit(p) == [f \in FDs |-> writers[f] \cup (IF Host \in writers[f] THEN {p} ELSE {})]

\* posix_spawn.
SpawnChild(t) ==
    /\ pc[t] = "pipe"
    /\ \E p \in PIDs :
          /\ proc[p] = "none"
          /\ proc' = [proc EXCEPT ![p] = "running"]
          /\ writers' = Inherit(p)
          /\ pid' = [pid EXCEPT ![t] = p]
    /\ Goto(t, "spawned")
    /\ UNCHANGED <<fd, nohang, polled, ready, retPID, spawnLock, mapVars, file>>

\* posix_spawn fails: both ends are closed and the lock is released.
SpawnFails(t) ==
    /\ pc[t] = "pipe"
    /\ file' = [file EXCEPT ![fd[t]] = "closed"]
    /\ writers' = [writers EXCEPT ![fd[t]] = {}]
    /\ spawnLock' = None
    /\ Return(t)
    /\ UNCHANGED <<mapVars, proc>>

\* This process's write end is closed, the lock is released.
SpawnCloseWriteEnd(t) ==
    /\ pc[t] = "spawned"
    /\ writers' = [writers EXCEPT ![fd[t]] = @ \ {Host}]
    /\ spawnLock' = None
    /\ Goto(t, "insert")
    /\ UNCHANGED <<fd, pid, nohang, polled, ready, retPID, mapVars, file, proc>>

\* Mutant: the entry is not found by its descriptor.
NoPollFD(f, p) == pollFDToProcMap

WithPollFD(f, p) == [pollFDToProcMap EXCEPT ![f] = p]

SpawnInsert(t) ==
    /\ pc[t] = "insert"
    /\ childProcMap' = [childProcMap EXCEPT ![pid[t]] = fd[t]]
    /\ pollFDToProcMap' = WithPollFD(fd[t], pid[t])
    /\ Return(t)
    /\ UNCHANGED <<spawnLock, kernelVars>>

-----------------------------------------------------------------------------
Listed == {p \in PIDs : childProcMap[p] # None}

\* ProcessWaitPID is called.
WaitBegin(t) ==
    /\ t \in Waiters /\ pc[t] = "idle"
    /\ \E p \in PIDs \cup {None}, w \in BOOLEAN :
          /\ pid' = [pid EXCEPT ![t] = p]
          /\ nohang' = [nohang EXCEPT ![t] = w]
    /\ Goto(t, "list")
    /\ UNCHANGED <<fd, polled, ready, retPID, spawnLock, mapVars, kernelVars>>

\* Mutant: the result of find() is not compared with end().
FoundOrNot(t) == IF pid[t] = None THEN Listed ELSE {pid[t]}

\* Mutant: the argument is ignored.
EveryChild(t) == Listed

Children(t) == IF pid[t] = None THEN Listed ELSE Listed \cap {pid[t]}

\* Under the lock, the descriptors to poll are copied.
WaitList(t) ==
    /\ pc[t] = "list"
    /\ Children(t) # {}
    /\ polled' = [polled EXCEPT ![t] = {childProcMap[p] : p \in Children(t)}]
    /\ Goto(t, "poll")
    /\ UNCHANGED <<fd, pid, nohang, ready, retPID, spawnLock, mapVars, kernelVars>>

\* ECHILD.
WaitNoChild(t) ==
    /\ pc[t] = "list"
    /\ Children(t) = {}
    /\ Return(t)
    /\ UNCHANGED <<spawnLock, mapVars, kernelVars>>

\* Mutant: poll() is asked for input only, and a pipe at its end gives none.
InputOnly(t) == {}

HungUp(t) == {f \in polled[t] : file[f] = "pipe" /\ writers[f] = {}}

Invalid(t) == {f \in polled[t] : file[f] = "closed"}

\* poll() returns more than 0.  A child may have written to its pipe, and a
\* descriptor that is another part's by now may have input as well; a closed one
\* counts (POLLNVAL) and is passed over.
WaitPoll(t) ==
    /\ pc[t] = "poll"
    /\ \E r \in SUBSET (polled[t] \ Invalid(t)) :
          /\ HungUp(t) \subseteq r
          /\ r \cup Invalid(t) # {}
          /\ ready' = [ready EXCEPT ![t] = r]
    /\ Goto(t, "scan")
    /\ UNCHANGED <<fd, pid, nohang, polled, retPID, spawnLock, mapVars, kernelVars>>

\* poll() returns 0, for WNOHANG only; a signal ends the call with EINTR.
WaitPollNothing(t) ==
    /\ pc[t] = "poll"
    /\ nohang[t] => HungUp(t) \cup Invalid(t) = {}
    /\ Return(t)
    /\ UNCHANGED <<spawnLock, mapVars, kernelVars>>

\* read() drains what the descriptor stands for now, without the lock.
WaitRead(t) ==
    /\ pc[t] = "scan"
    /\ \E f \in ready[t] :
          /\ fd' = [fd EXCEPT ![t] = f]
          /\ ready' = [ready EXCEPT ![t] = @ \ {f}]
    /\ Goto(t, "reap")
    /\ UNCHANGED <<pid, nohang, polled, retPID, spawnLock, mapVars, kernelVars>>

\* No element is left and no child was found: once more, or 0 for WNOHANG.
WaitAgain(t) ==
    /\ pc[t] = "scan"
    /\ ready[t] = {}
    /\ IF nohang[t] THEN Return(t)
       ELSE /\ Goto(t, "list")
            /\ polled' = [polled EXCEPT ![t] = {}]
            /\ UNCHANGED <<fd, pid, nohang, ready, retPID>>
    /\ UNCHANGED <<spawnLock, mapVars, kernelVars>>

\* Mutant: a child that waitpid() says still runs is taken as well.
AnyResult(p) == TRUE

\* waitpid(WNOHANG) returns the child or fails with ECHILD.
Over(p) == proc[p] # "running"

\* Mutants: an entry of one of the two maps is kept.
KeepChild(p) == childProcMap

KeepPollFD(f) == pollFDToProcMap

EraseChild(p) == [childProcMap EXCEPT ![p] = None]

ErasePollFD(f) == [pollFDToProcMap EXCEPT ![f] = None]

\* Under the lock: the child the descriptor leads to is reaped and reported.
WaitReap(t) ==
    LET p == pollFDToProcMap[fd[t]]
    IN  /\ pc[t] = "reap"
        /\ p # None
        /\ Over(p)
        /\ retPID' = [retPID EXCEPT ![t] = p]
        /\ proc' = [proc EXCEPT ![p] = IF @ = "zombie" THEN "none" ELSE @]
        /\ file' = [file EXCEPT ![fd[t]] = "closed"]
        /\ childProcMap' = EraseChild(p)
        /\ pollFDToProcMap' = ErasePollFD(fd[t])
        /\ Goto(t, "done")
        /\ UNCHANGED <<fd, pid, nohang, polled, ready, spawnLock, writers>>

\* The child still runs, or the descriptor leads to no child any more, which
\* assert(false) rules out and its own comment expects: the build without assertions
\* goes on.
WaitNotReaped(t) ==
    LET p == pollFDToProcMap[fd[t]]
    IN  /\ pc[t] = "reap"
        /\ p # None => ~Over(p)
        /\ fd' = [fd EXCEPT ![t] = None]
        /\ Goto(t, "scan")
        /\ UNCHANGED <<pid, nohang, polled, ready, retPID, spawnLock, mapVars, kernelVars>>

WaitReturn(t) ==
    /\ pc[t] = "done"
    /\ Return(t)
    /\ UNCHANGED <<spawnLock, mapVars, kernelVars>>

-----------------------------------------------------------------------------
\* A child closes its write end: the kernel does when it exits, or it does itself.
ChildHangsUp(p) ==
    /\ proc[p] = "running"
    /\ \E f \in FDs : p \in writers[f]
    /\ writers' = [f \in FDs |-> writers[f] \ {p}]
    /\ UNCHANGED <<callVars, spawnLock, mapVars, file, proc>>

\* The files of a process are closed before its parent can wait for it.
ChildExits(p) ==
    /\ proc[p] = "running"
    /\ \A f \in FDs : p \notin writers[f]
    /\ proc' = [proc EXCEPT ![p] = "zombie"]
    /\ UNCHANGED <<callVars, spawnLock, mapVars, file, writers>>

\* A child starts a process of its own, which inherits the write end.
ChildForks(p) ==
    /\ ChildrenFork
    /\ \E f \in FDs :
          /\ p \in writers[f] /\ Descendant \notin writers[f]
          /\ writers' = [writers EXCEPT ![f] = @ \cup {Descendant}]
    /\ UNCHANGED <<callVars, spawnLock, mapVars, file, proc>>

DescendantExits ==
    /\ \E f \in FDs :
          /\ Descendant \in writers[f]
          /\ writers' = [writers EXCEPT ![f] = @ \ {Descendant}]
    /\ UNCHANGED <<callVars, spawnLock, mapVars, file, proc>>

\* Another part of this process calls wait().
OtherReaps(p) ==
    /\ OthersReap
    /\ proc[p] = "zombie"
    /\ proc' = [proc EXCEPT ![p] = "none"]
    /\ UNCHANGED <<callVars, spawnLock, mapVars, file, writers>>

\* Another part opens or closes a file of its own.
OtherFile(f) ==
    /\ \/ file[f] = "closed" /\ file' = [file EXCEPT ![f] = "other"]
       \/ file[f] = "other" /\ file' = [file EXCEPT ![f] = "closed"]
    /\ UNCHANGED <<callVars, spawnLock, mapVars, writers, proc>>

-----------------------------------------------------------------------------
SpawnStep(t) == SpawnChild(t) \/ SpawnFails(t) \/ SpawnCloseWriteEnd(t) \/ SpawnInsert(t)

WaitStep(t) ==
    \/ WaitList(t) \/ WaitNoChild(t) \/ WaitPoll(t) \/ WaitRead(t) \/ WaitAgain(t)
    \/ WaitReap(t) \/ WaitNotReaped(t) \/ WaitReturn(t)

Next ==
    \/ \E t \in Threads :
          SpawnPipe(t) \/ SpawnStep(t) \/ WaitBegin(t) \/ WaitStep(t) \/ WaitPollNothing(t)
    \/ \E p \in PIDs : ChildHangsUp(p) \/ ChildExits(p) \/ ChildForks(p) \/ OtherReaps(p)
    \/ DescendantExits
    \/ \E f \in FDs : OtherFile(f)

Spec == Init /\ [][Next]_vars

\* A thread that is in a call goes on.
Fairness == \A t \in Threads : WF_vars(SpawnStep(t)) /\ WF_vars(WaitStep(t))

FairSpec == Spec /\ Fairness

-----------------------------------------------------------------------------
TypeOK ==
    /\ pc \in [Threads -> {"idle", "pipe", "spawned", "insert", "list", "poll", "scan", "reap",
                           "done"}]
    /\ fd \in [Threads -> FDs \cup {None}]
    /\ pid \in [Threads -> PIDs \cup {None}]
    /\ nohang \in [Threads -> BOOLEAN]
    /\ polled \in [Threads -> SUBSET FDs]
    /\ ready \in [Threads -> SUBSET FDs]
    /\ retPID \in [Threads -> PIDs \cup {None}]
    /\ spawnLock \in Threads \cup {None}
    /\ childProcMap \in [PIDs -> FDs \cup {None}]
    /\ pollFDToProcMap \in [FDs -> PIDs \cup {None}]
    /\ file \in [FDs -> {"closed", "pipe", "other"}]
    /\ writers \in [FDs -> SUBSET (PIDs \cup {Host, Descendant})]
    /\ proc \in [PIDs -> {"none", "running", "zombie"}]

\* The two maps are each other's inverse, whatever descriptors and process ids the
\* kernel gives again: what assert(childProcMap.size() == pollFDToProcMap.size())
\* checks, and more.
MapsConsistent ==
    /\ \A p \in Listed : pollFDToProcMap[childProcMap[p]] = p
    /\ \A f \in FDs : pollFDToProcMap[f] # None => childProcMap[pollFDToProcMap[f]] = f

\* The assert(false) after waitpid() failed with ECHILD: a child that is listed has
\* not been waited for, by this call or by that of another thread.
ListedNotReaped == \A p \in Listed : proc[p] # "none"

\* A listed child's descriptor is open and a pipe, though the waiters close the
\* descriptors by numbers they have copied: nobody has closed that of another child.
ListedPipeOpen == \A p \in Listed : file[childProcMap[p]] = "pipe"

\* A listed child can still be waited for: it is there, and so is its pipe.
ListedCanBeWaitedFor == ListedNotReaped /\ ListedPipeOpen

\* No child is forgotten: until it has been reaped it is listed, or on its way from
\* posix_spawn to the list.
NoChildForgotten ==
    \A p \in PIDs : proc[p] # "none" =>
        p \in Listed \/ \E t \in Threads : pc[t] \in {"spawned", "insert"} /\ pid[t] = p

\* "Create pipes to detect if the child process is alive": when a listed child has
\* exited, its pipe has hung up.  No other process holds the write end.
PipeTellsAlive ==
    \A p \in Listed : proc[p] = "zombie" => writers[childProcMap[p]] = {}

\* assert(pid <= 0 || pid == *retPID): who waits for one child is told of that one.
RightChild ==
    \A t \in Threads : pc[t] = "done" => pid[t] \in {None, retPID[t]}

\* A call that waits returns when a child it waits for has exited, unless another
\* part has waited for that child and the kernel gives its process id again.
WaitEnds ==
    \A t \in Waiters, p \in PIDs :
        /\ pc[t] \in {"list", "poll", "scan", "reap", "done"}
        /\ pid[t] \in {None, p}
        /\ p \in Listed /\ Over(p)
        ~> pc[t] = "idle" \/ proc[p] = "running"

-----------------------------------------------------------------------------
\* What the manager promises the guest: Children.  A child the manager has lost
\* sight of would be none.
Watched(p) == childProcMap[p] # None \/ \E t \in Spawners : pc[t] \in {"spawned", "insert"} /\ pid[t] = p

ChildState == [p \in PIDs |-> IF Watched(p) THEN proc[p] ELSE "none"]

Abstract == INSTANCE Children WITH state <- ChildState, known <- Listed, told <- retPID

\* Every behaviour of the manager is one of Children: however the calls of several
\* threads interleave, a child is reported after its exit, once and to one call.
ImplementsChildren == Abstract!Spec

=============================================================================
