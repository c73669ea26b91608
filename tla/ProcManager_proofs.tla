-------------------------- MODULE ProcManager_proofs --------------------------
(***************************************************************************)
(* Proofs about ProcManager for any sets of threads, descriptors and       *)
(* process ids.  What holds the invariants together is who owns a          *)
(* descriptor: the thread that spawns, until the entry is in the maps, and *)
(* from then on the entry, until the thread that reaps its child erases it *)
(* and closes the descriptor in one section.  Inductive says so in a named *)
(* part each for the lock, the spawners, the maps, the write ends and,     *)
(* where the theorems need it, for a process in which nobody else waits    *)
(* for children and for one in which one thread alone calls                *)
(* ProcessWaitPID.                                                         *)
(***************************************************************************)
EXTENDS ProcManager, TLAPS

Spawning(t) == pc[t] \in {"pipe", "spawned", "insert"}

\* The child runs already and is not listed yet.
InFlight(t) == pc[t] \in {"spawned", "insert"}

WaitStates == {"list", "poll", "scan", "reap", "done"}

\* m_gProcessSpawnLock is held from pipe() until the write end is closed.
LockInv == \A t \in Threads : pc[t] \in {"pipe", "spawned"} <=> spawnLock = t

\* The pipe of a spawn is open, in no map and no other spawn's.
SpawnInv ==
    \A t \in Threads : Spawning(t) =>
        /\ fd[t] \in FDs
        /\ file[fd[t]] = "pipe"
        /\ pollFDToProcMap[fd[t]] = None
        /\ InFlight(t) => pid[t] \in PIDs
        /\ \A u \in Threads \ {t} : Spawning(u) => fd[u] # fd[t]

\* An entry leads back to itself, and what the maps know is open.
MapInv ==
    /\ \A p \in Listed : pollFDToProcMap[childProcMap[p]] = p
    /\ \A f \in FDs : pollFDToProcMap[f] # None => file[f] = "pipe"

WaitInv ==
    \A t \in Threads :
        /\ pc[t] \in WaitStates => t \in Waiters
        /\ pc[t] = "reap" => fd[t] \in FDs

\* Who holds a write end: this process while it spawns, the child of that spawn or
\* of that entry while it runs, and what the child has left behind.
WriterInv ==
    \A f \in FDs :
        /\ Host \in writers[f] => \E t \in Threads : pc[t] \in {"pipe", "spawned"} /\ fd[t] = f
        /\ \A p \in PIDs : p \in writers[f] =>
              /\ proc[p] = "running"
              /\ \/ pollFDToProcMap[f] = p
                 \/ \E t \in Threads : InFlight(t) /\ fd[t] = f /\ pid[t] = p
        /\ Descendant \in writers[f] => ChildrenFork

\* A spawn's child is there and has no entry, nor is it another spawn's.
ChildInv ==
    \A t \in Threads : InFlight(t) =>
        /\ proc[pid[t]] # "none"
        /\ childProcMap[pid[t]] = None
        /\ \A u \in Threads \ {t} : InFlight(u) => pid[u] # pid[t]

\* What holds while no other part of the process waits for children.
ReapInv ==
    ~OthersReap => ChildInv /\ MapsConsistent /\ ListedNotReaped /\ NoChildForgotten

OneWaiter == \A t, u \in Waiters : t = u

\* What the one waiter has copied stays true until it erases an entry itself.
CopyInv ==
    OneWaiter => \A t \in Threads :
        /\ pc[t] \in {"poll", "scan", "reap"} =>
              \A f \in polled[t] :
                  /\ pollFDToProcMap[f] # None
                  /\ pid[t] # None => pollFDToProcMap[f] = pid[t]
        /\ pc[t] \in {"scan", "reap"} => ready[t] \subseteq polled[t]
        /\ pc[t] = "reap" => fd[t] \in polled[t]
        /\ pc[t] = "done" => pid[t] \in {None, retPID[t]}

Inductive ==
    /\ TypeOK
    /\ LockInv
    /\ SpawnInv
    /\ MapInv
    /\ WaitInv
    /\ WriterInv
    /\ ReapInv
    /\ CopyInv

-----------------------------------------------------------------------------
\* Nobody is in a call and no descriptor is open.
LEMMA InitInductive == Init => Inductive
<1> SUFFICES ASSUME Init PROVE Inductive
    OBVIOUS
<1> USE NamesAssumption DEF Init
<1>1. TypeOK
  BY DEF TypeOK
<1>2. LockInv /\ SpawnInv /\ WaitInv
  BY DEF LockInv, SpawnInv, WaitInv, Spawning, WaitStates
<1>3. Listed = {}
  BY DEF Listed
<1>4. MapInv
  BY <1>3 DEF MapInv
<1>5. WriterInv
  BY DEF WriterInv
<1>6. ReapInv
  BY <1>3 DEF ReapInv, ChildInv, InFlight, MapsConsistent, ListedNotReaped, NoChildForgotten
<1>7. CopyInv
  BY DEF CopyInv
<1> QED
  BY <1>1, <1>2, <1>4, <1>5, <1>6, <1>7 DEF Inductive

-----------------------------------------------------------------------------
(***************************************************************************)
(* ProcessSpawn.                                                           *)
(***************************************************************************)

\* pipe() returns a descriptor that is closed, so one no entry and no other spawn has.
LEMMA SpawnPipeStep ==
  ASSUME Inductive, NEW t \in Threads, SpawnPipe(t)
  PROVE  Inductive'
<1> USE NamesAssumption DEF Inductive, SpawnPipe, Goto, mapVars, SpawnLockFree, Spawning, InFlight
<1> PICK f \in FDs :
        /\ file[f] = "closed"
        /\ file' = [file EXCEPT ![f] = "pipe"]
        /\ writers' = [writers EXCEPT ![f] = {Host}]
        /\ fd' = [fd EXCEPT ![t] = f]
  OBVIOUS
<1>1. TypeOK'
  BY DEF TypeOK
<1>2. LockInv'
  BY DEF LockInv, TypeOK
<1>3. pollFDToProcMap[f] = None
  BY DEF MapInv
<1>4. \A u \in Threads : Spawning(u) => fd[u] # f
  BY DEF SpawnInv
<1>5. SpawnInv'
  BY <1>3, <1>4 DEF SpawnInv, TypeOK
<1>6. MapInv'
  BY DEF MapInv, Listed, TypeOK
<1>7. WaitInv'
  BY DEF WaitInv, WaitStates, TypeOK
<1>8. WriterInv'
  BY DEF WriterInv, TypeOK
<1>9. ReapInv'
  BY DEF ReapInv, ChildInv, MapsConsistent, ListedNotReaped, NoChildForgotten, Listed, TypeOK
<1>10. CopyInv'
  BY DEF CopyInv, TypeOK
<1> QED
  BY <1>1, <1>2, <1>5, <1>6, <1>7, <1>8, <1>9, <1>10

\* This process holds the write end of one pipe alone while it has the lock.
LEMMA HostHoldsOne ==
  ASSUME Inductive, NEW t \in Threads, pc[t] \in {"pipe", "spawned"}, NEW f \in FDs,
         Host \in writers[f]
  PROVE  f = fd[t]
BY DEF Inductive, LockInv, WriterInv

\* posix_spawn: the child inherits that one, and its process id was free.
LEMMA SpawnChildStep ==
  ASSUME Inductive, NEW t \in Threads, SpawnChild(t)
  PROVE  Inductive'
<1> USE NamesAssumption DEF Inductive, SpawnChild, Goto, mapVars, Spawning, InFlight
<1> PICK p \in PIDs :
        /\ proc[p] = "none"
        /\ proc' = [proc EXCEPT ![p] = "running"]
        /\ writers' = Inherit(p)
        /\ pid' = [pid EXCEPT ![t] = p]
  OBVIOUS
<1>1. TypeOK'
  BY DEF TypeOK, Inherit
<1>2. LockInv'
  BY DEF LockInv, TypeOK
<1>3. SpawnInv'
  BY DEF SpawnInv, TypeOK
<1>4. MapInv'
  BY DEF MapInv, Listed
<1>5. WaitInv'
  BY DEF WaitInv, WaitStates, TypeOK
<1>6. WriterInv'
  <2> SUFFICES ASSUME NEW f \in FDs PROVE WriterInv!(f)'
    BY DEF WriterInv
  <2>1. writers'[f] = writers[f] \cup (IF Host \in writers[f] THEN {p} ELSE {})
    BY DEF Inherit
  <2>2. (Host \in writers[f] => \E u \in Threads : pc[u] \in {"pipe", "spawned"} /\ fd[u] = f)'
    BY <2>1 DEF WriterInv, TypeOK
  <2>3. ASSUME NEW q \in PIDs, q \in writers'[f]
        PROVE  /\ proc'[q] = "running"
               /\ \/ pollFDToProcMap'[f] = q
                  \/ \E u \in Threads : InFlight(u)' /\ fd'[u] = f /\ pid'[u] = q
    <3>1. CASE q \in writers[f]
      BY <2>3, <3>1 DEF WriterInv, TypeOK
    <3>2. CASE q \notin writers[f]
      <4>1. q = p /\ f = fd[t]
        BY <2>1, <2>3, <3>2, HostHoldsOne
      <4> QED
        BY <4>1 DEF TypeOK
    <3> QED
      BY <3>1, <3>2
  <2>4. (Descendant \in writers[f] => ChildrenFork)'
    BY <2>1 DEF WriterInv
  <2> QED
    BY <2>2, <2>3, <2>4
<1>7. ReapInv'
  <2> SUFFICES ASSUME ~OthersReap
               PROVE  ChildInv' /\ MapsConsistent' /\ ListedNotReaped' /\ NoChildForgotten'
    BY DEF ReapInv
  <2>1. p \notin Listed
    BY DEF ReapInv, ListedNotReaped
  <2>2. ChildInv'
    BY <2>1 DEF ReapInv, ChildInv, Listed, TypeOK
  <2>3. MapsConsistent' /\ ListedNotReaped'
    BY DEF ReapInv, MapsConsistent, ListedNotReaped, Listed, TypeOK
  <2>4. NoChildForgotten'
    BY DEF ReapInv, NoChildForgotten, Listed, TypeOK
  <2> QED
    BY <2>2, <2>3, <2>4
<1>8. CopyInv'
  BY DEF CopyInv, TypeOK
<1> QED
  BY <1>1, <1>2, <1>3, <1>4, <1>5, <1>6, <1>7, <1>8

\* posix_spawn fails: the pipe had no child and no entry.
LEMMA SpawnFailsStep ==
  ASSUME Inductive, NEW t \in Threads, SpawnFails(t)
  PROVE  Inductive'
<1> USE NamesAssumption DEF Inductive, SpawnFails, Return, Goto, mapVars, Spawning, InFlight
<1>1. TypeOK'
  BY DEF TypeOK
<1>2. LockInv'
  BY DEF LockInv, TypeOK
<1>3. SpawnInv'
  BY DEF SpawnInv, TypeOK
<1>4. MapInv'
  BY DEF MapInv, SpawnInv, Listed, TypeOK
<1>5. WaitInv'
  BY DEF WaitInv, WaitStates, TypeOK
<1>6. WriterInv'
  BY DEF WriterInv, SpawnInv, TypeOK
<1>7. ReapInv'
  BY DEF ReapInv, ChildInv, MapsConsistent, ListedNotReaped, NoChildForgotten, Listed, TypeOK
<1>8. CopyInv'
  BY DEF CopyInv, TypeOK
<1> QED
  BY <1>1, <1>2, <1>3, <1>4, <1>5, <1>6, <1>7, <1>8

\* The write end is closed here, the child's stays open.
LEMMA SpawnCloseWriteEndStep ==
  ASSUME Inductive, NEW t \in Threads, SpawnCloseWriteEnd(t)
  PROVE  Inductive'
<1> USE NamesAssumption DEF Inductive, SpawnCloseWriteEnd, Goto, mapVars, Spawning, InFlight
<1>1. TypeOK'
  BY DEF TypeOK
<1>2. LockInv'
  BY DEF LockInv, TypeOK
<1>3. SpawnInv'
  BY DEF SpawnInv, TypeOK
<1>4. MapInv'
  BY DEF MapInv, Listed
<1>5. WaitInv'
  BY DEF WaitInv, WaitStates, TypeOK
<1>6. WriterInv'
  BY DEF WriterInv, SpawnInv, LockInv, TypeOK
<1>7. ReapInv'
  BY DEF ReapInv, ChildInv, MapsConsistent, ListedNotReaped, NoChildForgotten, Listed, TypeOK
<1>8. CopyInv'
  BY DEF CopyInv, TypeOK
<1> QED
  BY <1>1, <1>2, <1>3, <1>4, <1>5, <1>6, <1>7, <1>8

\* The entry takes the descriptor and the child over from the spawn.
LEMMA SpawnInsertStep ==
  ASSUME Inductive, NEW t \in Threads, SpawnInsert(t)
  PROVE  Inductive'
<1> USE NamesAssumption DEF Inductive, SpawnInsert, WithPollFD, Return, Goto, kernelVars, Spawning, InFlight
<1> DEFINE p == pid[t]
           f == fd[t]
<1>0. /\ p \in PIDs /\ f \in FDs
      /\ pollFDToProcMap[f] = None /\ file[f] = "pipe"
  BY DEF SpawnInv
<1>1. TypeOK'
  BY <1>0 DEF TypeOK
<1>2. LockInv'
  BY DEF LockInv, TypeOK
<1>3. SpawnInv'
  BY DEF SpawnInv, TypeOK
<1>4. MapInv'
  BY <1>0 DEF MapInv, Listed, TypeOK
<1>5. WaitInv'
  BY DEF WaitInv, WaitStates, TypeOK
<1>6. WriterInv'
  BY <1>0 DEF WriterInv, TypeOK
<1>7. ReapInv'
  <2> SUFFICES ASSUME ~OthersReap
               PROVE  ChildInv' /\ MapsConsistent' /\ ListedNotReaped' /\ NoChildForgotten'
    BY DEF ReapInv
  <2>1. childProcMap[p] = None /\ proc[p] # "none"
    BY DEF ReapInv, ChildInv
  <2>2. ChildInv'
    BY <1>0 DEF ReapInv, ChildInv, SpawnInv, TypeOK
  <2>3. MapsConsistent'
    BY <1>0, <2>1 DEF ReapInv, MapsConsistent, Listed, TypeOK
  <2>4. ListedNotReaped'
    BY <1>0, <2>1 DEF ReapInv, ListedNotReaped, Listed, TypeOK
  <2>5. NoChildForgotten'
    BY <1>0 DEF ReapInv, NoChildForgotten, Listed, TypeOK
  <2> QED
    BY <2>2, <2>3, <2>4, <2>5
<1>8. CopyInv'
  BY <1>0 DEF CopyInv, WaitInv, WaitStates, TypeOK
<1> QED
  BY <1>1, <1>2, <1>3, <1>4, <1>5, <1>6, <1>7, <1>8
-----------------------------------------------------------------------------
(***************************************************************************)
(* ProcessWaitPID.                                                         *)
(***************************************************************************)

\* A step of thread t's own in ProcessWaitPID: no map, file, child or lock changes.
OwnStep(t) ==
    /\ ~Spawning(t) /\ ~Spawning(t)'
    /\ \A u \in Threads \ {t} :
          /\ pc'[u] = pc[u] /\ fd'[u] = fd[u] /\ pid'[u] = pid[u]
          /\ polled'[u] = polled[u] /\ ready'[u] = ready[u] /\ retPID'[u] = retPID[u]
    /\ UNCHANGED <<spawnLock, mapVars, kernelVars>>

\* Such a step disturbs no more than the types and what is said of t as a waiter.
LEMMA OwnStepKeeps ==
  ASSUME Inductive, NEW t \in Threads, OwnStep(t), TypeOK', WaitInv', CopyInv'
  PROVE  Inductive'
<1> USE NamesAssumption DEF Inductive, OwnStep, mapVars, kernelVars, Spawning, InFlight
<1>1. LockInv'
  BY DEF LockInv, TypeOK
<1>2. SpawnInv'
  BY DEF SpawnInv
<1>3. MapInv'
  BY DEF MapInv, Listed
<1>4. WriterInv'
  BY DEF WriterInv
<1>5. ReapInv'
  BY DEF ReapInv, ChildInv, MapsConsistent, ListedNotReaped, NoChildForgotten, Listed
<1> QED
  BY <1>1, <1>2, <1>3, <1>4, <1>5

\* The actions of ProcessWaitPID that are such steps.
WaitOwn(t) ==
    \/ WaitBegin(t) \/ WaitList(t) \/ WaitNoChild(t) \/ WaitPoll(t) \/ WaitPollNothing(t)
    \/ WaitRead(t) \/ WaitAgain(t) \/ WaitNotReaped(t) \/ WaitReturn(t)

LEMMA WaitOwnIsOwnStep ==
  ASSUME Inductive, NEW t \in Threads, WaitOwn(t)
  PROVE  OwnStep(t)
<1> USE DEF Inductive, TypeOK, OwnStep, Spawning, Goto, Return
<1>1. CASE WaitBegin(t)
  BY <1>1 DEF WaitBegin
<1>2. CASE WaitList(t)
  BY <1>2 DEF WaitList
<1>3. CASE WaitNoChild(t)
  BY <1>3 DEF WaitNoChild
<1>4. CASE WaitPoll(t)
  BY <1>4 DEF WaitPoll
<1>5. CASE WaitPollNothing(t)
  BY <1>5 DEF WaitPollNothing
<1>6. CASE WaitRead(t)
  BY <1>6 DEF WaitRead
<1>7. CASE WaitAgain(t)
  BY <1>7 DEF WaitAgain
<1>8. CASE WaitNotReaped(t)
  BY <1>8 DEF WaitNotReaped
<1>9. CASE WaitReturn(t)
  BY <1>9 DEF WaitReturn
<1> QED
  BY <1>1, <1>2, <1>3, <1>4, <1>5, <1>6, <1>7, <1>8, <1>9 DEF WaitOwn

LEMMA WaitOwnTypes ==
  ASSUME Inductive, NEW t \in Threads, WaitOwn(t)
  PROVE  TypeOK' /\ WaitInv'
<1> USE DEF Inductive, TypeOK, WaitInv, WaitStates, Goto, Return, mapVars, kernelVars
<1>1. CASE WaitBegin(t)
  BY <1>1 DEF WaitBegin
<1>2. CASE WaitList(t)
  <2>1. {childProcMap[p] : p \in Children(t)} \subseteq FDs
    BY DEF Children, Listed
  <2> QED
    BY <1>2, <2>1 DEF WaitList
<1>3. CASE WaitNoChild(t)
  BY <1>3 DEF WaitNoChild
<1>4. CASE WaitPoll(t)
  BY <1>4 DEF WaitPoll
<1>5. CASE WaitPollNothing(t)
  BY <1>5 DEF WaitPollNothing
<1>6. CASE WaitRead(t)
  BY <1>6 DEF WaitRead
<1>7. CASE WaitAgain(t)
  <2>1. CASE Return(t)
    BY <1>7, <2>1 DEF WaitAgain
  <2>2. CASE /\ pc' = [pc EXCEPT ![t] = "list"]
             /\ polled' = [polled EXCEPT ![t] = {}]
             /\ UNCHANGED <<fd, pid, nohang, ready, retPID>>
    BY <1>7, <2>2 DEF WaitAgain
  <2> QED
    BY <1>7, <2>1, <2>2 DEF WaitAgain
<1>8. CASE WaitNotReaped(t)
  BY <1>8 DEF WaitNotReaped
<1>9. CASE WaitReturn(t)
  BY <1>9 DEF WaitReturn
<1> QED
  BY <1>1, <1>2, <1>3, <1>4, <1>5, <1>6, <1>7, <1>8, <1>9 DEF WaitOwn

\* What t copies under the lock is in the maps, and what it carries on from one step
\* to the next is among what it has copied.
LEMMA WaitOwnCopies ==
  ASSUME Inductive, NEW t \in Threads, WaitOwn(t)
  PROVE  CopyInv'
<1> USE NamesAssumption
    DEF Inductive, TypeOK, CopyInv, OneWaiter, Goto, Return, mapVars, kernelVars
<1>1. CASE WaitBegin(t)
  BY <1>1 DEF WaitBegin
<1>2. CASE WaitList(t)
  <2>1. \A f \in {childProcMap[p] : p \in Children(t)} :
           /\ pollFDToProcMap[f] # None
           /\ pid[t] # None => pollFDToProcMap[f] = pid[t]
    BY DEF Children, Listed, MapInv
  <2> QED
    BY <1>2, <2>1 DEF WaitList
<1>3. CASE WaitNoChild(t)
  BY <1>3 DEF WaitNoChild
<1>4. CASE WaitPoll(t)
  BY <1>4 DEF WaitPoll
<1>5. CASE WaitPollNothing(t)
  BY <1>5 DEF WaitPollNothing
<1>6. CASE WaitRead(t)
  BY <1>6 DEF WaitRead
<1>7. CASE WaitAgain(t)
  BY <1>7 DEF WaitAgain
<1>8. CASE WaitNotReaped(t)
  BY <1>8 DEF WaitNotReaped
<1>9. CASE WaitReturn(t)
  BY <1>9 DEF WaitReturn
<1> QED
  BY <1>1, <1>2, <1>3, <1>4, <1>5, <1>6, <1>7, <1>8, <1>9 DEF WaitOwn

LEMMA WaitOwnStep ==
  ASSUME Inductive, NEW t \in Threads, WaitOwn(t)
  PROVE  Inductive'
BY WaitOwnIsOwnStep, WaitOwnTypes, WaitOwnCopies, OwnStepKeeps

\* A child that is reaped is over, so that nobody holds a write end in its name; its
\* entries and its descriptor go together.
LEMMA WaitReapStep ==
  ASSUME Inductive, NEW t \in Threads, WaitReap(t)
  PROVE  Inductive'
<1> USE NamesAssumption
    DEF Inductive, WaitReap, EraseChild, ErasePollFD, Over, Goto, Spawning, InFlight
<1> DEFINE f == fd[t]
           p == pollFDToProcMap[f]
<1>0. f \in FDs /\ p \in PIDs /\ file[f] = "pipe" /\ proc[p] # "running"
  BY DEF WaitInv, MapInv, TypeOK
<1>1. TypeOK'
  BY <1>0 DEF TypeOK
<1>2. LockInv'
  BY DEF LockInv, TypeOK
<1>3. SpawnInv'
  BY <1>0 DEF SpawnInv, TypeOK
<1>4. MapInv'
  BY <1>0 DEF MapInv, Listed, TypeOK
<1>5. WaitInv'
  BY DEF WaitInv, WaitStates, TypeOK
<1>6. WriterInv'
  <2>1. \A g \in FDs, q \in PIDs : q \in writers[g] =>
           q # p /\ (pollFDToProcMap'[g] = pollFDToProcMap[g] \/ pollFDToProcMap[g] # q)
    BY <1>0 DEF WriterInv, TypeOK
  <2>2. \A q \in PIDs : q # p => proc'[q] = proc[q]
    BY <1>0 DEF TypeOK
  <2>3. \A u \in Threads : u # t => pc'[u] = pc[u]
    BY DEF TypeOK
  <2> QED
    BY <2>1, <2>2, <2>3 DEF WriterInv
<1>7. ReapInv'
  <2> SUFFICES ASSUME ~OthersReap
               PROVE  ChildInv' /\ MapsConsistent' /\ ListedNotReaped' /\ NoChildForgotten'
    BY DEF ReapInv
  <2>1. p \in Listed /\ childProcMap[p] = f /\ proc[p] = "zombie"
    BY <1>0 DEF ReapInv, MapsConsistent, ListedNotReaped, Listed, TypeOK
  <2>2. ChildInv'
    BY <1>0, <2>1 DEF ReapInv, ChildInv, SpawnInv, Listed, TypeOK
  <2>3. MapsConsistent'
    BY <1>0, <2>1 DEF ReapInv, MapsConsistent, Listed, TypeOK
  <2>4. ListedNotReaped'
    BY <1>0, <2>1 DEF ReapInv, ListedNotReaped, Listed, TypeOK
  <2>5. NoChildForgotten'
    BY <1>0, <2>1 DEF ReapInv, NoChildForgotten, Listed, TypeOK
  <2> QED
    BY <2>2, <2>3, <2>4, <2>5
<1>8. CopyInv'
  <2> SUFFICES ASSUME OneWaiter PROVE CopyInv'
    BY DEF CopyInv
  <2>1. \A u \in Threads \ {t} : pc[u] \notin WaitStates
    BY DEF WaitInv, WaitStates, OneWaiter
  <2>2. pid[t] \in {None, p}
    BY DEF CopyInv
  <2> QED
    BY <2>1, <2>2 DEF CopyInv, WaitStates, TypeOK
<1> QED
  BY <1>1, <1>2, <1>3, <1>4, <1>5, <1>6, <1>7, <1>8

-----------------------------------------------------------------------------
(***************************************************************************)
(* The children, and the other parts of the process.                       *)
(***************************************************************************)

\* A child that hangs up, forks or exits, and what it has left behind.
LEMMA ChildStep ==
  ASSUME Inductive,
         (\E p \in PIDs : ChildHangsUp(p) \/ ChildExits(p) \/ ChildForks(p)) \/ DescendantExits
  PROVE  Inductive'
<1> USE NamesAssumption
    DEF Inductive, callVars, mapVars, Spawning, InFlight
<1>0. UNCHANGED <<callVars, spawnLock, mapVars, file>>
  BY DEF ChildHangsUp, ChildExits, ChildForks, DescendantExits
<1>1. TypeOK'
  BY <1>0 DEF TypeOK, ChildHangsUp, ChildExits, ChildForks, DescendantExits
<1>2. LockInv' /\ SpawnInv' /\ MapInv' /\ WaitInv' /\ CopyInv'
  BY <1>0 DEF LockInv, SpawnInv, MapInv, WaitInv, CopyInv, Listed
<1>3. WriterInv'
  <2>1. CASE \E p \in PIDs : ChildHangsUp(p)
    BY <1>0, <2>1 DEF WriterInv, ChildHangsUp
  <2>2. CASE \E p \in PIDs : ChildExits(p)
    BY <1>0, <2>2 DEF WriterInv, ChildExits, TypeOK
  <2>3. CASE \E p \in PIDs : ChildForks(p)
    <3>1. ChildrenFork /\ proc' = proc
      BY <2>3 DEF ChildForks
    <3>2. \A f \in FDs : writers'[f] \ {Descendant} = writers[f] \ {Descendant}
      BY <2>3 DEF ChildForks, TypeOK
    <3> QED
      BY <1>0, <3>1, <3>2 DEF WriterInv
  <2>4. CASE DescendantExits
    <3>1. \A f \in FDs : writers'[f] \subseteq writers[f]
      BY <2>4 DEF DescendantExits, TypeOK
    <3> QED
      BY <1>0, <2>4, <3>1 DEF WriterInv, DescendantExits
  <2> QED
    BY <2>1, <2>2, <2>3, <2>4
<1>4. \A q \in PIDs : proc[q] # "none" <=> proc'[q] # "none"
  BY DEF ChildHangsUp, ChildExits, ChildForks, DescendantExits, TypeOK
<1>5. ReapInv'
  BY <1>0, <1>4 DEF ReapInv, ChildInv, MapsConsistent, ListedNotReaped, NoChildForgotten,
     Listed, SpawnInv
<1> QED
  BY <1>1, <1>2, <1>3, <1>5

\* Where nobody else waits for children this does not happen; it disturbs nothing of
\* the parts that hold nevertheless, for the child is no writer any more.
LEMMA OtherReapsStep ==
  ASSUME Inductive, NEW p \in PIDs, OtherReaps(p)
  PROVE  Inductive'
<1> USE DEF Inductive, OtherReaps, callVars, mapVars, Spawning, InFlight
<1>1. TypeOK'
  BY DEF TypeOK
<1>2. LockInv' /\ SpawnInv' /\ MapInv' /\ WaitInv' /\ CopyInv'
  BY DEF LockInv, SpawnInv, MapInv, WaitInv, CopyInv, Listed
<1>3. WriterInv'
  BY DEF WriterInv, TypeOK
<1>4. ReapInv'
  BY DEF ReapInv
<1> QED
  BY <1>1, <1>2, <1>3, <1>4

\* Other parts of the process open what is closed and close what is theirs.
LEMMA OtherFileStep ==
  ASSUME Inductive, NEW f \in FDs, OtherFile(f)
  PROVE  Inductive'
<1> USE DEF Inductive, OtherFile, callVars, mapVars, Spawning, InFlight
<1>1. TypeOK'
  BY DEF TypeOK
<1>2. LockInv' /\ SpawnInv' /\ MapInv' /\ WaitInv' /\ CopyInv'
  BY DEF LockInv, SpawnInv, MapInv, WaitInv, CopyInv, Listed, TypeOK
<1>3. WriterInv' /\ ReapInv'
  BY DEF WriterInv, ReapInv, ChildInv, MapsConsistent, ListedNotReaped, NoChildForgotten, Listed
<1> QED
  BY <1>1, <1>2, <1>3

LEMMA NextInductive == Inductive /\ [Next]_vars => Inductive'
<1> SUFFICES ASSUME Inductive, [Next]_vars PROVE Inductive'
    OBVIOUS
<1>1. ASSUME NEW t \in Threads, SpawnPipe(t) \/ SpawnStep(t) PROVE Inductive'
  BY <1>1, SpawnPipeStep, SpawnChildStep, SpawnFailsStep, SpawnCloseWriteEndStep,
     SpawnInsertStep DEF SpawnStep
<1>2. ASSUME NEW t \in Threads, WaitBegin(t) \/ WaitStep(t) \/ WaitPollNothing(t)
      PROVE  Inductive'
  BY <1>2, WaitOwnStep, WaitReapStep DEF WaitStep, WaitOwn
<1>3. ASSUME NEW p \in PIDs, ChildHangsUp(p) \/ ChildExits(p) \/ ChildForks(p) \/ OtherReaps(p)
      PROVE  Inductive'
  BY <1>3, ChildStep, OtherReapsStep
<1>4. CASE DescendantExits
  BY <1>4, ChildStep
<1>5. ASSUME NEW f \in FDs, OtherFile(f) PROVE Inductive'
  BY <1>5, OtherFileStep
<1>6. CASE UNCHANGED vars
  BY <1>6 DEF vars, callVars, mapVars, kernelVars, Inductive, TypeOK, LockInv, SpawnInv, MapInv,
     WaitInv, WriterInv, ReapInv, CopyInv, ChildInv, MapsConsistent, ListedNotReaped,
     NoChildForgotten, Listed, Spawning, InFlight
<1> QED
  BY <1>1, <1>2, <1>3, <1>4, <1>5, <1>6 DEF Next

LEMMA AlwaysInductive == Spec => []Inductive
BY InitInductive, NextInductive, PTL DEF Spec

-----------------------------------------------------------------------------
\* Every variable keeps its type.
THEOREM TypeCorrect == Spec => []TypeOK
<1>1. Inductive => TypeOK
  BY DEF Inductive
<1> QED
  BY <1>1, AlwaysInductive, PTL

\* A listed child's descriptor is open, its own pipe and known under the child's
\* process id, however the calls of several threads interleave, whoever else waits
\* for children: nobody closes the descriptor of a child that is listed.
THEOREM ListedPipeStaysOpen ==
  Spec => [](ListedPipeOpen /\ \A p \in Listed : pollFDToProcMap[childProcMap[p]] = p)
<1>1. Inductive => ListedPipeOpen /\ \A p \in Listed : pollFDToProcMap[childProcMap[p]] = p
  BY NamesAssumption DEF Inductive, MapInv, ListedPipeOpen, Listed, TypeOK
<1> QED
  BY <1>1, AlwaysInductive, PTL

\* The three that follow need that nothing else in the process waits for children.

\* The assertions of the two maps' sizes: outside the lock the maps name the same
\* children and descriptors.
THEOREM MapsAgree ==
  ASSUME ~OthersReap
  PROVE  Spec => []MapsConsistent
<1>1. Inductive => MapsConsistent
  BY DEF Inductive, ReapInv
<1> QED
  BY <1>1, AlwaysInductive, PTL

\* A child in the maps is one that waitpid() can still give, with its pipe open.
THEOREM ListedIsChild ==
  ASSUME ~OthersReap
  PROVE  Spec => []ListedCanBeWaitedFor
<1>1. Inductive => ListedCanBeWaitedFor
  BY NamesAssumption DEF Inductive, ReapInv, MapInv, ListedCanBeWaitedFor, ListedPipeOpen, Listed, TypeOK
<1> QED
  BY <1>1, AlwaysInductive, PTL

\* No child is lost: each is listed or in the hands of one call.
THEOREM NoChildLost ==
  ASSUME ~OthersReap
  PROVE  Spec => []NoChildForgotten
<1>1. Inductive => NoChildForgotten
  BY DEF Inductive, ReapInv
<1> QED
  BY <1>1, AlwaysInductive, PTL

\* Of a child that has exited, only processes it has left behind can keep the pipe
\* from hanging up: neither this process nor the child of another spawn has got hold
\* of the write end.
THEOREM OnlyDescendantsHoldPipe ==
  Spec => [](\A p \in Listed : proc[p] = "zombie" => writers[childProcMap[p]] \subseteq {Descendant})
<1>1. ASSUME Inductive, NEW p \in Listed, proc[p] = "zombie"
      PROVE  writers[childProcMap[p]] \subseteq {Descendant}
  <2> DEFINE f == childProcMap[p]
  <2>1. p \in PIDs /\ f \in FDs /\ pollFDToProcMap[f] = p
    BY <1>1 DEF Inductive, MapInv, Listed, TypeOK
  <2>2. \A t \in Threads : Spawning(t) => fd[t] # f
    BY <1>1, <2>1, NamesAssumption DEF Inductive, SpawnInv
  <2>3. Host \notin writers[f] /\ \A q \in PIDs : q \notin writers[f]
    BY <1>1, <2>1, <2>2 DEF Inductive, WriterInv, Spawning, InFlight
  <2> QED
    BY <1>1, <2>1, <2>3 DEF Inductive, TypeOK
<1>2. Inductive => \A p \in Listed : proc[p] = "zombie" => writers[childProcMap[p]] \subseteq {Descendant}
  BY <1>1
<1> QED
  BY <1>2, AlwaysInductive, PTL

\* "Create pipes to detect if the child process is alive": they do, when children leave
\* no process behind that holds the pipe.
THEOREM PipeTells ==
  ASSUME ~ChildrenFork
  PROVE  Spec => []PipeTellsAlive
<1>1. Inductive => \A p \in Listed : Descendant \notin writers[childProcMap[p]]
  BY DEF Inductive, WriterInv, Listed, TypeOK
<1>2. /\ \A p \in Listed : Descendant \notin writers[childProcMap[p]]
      /\ \A p \in Listed : proc[p] = "zombie" => writers[childProcMap[p]] \subseteq {Descendant}
      => PipeTellsAlive
  BY DEF PipeTellsAlive
<1> QED
  BY <1>1, <1>2, AlwaysInductive, OnlyDescendantsHoldPipe, PTL

\* assert(pid <= 0 || pid == *retPID), in a process in which one thread alone calls
\* ProcessWaitPID; with two of them it is violated.
THEOREM ReportsRightChild ==
  ASSUME OneWaiter
  PROVE  Spec => []RightChild
<1>1. Inductive => RightChild
  BY DEF Inductive, CopyInv, RightChild
<1> QED
  BY <1>1, AlwaysInductive, PTL

-----------------------------------------------------------------------------
(***************************************************************************)
(* ProcManager implements Children.                                        *)
(***************************************************************************)

\* A call has a child to report only at its end, and those that spawn are spawners.
ReportInv ==
    \A t \in Threads :
        /\ pc[t] # "done" => retPID[t] = None
        /\ InFlight(t) \/ pc[t] = "pipe" => t \in Spawners

LEMMA ReportsAtTheEnd == Spec => []ReportInv
<1>1. Init => ReportInv
  BY DEF Init, ReportInv, InFlight
<1>2. TypeOK /\ ReportInv /\ [Next]_vars => ReportInv'
  <2> SUFFICES ASSUME TypeOK, ReportInv, [Next]_vars PROVE ReportInv'
    OBVIOUS
  <2> USE DEF TypeOK, ReportInv, InFlight
  <2>1. ASSUME NEW t \in Threads, SpawnPipe(t) \/ SpawnStep(t) PROVE ReportInv'
    BY <2>1 DEF SpawnStep, SpawnPipe, SpawnChild, SpawnFails, SpawnCloseWriteEnd, SpawnInsert, Goto, Return
  <2>2. ASSUME NEW t \in Threads, WaitBegin(t) \/ WaitPollNothing(t) \/ WaitStep(t) PROVE ReportInv'
    BY <2>2 DEF WaitBegin, WaitPollNothing, WaitStep, WaitList, WaitNoChild, WaitPoll, WaitRead, WaitAgain,
       WaitReap, WaitNotReaped, WaitReturn, Goto, Return
  <2>3. CASE UNCHANGED callVars
    BY <2>3 DEF callVars
  <2> QED
    BY <2>1, <2>2, <2>3 DEF Next, vars, ChildHangsUp, ChildExits, ChildForks, OtherReaps,
       DescendantExits, OtherFile
<1> QED
  BY <1>1, <1>2, TypeCorrect, PTL DEF Spec

\* No child is out of the manager's sight.
AllWatched == ChildState = proc

LEMMA ChildrenAreWatched ==
  ASSUME ~OthersReap, Inductive, ReportInv
  PROVE  AllWatched
<1>1. \A p \in PIDs : proc[p] # "none" => Watched(p)
  BY DEF Inductive, ReapInv, NoChildForgotten, Watched, Listed, ReportInv, InFlight
<1>2. proc = [p \in PIDs |-> proc[p]]
  BY DEF Inductive, TypeOK
<1> QED
  BY <1>1, <1>2 DEF ChildState, AllWatched

\* What a step does as Children sees it, in terms of what the kernel, the maps and the
\* calls know.
Mapped ==
    \/ UNCHANGED <<proc, Listed, retPID>>
    \/ \E p \in PIDs :
          \/ proc[p] = "none" /\ proc' = [proc EXCEPT ![p] = "running"] /\ UNCHANGED <<Listed, retPID>>
          \/ proc[p] # "none" /\ p \notin Listed /\ Listed' = Listed \cup {p} /\ UNCHANGED <<proc, retPID>>
          \/ proc[p] = "running" /\ proc' = [proc EXCEPT ![p] = "zombie"] /\ UNCHANGED <<Listed, retPID>>
          \/ \E t \in Threads :
                /\ p \in Listed /\ proc[p] = "zombie" /\ retPID[t] = None
                /\ proc' = [proc EXCEPT ![p] = "none"]
                /\ Listed' = Listed \ {p}
                /\ retPID' = [retPID EXCEPT ![t] = p]
    \/ \E t \in Threads :
          retPID[t] # None /\ retPID' = [retPID EXCEPT ![t] = None] /\ UNCHANGED <<proc, Listed>>

LEMMA StepIsMapped ==
  ASSUME ~OthersReap, Inductive, ReportInv, [Next]_vars
  PROVE  Mapped
<1> USE DEF Mapped
<1>1. ASSUME NEW t \in Threads, SpawnPipe(t) \/ SpawnFails(t) \/ SpawnCloseWriteEnd(t)
      PROVE  Mapped
  <2>1. UNCHANGED <<proc, mapVars, retPID>>
    BY <1>1 DEF SpawnPipe, SpawnFails, SpawnCloseWriteEnd, Return, Inductive, TypeOK, ReportInv, InFlight
  <2> QED
    BY <2>1 DEF mapVars, Listed
<1>2. ASSUME NEW t \in Threads, SpawnChild(t)
      PROVE  Mapped
  BY <1>2 DEF SpawnChild, mapVars, Listed
<1>3. ASSUME NEW t \in Threads, SpawnInsert(t)
      PROVE  Mapped
  <2>1. /\ fd[t] \in FDs /\ fd[t] # None /\ pid[t] \in PIDs
        /\ proc[pid[t]] # "none" /\ childProcMap[pid[t]] = None
    BY <1>3, NamesAssumption DEF SpawnInsert, Inductive, SpawnInv, Spawning, InFlight, ReapInv, ChildInv
  <2>2. Listed' = Listed \cup {pid[t]} /\ pid[t] \notin Listed
    BY <1>3, <2>1 DEF SpawnInsert, Listed, Inductive, TypeOK
  <2>3. UNCHANGED <<proc, retPID>>
    BY <1>3 DEF SpawnInsert, Return, kernelVars, Inductive, TypeOK, ReportInv
  <2> QED
    BY <2>1, <2>2, <2>3
<1>4. ASSUME NEW t \in Threads,
             WaitBegin(t) \/ WaitList(t) \/ WaitNoChild(t) \/ WaitPoll(t) \/ WaitPollNothing(t)
             \/ WaitRead(t) \/ WaitAgain(t) \/ WaitNotReaped(t)
      PROVE  Mapped
  <2>1. UNCHANGED <<kernelVars, mapVars, retPID>>
    BY <1>4 DEF WaitBegin, WaitList, WaitNoChild, WaitPoll, WaitPollNothing, WaitRead, WaitAgain, WaitNotReaped,
       Return, Inductive, TypeOK, ReportInv
  <2> QED
    BY <2>1 DEF kernelVars, mapVars, Listed
<1>5. ASSUME NEW t \in Threads, WaitReap(t)
      PROVE  Mapped
  <2> DEFINE p == pollFDToProcMap[fd[t]]
  <2>1. fd[t] \in FDs /\ fd[t] # None /\ p \in PIDs /\ childProcMap[p] = fd[t] /\ retPID[t] = None
    BY <1>5, NamesAssumption
       DEF WaitReap, Inductive, TypeOK, WaitInv, ReapInv, MapsConsistent, ReportInv
  <2>2. p \in Listed /\ proc[p] = "zombie"
    BY <1>5, <2>1 DEF WaitReap, Over, Listed, Inductive, TypeOK, ReapInv, ListedNotReaped
  <2>3. Listed' = Listed \ {p}
    BY <1>5, <2>1 DEF WaitReap, EraseChild, Listed, Inductive, TypeOK
  <2>4. proc' = [proc EXCEPT ![p] = "none"] /\ retPID' = [retPID EXCEPT ![t] = p]
    BY <1>5, <2>2 DEF WaitReap
  <2> QED
    BY <2>1, <2>2, <2>3, <2>4
<1>6. ASSUME NEW t \in Threads, WaitReturn(t)
      PROVE  Mapped
  <2>1. UNCHANGED <<proc, Listed>> /\ retPID' = [retPID EXCEPT ![t] = None]
    BY <1>6 DEF WaitReturn, Return, mapVars, kernelVars, Listed
  <2>2. retPID[t] = None => UNCHANGED retPID
    BY <2>1 DEF Inductive, TypeOK
  <2> QED
    BY <2>1, <2>2
<1>7. ASSUME NEW p \in PIDs, ChildExits(p)
      PROVE  Mapped
  BY <1>7 DEF ChildExits, callVars, mapVars, Listed
<1>8. CASE UNCHANGED <<callVars, mapVars, proc>>
  BY <1>8 DEF callVars, mapVars, Listed
<1> QED
  BY <1>1, <1>2, <1>3, <1>4, <1>5, <1>6, <1>7, <1>8
     DEF Next, SpawnStep, WaitStep, ChildHangsUp, ChildForks, OtherReaps, DescendantExits, OtherFile, vars, kernelVars

\* While nothing else in the process waits for children the manager keeps what Children
\* promises, however many threads spawn and wait: a child is reported after its exit,
\* once and to one call, and its process id is another's only after that.
THEOREM Refinement ==
  ASSUME ~OthersReap
  PROVE  Spec => ImplementsChildren
<1>1. Init => Abstract!Init
  <2> SUFFICES ASSUME Init PROVE Abstract!Init
    OBVIOUS
  <2>1. Listed = {} /\ proc = [p \in PIDs |-> "none"] /\ retPID = [t \in Threads |-> None]
    BY DEF Init, Listed
  <2>2. ChildState = [p \in PIDs |-> "none"]
    BY <2>1 DEF ChildState
  <2> QED
    BY <2>1, <2>2 DEF Abstract!Init
<1>2. Inductive /\ ReportInv => AllWatched
  BY ChildrenAreWatched
<1>3. Inductive /\ ReportInv /\ AllWatched /\ AllWatched' /\ [Next]_vars => [Abstract!Next]_(Abstract!vars)
  <2> SUFFICES ASSUME Inductive, ReportInv, AllWatched, AllWatched', [Next]_vars
               PROVE  [Abstract!Next]_(Abstract!vars)
    OBVIOUS
  <2>1. ChildState = proc /\ ChildState' = proc'
    BY DEF AllWatched
  <2>2. Mapped
    BY StepIsMapped
  <2>3. \/ UNCHANGED <<ChildState, Listed, retPID>>
        \/ \E p \in PIDs : \/ Abstract!Start(p) \/ Abstract!Name(p) \/ Abstract!Exit(p)
                           \/ \E t \in Threads : Abstract!Report(t, p)
        \/ \E t \in Threads : Abstract!Take(t)
    BY <2>1, <2>2 DEF Mapped, Abstract!Start, Abstract!Name, Abstract!Exit, Abstract!Report, Abstract!Take
  <2> QED
    BY <2>3 DEF Abstract!Next, Abstract!vars
<1> QED
  BY <1>1, <1>2, <1>3, AlwaysInductive, ReportsAtTheEnd, PTL DEF Spec, ImplementsChildren, Abstract!Spec

=============================================================================
