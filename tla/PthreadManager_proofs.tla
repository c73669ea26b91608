------------------------ MODULE PthreadManager_proofs ------------------------
(***************************************************************************)
(* Proofs about PthreadManager for every set of threads, every size of the *)
(* app heap, with and without spurious wakeups and refused stacks.  The    *)
(* invariants of the specification are not inductive: what keeps an info   *)
(* alive is who holds a shared pointer, what keeps the map right is that   *)
(* no handle is given twice, and what keeps the joiner from waiting for    *)
(* ever is how exitCtrl.waitCount goes with the thread's and the joiner's  *)
(* progress.  Inductive adds these, one named part each, and holds also    *)
(* with destructors that start threads; the theorems about what is left    *)
(* after the cleanup assume that they start none.                          *)
(***************************************************************************)
EXTENDS PthreadManager, FiniteSetTheorems, TLAPS

\* The thread has been given a handle, and a place in m_threadMap.
HandleGiven(t) == pc[t] \notin {"unborn", "building", "failed"}

Given == {t \in Threads : HandleGiven(t)}

\* No handle is given twice: m_curHandleId counts the threads that have one.
CountInv ==
    /\ curHandleId = 0 => Cardinality(Given) = HandleMod - 1
    /\ curHandleId # 0 => Cardinality(Given) = curHandleId - 1

HandleInv ==
    \A t \in Threads :
        /\ HandleGiven(t) => handleID[t] # 0 /\ (curHandleId # 0 => handleID[t] < curHandleId)
        /\ ~HandleGiven(t) => handleID[t] = 0 /\ pHostThread[t] = "null" /\ waitCount[t] = 0

UniqueInv ==
    \A t, u \in Threads :
        HandleGiven(t) /\ HandleGiven(u) /\ handleID[t] = handleID[u] => t = u

\* An entry of m_threadMap is that of the thread, or main's.
MapInv ==
    \A h \in Handles :
        /\ threadMap[h] = Main => h = MainHandle
        /\ \A t \in Threads : threadMap[h] = t => HandleGiven(t) /\ handleID[t] = h

\* waitCount against the thread and the joiner.
WaitInv ==
    \A t \in Threads :
        /\ waitCount[t] = -1 =>
              pc[t] \in {"exited", "done"} /\ pHostThread[t] \in {"joined", "detached"}
        /\ waitCount[t] = 1 <=> dpc = "waiting" /\ target = t
        /\ pc[t] \in {"exited", "done"} =>
              waitCount[t] = -1 \/ (dpc \in {"waiting", "hostjoin"} /\ target = t)

\* The destroying thread.
JoinInv ==
    /\ dpc \in {"waiting", "hostjoin", "erase"} => target \in toJoin
    /\ dpc \in {"join", "waiting", "hostjoin", "erase"} => toCancel = {}
    /\ dpc = "waiting" => (signaled <=> pc[target] \in {"exited", "done"})
    /\ dpc = "erase" => waitCount[target] = -1
    /\ dpc = "hostjoin" => pHostThread[target] # "null"
    /\ \A t \in batch : HandleGiven(t)
    /\ dpc \in {"open", "snapshot", "exitMain", "dtors", "dead", "deleted"} => batch = {}

\* A spawner is the main exec env under execFuncLock or a running thread.
SpawnInv ==
    \A t \in Threads :
        /\ spawner[t] = Main => dpc = "open" \/ (dpc = "dtors" /\ DtorsSpawn)
        /\ spawner[t] \in Threads => pc[spawner[t]] = "running"
        /\ pc[t] \in {"building", "registered"} =>
              spawner[t] # NoThread /\ pHostThread[t] = "null"
        /\ pc[t] \in {"unborn", "failed"} => spawner[t] = NoThread

\* An info that somebody holds a shared pointer to has not been freed.
FreeInv ==
    \A t \in Threads :
        /\ pc[t] \in {"unborn", "building"} => destroyed[t] = 0
        /\ HandleGiven(t) => destroyed[t] <= 1
        /\ HandleGiven(t)
              /\ (spawner[t] # NoThread \/ t \in batch \/ threadMap[handleID[t]] = t)
              => destroyed[t] = 0

\* An info that has not been freed has somebody who holds a shared pointer to it.
LeakInv ==
    \A t \in Threads : HandleGiven(t) /\ destroyed[t] = 0 =>
        spawner[t] # NoThread \/ t \in batch \/ threadMap[handleID[t]] = t

\* Until the instance is deleted, which drops the pointers of threads nobody joins.
JoinedInv ==
    dpc # "deleted" => \A t \in Threads :
        destroyed[t] > 0 /\ pc[t] # "failed" => pHostThread[t] \in {"joined", "detached"}

Inductive ==
    /\ TypeOK
    /\ CountInv
    /\ HandleInv
    /\ UniqueInv
    /\ MapInv
    /\ HandlesConsistent
    /\ WaitInv
    /\ JoinInv
    /\ SpawnInv
    /\ FreeInv
    /\ LeakInv
    /\ JoinedInv

-----------------------------------------------------------------------------
\* No thread exists; the map holds the main thread.
LEMMA InitInductive == Init => Inductive
<1> SUFFICES ASSUME Init PROVE Inductive
    OBVIOUS
<1> USE ExecAssumption, HandleAssumption, FlagAssumption DEF Init
<1>1. TypeOK
  <2>1. /\ 0 \in Handles
        /\ 1 \in Handles
    BY DEF Handles
  <2>2. threadMap \in [Handles -> Execs \cup {NoThread}]
    BY DEF Execs, MainHandle
  <2>3. spawner \in [Threads -> Execs \cup {NoThread}]
    OBVIOUS
  <2>4. handleID \in [Threads -> Handles]
    BY <2>1
  <2>5. /\ waitCount \in [Threads -> {-1, 0, 1}] 
        /\ destroyed \in [Threads -> 0 .. 2]
    OBVIOUS
  <2>6. /\ pc \in [Threads -> ThreadStates] 
        /\ pHostThread \in [Threads -> {"null", "joinable", "detached", "joined"}]
        /\ dpc \in DestroyStates
    BY DEF ThreadStates, DestroyStates
  <2> QED
    BY <2>1, <2>2, <2>3, <2>4, <2>5, <2>6 DEF TypeOK
<1>2. Given = {}
  BY DEF Given, HandleGiven
<1>3. CountInv
  BY <1>2, FS_EmptySet DEF CountInv
<1>4. HandleInv /\ UniqueInv /\ MapInv /\ HandlesConsistent
  BY DEF HandleInv, UniqueInv, MapInv, HandlesConsistent, HandleGiven, UsesInfo, Handles, MainHandle, Execs
<1>5. WaitInv /\ JoinInv /\ SpawnInv /\ FreeInv /\ LeakInv /\ JoinedInv
  BY DEF WaitInv, JoinInv, SpawnInv, FreeInv, LeakInv, JoinedInv, HandleGiven, Handles, Execs
<1> QED
  BY <1>1, <1>3, <1>4, <1>5 DEF Inductive

\* The threads that have a handle are finitely many, and less than all while one
\* of them is still to get its handle.
LEMMA GivenFinite ==
  ASSUME Inductive
  PROVE  /\ IsFiniteSet(Given)
         /\ Cardinality(Given) \in Nat
         /\ Cardinality(Given) <= Cardinality(Threads)
         /\ Given # Threads => Cardinality(Given) < Cardinality(Threads)
<1>1. Given \in SUBSET Threads /\ IsFiniteSet(Threads)
  BY HandleAssumption DEF Given
<1>2. /\ IsFiniteSet(Given)
      /\ Cardinality(Given) <= Cardinality(Threads)
      /\ Cardinality(Threads) = Cardinality(Given) => Threads = Given
  BY <1>1, FS_Subset
<1>3. Cardinality(Given) \in Nat /\ Cardinality(Threads) \in Nat
  BY <1>1, <1>2, FS_CardinalityType
<1> QED
  BY <1>2, <1>3

\* No handle from m_curHandleId on was ever given, and with fewer threads than
\* handles the counter has not wrapped: the loop stops at its first try.
LEMMA HandleIsFresh ==
  ASSUME Inductive, NEW t \in Threads, ~HandleGiven(t),
         NEW h \in Handles, FirstFreeHandle(h)
  PROVE  curHandleId # 0 /\ h = curHandleId
<1> USE DEF Inductive
<1>1. curHandleId # 0
  <2>1. Cardinality(Given) < Cardinality(Threads)
    BY GivenFinite DEF Given
  <2> QED
    BY <2>1, GivenFinite, FS_CardinalityType, HandleAssumption DEF CountInv
<1>2. curHandleId \in Handles /\ threadMap[curHandleId] = NoThread
  <2>1. threadMap[curHandleId] \in Execs \cup {NoThread} /\ curHandleId \in Handles
    BY DEF TypeOK
  <2> QED
    BY <1>1, <2>1 DEF MapInv, HandleInv, MainHandle, Execs, Handles
<1>3. CASE curHandleId < h
  <2>1. curHandleId \in curHandleId .. h - 1
    BY <1>2, <1>3 DEF Handles
  <2> QED
    BY <1>2, <1>3, <2>1 DEF FirstFreeHandle, Handles
<1>4. CASE h < curHandleId
  <2>1. curHandleId \in Handles \ (h .. curHandleId - 1)
    BY <1>2, <1>4 DEF Handles
  <2> QED
    BY <1>2, <1>4, <2>1 DEF FirstFreeHandle, Handles
<1> QED
  BY <1>1, <1>2, <1>3, <1>4 DEF Handles

\* The new info is nobody else's yet.
LEMMA SpawnBuildInductive ==
  ASSUME Inductive, NEW s \in Execs, NEW t \in Threads, SpawnBuild(s, t)
  PROVE  Inductive'
<1> USE ExecAssumption DEF Inductive, SpawnBuild, infoVars, mapVars, guestVars, joinVars
<1>1. TypeOK'
  BY DEF TypeOK, ThreadStates
<1>2. CountInv'
  <2>1. Given' = Given
    BY DEF TypeOK, Given, HandleGiven
  <2> QED
    BY <2>1 DEF CountInv
<1>3. HandleInv' /\ UniqueInv' /\ MapInv' /\ HandlesConsistent'
  BY DEF TypeOK, HandleInv, UniqueInv, MapInv, HandlesConsistent, HandleGiven, UsesInfo
<1>4. WaitInv' /\ JoinInv'
  BY DEF TypeOK, WaitInv, JoinInv, HandleGiven
<1>5. SpawnInv'
  BY DEF TypeOK, SpawnInv, HandleInv, Spawning, RunsGuestCode, Execs, HandleGiven
<1>6. FreeInv' /\ LeakInv' /\ JoinedInv'
  BY DEF TypeOK, FreeInv, LeakInv, JoinedInv, HandleGiven
<1> QED
  BY <1>1, <1>2, <1>3, <1>4, <1>5, <1>6

\* The handle that is erased is 0: no app thread has it.
LEMMA SpawnFailInductive ==
  ASSUME Inductive, NEW s \in Execs, NEW t \in Threads, SpawnFail(s, t)
  PROVE  Inductive'
<1> USE ExecAssumption DEF Inductive, SpawnFail, guestVars, joinVars
<1>1. pc[t] = "building" /\ ~HandleGiven(t) /\ handleID[t] = 0
  BY DEF HandleInv, HandleGiven
<1>2. threadMap' = [threadMap EXCEPT ![0] = NoThread]
  BY <1>1
<1>3. TypeOK'
  BY DEF TypeOK, ThreadStates, FreeInv
<1>4. CountInv'
  <2>1. Given' = Given
    BY DEF TypeOK, Given, HandleGiven
  <2> QED
    BY <2>1 DEF CountInv
<1>5. HandleInv' /\ UniqueInv'
  BY DEF TypeOK, HandleInv, UniqueInv, HandleGiven
<1>6. \A u \in Threads : HandleGiven(u)' => HandleGiven(u) /\ handleID[u] # 0 /\ handleID[u] \in Handles
  BY <1>1 DEF TypeOK, HandleGiven, HandleInv
<1>7. MapInv'
  BY <1>1, <1>2 DEF TypeOK, MapInv, HandleGiven, Execs
<1>8. HandlesConsistent'
  <2>1. \A u \in Threads : UsesInfo(u)' => UsesInfo(u) /\ HandleGiven(u)'
    BY DEF TypeOK, UsesInfo, HandleGiven
  <2> QED
    BY <1>2, <1>6, <2>1 DEF TypeOK, HandlesConsistent
<1>9. WaitInv' /\ JoinInv'
  BY DEF TypeOK, WaitInv, JoinInv, HandleGiven
<1>10. SpawnInv'
  BY <1>1 DEF TypeOK, SpawnInv, Execs
<1>11. FreeInv'
  <2> SUFFICES ASSUME NEW u \in Threads
               PROVE  /\ pc'[u] \in {"unborn", "building"} => destroyed'[u] = 0
                      /\ HandleGiven(u)' => destroyed'[u] <= 1
                      /\ HandleGiven(u)' /\ (spawner'[u] # NoThread \/ u \in batch' \/ threadMap'[handleID'[u]] = u)
                            => destroyed'[u] = 0
    BY DEF FreeInv
  <2>1. CASE u = t
    BY <1>1, <2>1 DEF TypeOK, HandleGiven
  <2>2. CASE u # t
    BY <1>2, <1>6, <2>2 DEF TypeOK, FreeInv, HandleGiven
  <2> QED
    BY <2>1, <2>2
<1>12. JoinedInv'
  BY DEF TypeOK, JoinedInv
<1>13. LeakInv'
  BY <1>1, <1>2, <1>6 DEF TypeOK, LeakInv, HandleGiven
<1> QED
  BY <1>3, <1>4, <1>5, <1>7, <1>8, <1>9, <1>10, <1>11, <1>12, <1>13

\* The thread gets a handle of its own and the map entry that goes with it.
LEMMA SpawnRegisterInductive ==
  ASSUME Inductive, NEW s \in Execs, NEW t \in Threads, SpawnRegister(s, t)
  PROVE  Inductive'
<1> USE ExecAssumption DEF Inductive, SpawnRegister, joinVars
<1>1. PICK h \in Handles :
        /\ FirstFreeHandle(h)
        /\ handleID' = [handleID EXCEPT ![t] = h]
        /\ threadMap' = [threadMap EXCEPT ![h] = t]
        /\ curHandleId' = NextHandle(h)
  OBVIOUS
<1>2. pc[t] = "building" /\ ~HandleGiven(t)
  BY DEF HandleGiven
<1>3. curHandleId # 0 /\ h = curHandleId
  BY <1>1, <1>2, HandleIsFresh
<1>4. h # 0 /\ h \in Nat /\ h < HandleMod /\ HandleMod \in Nat
  BY <1>3, HandleAssumption DEF Handles
<1>5. curHandleId' \in Handles /\ (curHandleId' # 0 => curHandleId' = h + 1)
  BY <1>1, <1>4, HandleAssumption DEF NextHandle, Handles
<1>6. TypeOK'
  BY <1>1, <1>5 DEF TypeOK, ThreadStates, Execs
<1>7. CountInv'
  <2>1. Given' = Given \cup {t}
    BY <1>2 DEF TypeOK, Given, HandleGiven
  <2>2. t \notin Given
    BY <1>2 DEF Given
  <2>3. Cardinality(Given') = Cardinality(Given) + 1
    BY <2>1, <2>2, GivenFinite, FS_AddElement
  <2>4. Cardinality(Given) = h - 1
    BY <1>3 DEF CountInv
  <2> QED
    BY <1>1, <1>4, <2>3, <2>4, GivenFinite DEF CountInv, NextHandle
<1>8. HandleInv'
  BY <1>1, <1>2, <1>3, <1>4, <1>5 DEF TypeOK, HandleInv, HandleGiven, Handles
<1>9. UniqueInv'
  BY <1>1, <1>2, <1>3 DEF TypeOK, UniqueInv, HandleInv, HandleGiven, Handles
<1>10. MapInv'
  BY <1>1, <1>2 DEF TypeOK, MapInv, HandleGiven
<1>11. HandlesConsistent'
  BY <1>1, <1>2 DEF TypeOK, HandlesConsistent, FirstFreeHandle, UsesInfo, Execs
<1>12. WaitInv' /\ JoinInv'
  BY DEF TypeOK, WaitInv, JoinInv, HandleInv, HandleGiven
<1>13. SpawnInv'
  BY DEF TypeOK, SpawnInv
<1>14. FreeInv' /\ JoinedInv'
  BY <1>1, <1>2 DEF TypeOK, FreeInv, JoinedInv, FirstFreeHandle, HandleGiven
<1>15. LeakInv'
  <2> SUFFICES ASSUME NEW u \in Threads, HandleGiven(u)', destroyed[u] = 0
               PROVE  spawner[u] # NoThread \/ u \in batch \/ threadMap'[handleID'[u]] = u
    BY DEF LeakInv
  <2>1. CASE u = t
    BY <1>1, <2>1 DEF TypeOK
  <2>2. CASE u # t
    <3>1. HandleGiven(u) /\ handleID'[u] = handleID[u] /\ handleID[u] \in Handles
      BY <1>1, <2>2 DEF TypeOK, HandleGiven
    <3>2. threadMap[handleID[u]] = u => handleID[u] # h
      BY <1>1 DEF FirstFreeHandle, Execs
    <3> QED
      BY <1>1, <3>1, <3>2 DEF TypeOK, LeakInv
  <2> QED
    BY <2>1, <2>2
<1> QED
  BY <1>6, <1>7, <1>8, <1>9, <1>10, <1>11, <1>12, <1>13, <1>14, <1>15

\* SpawnStartHostThread preserves the invariant.
LEMMA SpawnStartHostThreadInductive ==
  ASSUME Inductive, NEW s \in Execs, NEW t \in Threads, SpawnStartHostThread(s, t)
  PROVE  Inductive'
<1> USE ExecAssumption DEF Inductive, SpawnStartHostThread, infoVars, mapVars, guestVars, joinVars
<1>1. TypeOK'
  BY DEF TypeOK, ThreadStates
<1>2. CountInv'
  <2>1. Given' = Given
    BY DEF TypeOK, Given, HandleGiven
  <2> QED
    BY <2>1 DEF CountInv
<1>3. HandleInv' /\ UniqueInv' /\ MapInv' /\ HandlesConsistent'
  BY DEF TypeOK, HandleInv, UniqueInv, MapInv, HandlesConsistent, HandleGiven, UsesInfo
<1>4. WaitInv' /\ JoinInv'
  BY DEF TypeOK, WaitInv, JoinInv, HandleGiven
<1>5. SpawnInv'
  BY DEF TypeOK, SpawnInv
<1>6. FreeInv' /\ LeakInv' /\ JoinedInv'
  BY DEF TypeOK, FreeInv, LeakInv, JoinedInv, HandleGiven
<1> QED
  BY <1>1, <1>2, <1>3, <1>4, <1>5, <1>6

\* SpawnAssign preserves the invariant.
LEMMA SpawnAssignInductive ==
  ASSUME Inductive, NEW s \in Execs, NEW t \in Threads, SpawnAssign(s, t)
  PROVE  Inductive'
<1> USE ExecAssumption DEF Inductive, SpawnAssign, mapVars, guestVars, joinVars
<1>1. HandleGiven(t)
  BY DEF TypeOK, HandleGiven, SpawnInv, HandleInv, ThreadStates
<1>2. TypeOK'
  BY DEF TypeOK
<1>3. CountInv'
  <2>1. Given' = Given
    BY DEF Given, HandleGiven
  <2> QED
    BY <2>1 DEF CountInv
<1>4. HandleInv' /\ UniqueInv' /\ MapInv' /\ HandlesConsistent'
  BY <1>1 DEF TypeOK, HandleInv, UniqueInv, MapInv, HandlesConsistent, HandleGiven, UsesInfo
<1>5. WaitInv' /\ JoinInv'
  BY DEF TypeOK, WaitInv, JoinInv, HandleGiven
<1>6. SpawnInv'
  BY DEF TypeOK, SpawnInv
<1>7. FreeInv' /\ LeakInv' /\ JoinedInv'
  BY DEF TypeOK, FreeInv, LeakInv, JoinedInv, HandleGiven
<1> QED
  BY <1>2, <1>3, <1>4, <1>5, <1>6, <1>7

\* The info is freed only if the joiner has erased it and dropped its snapshot.
LEMMA SpawnReturnInductive ==
  ASSUME Inductive, NEW s \in Execs, NEW t \in Threads, SpawnReturn(s, t)
  PROVE  Inductive'
<1> USE ExecAssumption DEF Inductive, SpawnReturn, mapVars, guestVars, joinVars
<1>1. spawner[t] # NoThread /\ HandleGiven(t) /\ handleID[t] \in Handles
  BY DEF HandleInv, TypeOK
<1>2. destroyed[t] = 0
  BY <1>1 DEF FreeInv
<1>3. \A u \in Threads :
        destroyed'[u] = IF u = t /\ ~InMap(t) /\ t \notin batch THEN 1 ELSE destroyed[u]
  BY <1>2 DEF Release, TypeOK
<1>4. ~InMap(t) => threadMap[handleID[t]] # t
  BY <1>1 DEF InMap
<1>5. TypeOK'
  <2>1. destroyed' \in [Threads -> 0 .. 2]
    BY <1>3 DEF TypeOK, Release
  <2> QED
    BY <2>1 DEF TypeOK
<1>6. CountInv'
  <2>1. Given' = Given
    BY DEF Given, HandleGiven
  <2> QED
    BY <2>1 DEF CountInv
<1>7. HandleInv' /\ UniqueInv' /\ MapInv' /\ HandlesConsistent'
  BY DEF HandleInv, UniqueInv, MapInv, HandlesConsistent, HandleGiven, UsesInfo
<1>8. WaitInv' /\ JoinInv'
  BY DEF WaitInv, JoinInv, HandleGiven
<1>9. SpawnInv'
  BY <1>1 DEF TypeOK, SpawnInv, Execs, HandleGiven, HandleInv
<1>10. FreeInv'
  BY <1>1, <1>3, <1>4 DEF TypeOK, FreeInv, HandleGiven
<1>12. LeakInv'
  <2> SUFFICES ASSUME NEW u \in Threads, HandleGiven(u), destroyed'[u] = 0
               PROVE  spawner'[u] # NoThread \/ u \in batch \/ threadMap[handleID[u]] = u
    BY DEF LeakInv, HandleGiven
  <2>1. CASE u = t
    <3>1. InMap(t) \/ t \in batch
      BY <1>3, <2>1
    <3>2. InMap(t) => threadMap[handleID[t]] = t
      BY DEF InMap, MapInv
    <3> QED
      BY <2>1, <3>1, <3>2
  <2>2. CASE u # t
    BY <1>3, <2>2 DEF TypeOK, LeakInv
  <2> QED
    BY <2>1, <2>2
<1>11. JoinedInv'
  <2>1. dpc # "deleted" /\ ~InMap(t) /\ t \notin batch
           => pHostThread[t] \in {"joined", "detached"}
    <3>1. dpc # "deleted" /\ ~InMap(t) => pc[t] \in {"exited", "done"}
      BY <1>1, <1>4 DEF HandlesConsistent, UsesInfo, HandleGiven, TypeOK, ThreadStates
    <3>2. t \notin batch => ~(dpc \in {"waiting", "hostjoin"} /\ target = t)
      BY DEF JoinInv, TypeOK
    <3> QED
      BY <3>1, <3>2 DEF WaitInv
  <2> QED
    BY <1>3, <2>1 DEF TypeOK, JoinedInv
<1> QED
  BY <1>5, <1>6, <1>7, <1>8, <1>9, <1>10, <1>11, <1>12

\* GuestReturn preserves the invariant.
LEMMA GuestReturnInductive ==
  ASSUME Inductive, NEW t \in Threads, GuestReturn(t)
  PROVE  Inductive'
<1> USE ExecAssumption DEF Inductive, GuestReturn, infoVars, mapVars, guestVars, joinVars
<1>1. TypeOK'
  BY DEF TypeOK, ThreadStates
<1>2. CountInv'
  <2>1. Given' = Given
    BY DEF TypeOK, Given, HandleGiven
  <2> QED
    BY <2>1 DEF CountInv
<1>3. HandleInv' /\ UniqueInv' /\ MapInv' /\ HandlesConsistent'
  BY DEF TypeOK, HandleInv, UniqueInv, MapInv, HandlesConsistent, HandleGiven, UsesInfo
<1>4. WaitInv' /\ JoinInv'
  BY DEF TypeOK, WaitInv, JoinInv, HandleGiven
<1>5. SpawnInv'
  BY DEF TypeOK, SpawnInv, Spawning
<1>6. FreeInv' /\ LeakInv' /\ JoinedInv'
  BY DEF TypeOK, FreeInv, LeakInv, JoinedInv, HandleGiven
<1> QED
  BY <1>1, <1>2, <1>3, <1>4, <1>5, <1>6

\* GuestTrap preserves the invariant.
LEMMA GuestTrapInductive ==
  ASSUME Inductive, NEW t \in Threads, GuestTrap(t)
  PROVE  Inductive'
<1> USE ExecAssumption DEF Inductive, GuestTrap, infoVars, mapVars, guestVars, joinVars
<1>1. TypeOK'
  BY DEF TypeOK, ThreadStates, Execs
<1>2. CountInv'
  <2>1. Given' = Given
    BY DEF TypeOK, Given, HandleGiven
  <2> QED
    BY <2>1 DEF CountInv
<1>3. HandleInv' /\ UniqueInv' /\ MapInv' /\ HandlesConsistent'
  BY DEF TypeOK, HandleInv, UniqueInv, MapInv, HandlesConsistent, HandleGiven, UsesInfo
<1>4. WaitInv' /\ JoinInv'
  BY DEF TypeOK, WaitInv, JoinInv, HandleGiven
<1>5. SpawnInv'
  BY DEF TypeOK, SpawnInv, Spawning
<1>6. FreeInv' /\ LeakInv' /\ JoinedInv'
  BY DEF TypeOK, FreeInv, LeakInv, JoinedInv, HandleGiven
<1> QED
  BY <1>1, <1>2, <1>3, <1>4, <1>5, <1>6

\* AppThreadExit preserves the invariant.
LEMMA AppThreadExitInductive ==
  ASSUME Inductive, NEW t \in Threads, AppThreadExit(t)
  PROVE  Inductive'
<1> USE ExecAssumption DEF Inductive, AppThreadExit, CancelAppThread, infoVars, mapVars, guestVars, joinVars
<1>1. TypeOK'
  BY DEF TypeOK, ThreadStates, Spread, Execs
<1>2. CountInv'
  <2>1. Given' = Given
    BY DEF TypeOK, Given, HandleGiven
  <2> QED
    BY <2>1 DEF CountInv
<1>3. HandleInv' /\ UniqueInv' /\ MapInv' /\ HandlesConsistent'
  BY DEF TypeOK, HandleInv, UniqueInv, MapInv, HandlesConsistent, HandleGiven, UsesInfo
<1>4. WaitInv' /\ JoinInv'
  BY DEF TypeOK, WaitInv, JoinInv, HandleGiven
<1>5. SpawnInv'
  BY DEF TypeOK, SpawnInv
<1>6. FreeInv' /\ LeakInv' /\ JoinedInv'
  BY DEF TypeOK, FreeInv, LeakInv, JoinedInv, HandleGiven
<1> QED
  BY <1>1, <1>2, <1>3, <1>4, <1>5, <1>6

\* waitCount 0 excludes a joiner that waits, ExitLockFree one in join().
LEMMA ExitDetachInductive ==
  ASSUME Inductive, NEW t \in Threads, ExitDetach(t)
  PROVE  Inductive'
<1> USE ExecAssumption DEF Inductive, ExitDetach, Detach, infoVars, mapVars, guestVars, joinVars
<1>1. TypeOK'
  BY DEF TypeOK, ThreadStates
<1>2. CountInv'
  <2>1. Given' = Given
    BY DEF TypeOK, Given, HandleGiven
  <2> QED
    BY <2>1 DEF CountInv
<1>3. HandleInv' /\ UniqueInv' /\ MapInv' /\ HandlesConsistent'
  BY DEF TypeOK, HandleInv, UniqueInv, MapInv, HandlesConsistent, HandleGiven, UsesInfo
<1>4. WaitInv' /\ JoinInv'
  BY DEF TypeOK, WaitInv, JoinInv, HandleGiven, HandleInv, Unawaited, ExitLockFree
<1>5. SpawnInv'
  BY DEF TypeOK, SpawnInv
<1>6. FreeInv' /\ LeakInv' /\ JoinedInv'
  BY DEF TypeOK, FreeInv, LeakInv, JoinedInv, HandleGiven
<1> QED
  BY <1>1, <1>2, <1>3, <1>4, <1>5, <1>6

\* ExitDetachNull preserves the invariant.
LEMMA ExitDetachNullInductive ==
  ASSUME Inductive, NEW t \in Threads, ExitDetachNull(t)
  PROVE  Inductive'
<1> USE ExecAssumption DEF Inductive, ExitDetachNull, infoVars, mapVars, guestVars, joinVars
<1>1. TypeOK'
  BY DEF TypeOK
<1>2. CountInv'
  <2>1. Given' = Given
    BY DEF TypeOK, Given, HandleGiven
  <2> QED
    BY <2>1 DEF CountInv
<1>3. HandleInv' /\ UniqueInv' /\ MapInv' /\ HandlesConsistent'
  BY DEF TypeOK, HandleInv, UniqueInv, MapInv, HandlesConsistent, HandleGiven, UsesInfo
<1>4. WaitInv' /\ JoinInv'
  BY DEF TypeOK, WaitInv, JoinInv, HandleGiven
<1>5. SpawnInv'
  BY DEF TypeOK, SpawnInv
<1>6. FreeInv' /\ LeakInv' /\ JoinedInv'
  BY DEF TypeOK, FreeInv, LeakInv, JoinedInv, HandleGiven
<1> QED
  BY <1>1, <1>2, <1>3, <1>4, <1>5, <1>6

\* waitCount is 1, so t is the one the joiner waits for.
LEMMA ExitNotifyInductive ==
  ASSUME Inductive, NEW t \in Threads, ExitNotify(t)
  PROVE  Inductive'
<1> USE ExecAssumption DEF Inductive, ExitNotify, infoVars, mapVars, guestVars, joinVars
<1>1. TypeOK'
  BY DEF TypeOK, ThreadStates
<1>2. CountInv'
  <2>1. Given' = Given
    BY DEF TypeOK, Given, HandleGiven
  <2> QED
    BY <2>1 DEF CountInv
<1>3. HandleInv' /\ UniqueInv' /\ MapInv' /\ HandlesConsistent'
  BY DEF TypeOK, HandleInv, UniqueInv, MapInv, HandlesConsistent, HandleGiven, UsesInfo
<1>4. WaitInv' /\ JoinInv'
  BY DEF TypeOK, WaitInv, JoinInv, HandleGiven, HandleInv, Unawaited, ExitLockFree
<1>5. SpawnInv'
  BY DEF TypeOK, SpawnInv
<1>6. FreeInv' /\ LeakInv' /\ JoinedInv'
  BY DEF TypeOK, FreeInv, LeakInv, JoinedInv, HandleGiven
<1> QED
  BY <1>1, <1>2, <1>3, <1>4, <1>5, <1>6

\* HostThreadEnd preserves the invariant.
LEMMA HostThreadEndInductive ==
  ASSUME Inductive, NEW t \in Threads, HostThreadEnd(t)
  PROVE  Inductive'
<1> USE ExecAssumption DEF Inductive, HostThreadEnd, infoVars, mapVars, guestVars, joinVars
<1>1. TypeOK'
  BY DEF TypeOK, ThreadStates
<1>2. CountInv'
  <2>1. Given' = Given
    BY DEF TypeOK, Given, HandleGiven
  <2> QED
    BY <2>1 DEF CountInv
<1>3. HandleInv' /\ UniqueInv' /\ MapInv' /\ HandlesConsistent'
  BY DEF TypeOK, HandleInv, UniqueInv, MapInv, HandlesConsistent, HandleGiven, UsesInfo
<1>4. WaitInv' /\ JoinInv'
  BY DEF TypeOK, WaitInv, JoinInv, HandleGiven
<1>5. SpawnInv'
  BY DEF TypeOK, SpawnInv
<1>6. FreeInv' /\ LeakInv' /\ JoinedInv'
  BY DEF TypeOK, FreeInv, LeakInv, JoinedInv, HandleGiven
<1> QED
  BY <1>1, <1>2, <1>3, <1>4, <1>5, <1>6

\* DestroyBegin preserves the invariant.
LEMMA DestroyBeginInductive ==
  ASSUME Inductive, DestroyBegin
  PROVE  Inductive'
<1> USE ExecAssumption DEF Inductive, DestroyBegin, ExecFuncLockFree, infoVars, mapVars, guestVars, joinVars
<1>1. TypeOK'
  BY DEF TypeOK, DestroyStates
<1>2. CountInv'
  <2>1. Given' = Given
    BY DEF TypeOK, Given, HandleGiven
  <2> QED
    BY <2>1 DEF CountInv
<1>3. HandleInv' /\ UniqueInv' /\ MapInv' /\ HandlesConsistent'
  BY DEF TypeOK, HandleInv, UniqueInv, MapInv, HandlesConsistent, HandleGiven, UsesInfo
<1>4. WaitInv' /\ JoinInv'
  BY DEF TypeOK, WaitInv, JoinInv, HandleGiven
<1>5. SpawnInv'
  BY DEF TypeOK, SpawnInv, Spawning, Execs
<1>6. FreeInv' /\ LeakInv' /\ JoinedInv'
  BY DEF TypeOK, FreeInv, LeakInv, JoinedInv, HandleGiven
<1> QED
  BY <1>1, <1>2, <1>3, <1>4, <1>5, <1>6

\* The snapshot holds threads that are in the map, so it frees nothing.
LEMMA CleanupSnapshotInductive ==
  ASSUME Inductive, CleanupSnapshot
  PROVE  Inductive'
<1> USE ExecAssumption DEF Inductive, CleanupSnapshot, infoVars, mapVars, guestVars
<1>1. AllThreadInfo \in SUBSET Threads
  BY DEF AllThreadInfo
<1>2. \A t \in AllThreadInfo : HandleGiven(t) /\ threadMap[handleID[t]] = t
  BY DEF AllThreadInfo, MapInv
<1>3. TypeOK'
  BY <1>1 DEF TypeOK, DestroyStates
<1>4. CountInv'
  <2>1. Given' = Given
    BY DEF Given, HandleGiven
  <2> QED
    BY <2>1 DEF CountInv
<1>5. HandleInv' /\ UniqueInv' /\ MapInv' /\ HandlesConsistent'
  BY DEF HandleInv, UniqueInv, MapInv, HandlesConsistent, HandleGiven, UsesInfo
<1>6. WaitInv' /\ JoinInv'
  BY <1>2 DEF WaitInv, JoinInv, HandleGiven
<1>7. SpawnInv'
  BY DEF SpawnInv
<1>8. FreeInv' /\ JoinedInv'
  BY <1>1, <1>2 DEF FreeInv, JoinedInv, HandleGiven
<1>9. LeakInv'
  <2>1. batch = {}
    BY DEF JoinInv
  <2> QED
    BY <2>1 DEF LeakInv, HandleGiven
<1> QED
  BY <1>9, <1>3, <1>4, <1>5, <1>6, <1>7, <1>8

\* CleanupCancel preserves the invariant.
LEMMA CleanupCancelInductive ==
  ASSUME Inductive, NEW t \in Threads, CleanupCancel(t)
  PROVE  Inductive'
<1> USE ExecAssumption DEF Inductive, CleanupCancel, CancelAppThread, infoVars, mapVars, guestVars, joinVars
<1>1. TypeOK'
  BY DEF TypeOK, Execs, DestroyStates
<1>2. CountInv'
  <2>1. Given' = Given
    BY DEF TypeOK, Given, HandleGiven
  <2> QED
    BY <2>1 DEF CountInv
<1>3. HandleInv' /\ UniqueInv' /\ MapInv' /\ HandlesConsistent'
  BY DEF TypeOK, HandleInv, UniqueInv, MapInv, HandlesConsistent, HandleGiven, UsesInfo
<1>4. WaitInv' /\ JoinInv'
  BY DEF TypeOK, WaitInv, JoinInv, HandleGiven
<1>5. SpawnInv'
  BY DEF TypeOK, SpawnInv
<1>6. FreeInv' /\ LeakInv' /\ JoinedInv'
  BY DEF TypeOK, FreeInv, LeakInv, JoinedInv, HandleGiven
<1> QED
  BY <1>1, <1>2, <1>3, <1>4, <1>5, <1>6

\* Under exitLock waitCount tells a thread that is over from one to wait for.
LEMMA JoinEnterInductive ==
  ASSUME Inductive, NEW t \in Threads, JoinEnter(t)
  PROVE  Inductive'
<1> USE ExecAssumption DEF Inductive, JoinEnter, infoVars, mapVars, guestVars
<1>1. HandleGiven(t) /\ (waitCount[t] = -1 \/ waitCount[t] = 0)
  BY DEF TypeOK, WaitInv, JoinInv
<1>2. waitCount[t] = 0 => UsesInfo(t)
  BY <1>1 DEF WaitInv, HandleGiven, UsesInfo, TypeOK, ThreadStates
<1>3. \/ waitCount[t] = -1 /\ dpc' = "erase" /\ UNCHANGED <<waitCount, signaled>>
      \/ /\ waitCount[t] = 0 /\ dpc' = "waiting" /\ signaled' = FALSE
         /\ waitCount' = [waitCount EXCEPT ![t] = 1]
  BY <1>1 DEF ExitedOrDetached
<1>4. TypeOK'
  BY <1>3 DEF TypeOK, DestroyStates
<1>5. CountInv'
  <2>1. Given' = Given
    BY DEF Given, HandleGiven
  <2> QED
    BY <2>1 DEF CountInv
<1>6. HandleInv' /\ UniqueInv' /\ MapInv' /\ HandlesConsistent'
  BY <1>1, <1>3 DEF TypeOK, HandleInv, UniqueInv, MapInv, HandlesConsistent, HandleGiven, UsesInfo
<1>7. WaitInv'
  BY <1>2, <1>3 DEF TypeOK, WaitInv, UsesInfo
<1>8. JoinInv'
  BY <1>2, <1>3 DEF TypeOK, JoinInv, HandleGiven, UsesInfo
<1>9. SpawnInv'
  BY <1>3 DEF SpawnInv
<1>10. FreeInv' /\ LeakInv' /\ JoinedInv'
  BY DEF FreeInv, LeakInv, JoinedInv, HandleGiven
<1> QED
  BY <1>4, <1>5, <1>6, <1>7, <1>8, <1>9, <1>10

\* JoinWake preserves the invariant.
LEMMA JoinWakeInductive ==
  ASSUME Inductive, JoinWake
  PROVE  Inductive'
<1> USE ExecAssumption DEF Inductive, JoinWake, WaitReturns, infoVars, mapVars, guestVars
<1>1. target \in Threads /\ waitCount[target] = 1
  BY DEF TypeOK, JoinInv, WaitInv
<1>2. waitCount' = [waitCount EXCEPT ![target] = 0]
  BY <1>1 DEF TypeOK
<1>3. TypeOK'
  BY <1>2 DEF TypeOK, DestroyStates
<1>4. CountInv'
  <2>1. Given' = Given
    BY DEF Given, HandleGiven
  <2> QED
    BY <2>1 DEF CountInv
<1>5. HandleInv' /\ UniqueInv' /\ MapInv' /\ HandlesConsistent'
  BY <1>2 DEF TypeOK, HandleInv, UniqueInv, MapInv, HandlesConsistent, HandleGiven, UsesInfo
<1>6. WaitInv' /\ JoinInv'
  BY <1>1, <1>2 DEF TypeOK, WaitInv, JoinInv, HandleGiven
<1>7. SpawnInv'
  BY DEF SpawnInv
<1>8. FreeInv' /\ LeakInv' /\ JoinedInv'
  BY DEF FreeInv, LeakInv, JoinedInv, HandleGiven
<1> QED
  BY <1>3, <1>4, <1>5, <1>6, <1>7, <1>8

\* JoinWakeNull preserves the invariant.
LEMMA JoinWakeNullInductive ==
  ASSUME Inductive, JoinWakeNull
  PROVE  Inductive'
<1> USE ExecAssumption DEF Inductive, JoinWakeNull, WaitReturns, infoVars, mapVars, guestVars, joinVars
<1>1. TypeOK'
  BY DEF TypeOK
<1>2. CountInv'
  <2>1. Given' = Given
    BY DEF TypeOK, Given, HandleGiven
  <2> QED
    BY <2>1 DEF CountInv
<1>3. HandleInv' /\ UniqueInv' /\ MapInv' /\ HandlesConsistent'
  BY DEF TypeOK, HandleInv, UniqueInv, MapInv, HandlesConsistent, HandleGiven, UsesInfo
<1>4. WaitInv' /\ JoinInv'
  BY DEF TypeOK, WaitInv, JoinInv, HandleGiven
<1>5. SpawnInv'
  BY DEF TypeOK, SpawnInv
<1>6. FreeInv' /\ LeakInv' /\ JoinedInv'
  BY DEF TypeOK, FreeInv, LeakInv, JoinedInv, HandleGiven
<1> QED
  BY <1>1, <1>2, <1>3, <1>4, <1>5, <1>6

\* HostJoined preserves the invariant.
LEMMA HostJoinedInductive ==
  ASSUME Inductive, HostJoined
  PROVE  Inductive'
<1> USE ExecAssumption DEF Inductive, HostJoined, JoinReturns, infoVars, mapVars, guestVars, joinVars
<1>1. TypeOK'
  BY DEF TypeOK, DestroyStates
<1>2. CountInv'
  <2>1. Given' = Given
    BY DEF TypeOK, Given, HandleGiven
  <2> QED
    BY <2>1 DEF CountInv
<1>3. HandleInv' /\ UniqueInv' /\ MapInv' /\ HandlesConsistent'
  BY DEF TypeOK, HandleInv, UniqueInv, MapInv, HandlesConsistent, HandleGiven, UsesInfo
<1>4. WaitInv' /\ JoinInv'
  BY DEF TypeOK, WaitInv, JoinInv, HandleGiven, HandleInv
<1>5. SpawnInv'
  BY DEF TypeOK, SpawnInv
<1>6. FreeInv' /\ LeakInv' /\ JoinedInv'
  BY DEF TypeOK, FreeInv, LeakInv, JoinedInv, HandleGiven
<1> QED
  BY <1>1, <1>2, <1>3, <1>4, <1>5, <1>6

\* The joined thread has ended; what the last round frees has ended too.
LEMMA JoinEraseInductive ==
  ASSUME Inductive, JoinErase
  PROVE  Inductive'
<1> USE ExecAssumption DEF Inductive, JoinErase, NextRound, guestVars
<1>1. /\ target \in Threads /\ target \in batch
      /\ HandleGiven(target) /\ handleID[target] \in Handles
      /\ pc[target] \in {"exited", "done"}
  BY DEF TypeOK, JoinInv, WaitInv
<1>2. threadMap' \in [Handles -> Execs \cup {NoThread}]
  BY <1>1 DEF TypeOK
<1>3. \A h \in Handles : threadMap'[h] = IF h = handleID[target] THEN NoThread ELSE threadMap[h]
  BY <1>1 DEF TypeOK
<1>4. \A t \in Threads : destroyed'[t] = destroyed[t] \/
         /\ destroyed'[t] = 1
         /\ destroyed[t] = 0
         /\ HandleGiven(t)
         /\ t \in batch
         /\ spawner[t] = NoThread
         /\ batch' = {}
         /\ \A h \in Handles : threadMap'[h] # t
  <2>1. CASE toJoin = {target}
    <3> SUFFICES ASSUME NEW t \in Threads, t \in Unreferenced(batch, threadMap')
                 PROVE  /\ destroyed[t] = 0
                        /\ HandleGiven(t)
      BY <2>1 DEF Release, Unreferenced, TypeOK
    <3> QED
      BY DEF Unreferenced, JoinInv, FreeInv
  <2>2. CASE toJoin # {target}
    BY <2>2
  <2> QED
    BY <2>1, <2>2
<1>5. TypeOK'
  <2>1. destroyed' \in [Threads -> 0 .. 2]
    <3>1. destroyed' = [t \in Threads |-> destroyed'[t]]
      BY DEF Release, TypeOK
    <3> QED
      BY <1>4, <3>1 DEF TypeOK
  <2> QED
    BY <1>2, <2>1 DEF TypeOK, JoinInv, DestroyStates
<1>6. CountInv'
  <2>1. Given' = Given
    BY DEF Given, HandleGiven
  <2> QED
    BY <2>1 DEF CountInv
<1>7. HandleInv' /\ UniqueInv'
  BY DEF HandleInv, UniqueInv, HandleGiven
<1>8. MapInv'
  BY <1>3 DEF MapInv, HandleGiven, Execs
<1>9. HandlesConsistent'
  BY <1>1, <1>3 DEF HandlesConsistent, UniqueInv, HandleGiven, UsesInfo, TypeOK
<1>10. WaitInv' /\ JoinInv'
  BY <1>1 DEF TypeOK, WaitInv, JoinInv, HandleGiven
<1>11. SpawnInv'
  BY DEF SpawnInv
<1>12. FreeInv'
  <2>1. \A t \in Threads : HandleGiven(t) => handleID[t] \in Handles
    BY DEF TypeOK
  <2>2. \A t \in Threads : threadMap'[handleID[t]] = t => threadMap[handleID[t]] = t
    BY <1>3 DEF TypeOK, Execs
  <2>3. batch' \in SUBSET batch
    OBVIOUS
  <2> SUFFICES ASSUME NEW t \in Threads
               PROVE  /\ pc[t] \in {"unborn", "building"} => destroyed'[t] = 0
                      /\ HandleGiven(t) => destroyed'[t] <= 1
                      /\ HandleGiven(t)
                            /\ (spawner[t] # NoThread \/ t \in batch' \/ threadMap'[handleID[t]] = t)
                            => destroyed'[t] = 0
    BY DEF FreeInv, HandleGiven
  <2>4. CASE destroyed'[t] = destroyed[t]
    BY <2>2, <2>3, <2>4 DEF FreeInv
  <2>5. CASE destroyed'[t] # destroyed[t]
    BY <1>4, <2>1, <2>5 DEF HandleGiven
  <2> QED
    BY <2>4, <2>5
<1>13. JoinedInv'
  <2>1. ASSUME NEW t \in Threads, HandleGiven(t), \A h \in Handles : threadMap'[h] # t
        PROVE  pHostThread[t] \in {"joined", "detached"}
    <3>1. pc[t] \in {"exited", "done"}
      BY <1>9, <2>1 DEF HandlesConsistent, UsesInfo, HandleGiven, TypeOK, ThreadStates
    <3> QED
      BY <3>1 DEF WaitInv
  <2> QED
    BY <1>4, <2>1 DEF JoinedInv
<1>14. LeakInv'
  <2> SUFFICES ASSUME NEW t \in Threads, HandleGiven(t), destroyed'[t] = 0,
                      spawner[t] = NoThread, t \notin batch'
               PROVE  threadMap'[handleID[t]] = t
    BY DEF LeakInv, HandleGiven
  <2>1. handleID[t] \in Handles /\ destroyed[t] = 0
    BY <1>4 DEF TypeOK
  <2>2. t \in batch \/ threadMap[handleID[t]] = t
    BY <2>1 DEF LeakInv
  <2>3. t \in batch => toJoin = {target}
    OBVIOUS
  <2>4. ASSUME t \in batch
        PROVE  \E h \in Handles : threadMap'[h] = t
    BY <2>1, <2>3, <2>4 DEF Release, Unreferenced, TypeOK
  <2>5. CASE t \in batch
    <3>1. PICK h \in Handles : threadMap'[h] = t
      BY <2>4, <2>5
    <3>2. threadMap[h] = t /\ handleID[t] = h
      BY <1>3, <3>1, ExecAssumption DEF MapInv, TypeOK, Execs
    <3> QED
      BY <3>1, <3>2
  <2>6. CASE t \notin batch
    <3>1. t # target /\ handleID[t] # handleID[target]
      BY <1>1, <2>6 DEF UniqueInv
    <3> QED
      BY <1>3, <2>1, <2>2, <2>6, <3>1
  <2> QED
    BY <2>5, <2>6
<1> QED
  BY <1>5, <1>6, <1>7, <1>8, <1>9, <1>10, <1>11, <1>12, <1>13, <1>14

\* ExitMain preserves the invariant.
LEMMA ExitMainInductive ==
  ASSUME Inductive, ExitMain
  PROVE  Inductive'
<1> USE ExecAssumption DEF Inductive, ExitMain, infoVars, mapVars, guestVars, joinVars
<1>1. TypeOK'
  BY DEF TypeOK, DestroyStates, Execs
<1>2. CountInv'
  <2>1. Given' = Given
    BY DEF TypeOK, Given, HandleGiven
  <2> QED
    BY <2>1 DEF CountInv
<1>3. HandleInv' /\ UniqueInv' /\ MapInv' /\ HandlesConsistent'
  BY DEF TypeOK, HandleInv, UniqueInv, MapInv, HandlesConsistent, HandleGiven, UsesInfo
<1>4. WaitInv' /\ JoinInv'
  BY DEF TypeOK, WaitInv, JoinInv, HandleGiven
<1>5. SpawnInv'
  BY DEF TypeOK, SpawnInv
<1>6. FreeInv' /\ LeakInv' /\ JoinedInv'
  BY DEF TypeOK, FreeInv, LeakInv, JoinedInv, HandleGiven
<1> QED
  BY <1>1, <1>2, <1>3, <1>4, <1>5, <1>6

\* Deinstantiate preserves the invariant.
LEMMA DeinstantiateInductive ==
  ASSUME Inductive, Deinstantiate
  PROVE  Inductive'
<1> USE ExecAssumption DEF Inductive, Deinstantiate, infoVars, mapVars, guestVars, joinVars
<1>1. TypeOK'
  BY DEF TypeOK, DestroyStates
<1>2. CountInv'
  <2>1. Given' = Given
    BY DEF TypeOK, Given, HandleGiven
  <2> QED
    BY <2>1 DEF CountInv
<1>3. HandleInv' /\ UniqueInv' /\ MapInv' /\ HandlesConsistent'
  BY DEF TypeOK, HandleInv, UniqueInv, MapInv, HandlesConsistent, HandleGiven, UsesInfo
<1>4. WaitInv' /\ JoinInv'
  BY DEF TypeOK, WaitInv, JoinInv, HandleGiven
<1>5. SpawnInv'
  BY DEF TypeOK, SpawnInv, Spawning, Execs
<1>6. FreeInv' /\ LeakInv' /\ JoinedInv'
  BY DEF TypeOK, FreeInv, LeakInv, JoinedInv, HandleGiven
<1> QED
  BY <1>1, <1>2, <1>3, <1>4, <1>5, <1>6

\* The map goes, and with it every info that no spawner holds.
LEMMA DeleteInstanceInductive ==
  ASSUME Inductive, DeleteInstance
  PROVE  Inductive'
<1> USE ExecAssumption DEF Inductive, guestVars
<1>1. /\ dpc = "dead" /\ dpc' = "deleted" /\ batch = {}
      /\ threadMap' = [h \in Handles |-> NoThread]
      /\ UNCHANGED <<pc, spawner, handleID, pHostThread, waitCount, curHandleId, stacks,
                     suspended, exception, batch, toCancel, toJoin, target, signaled>>
  <2>1. dpc = "dead"
    BY DEF DeleteInstance
  <2>2. batch = {}
    BY <2>1 DEF JoinInv
  <2> QED
    BY <2>1, <2>2 DEF DeleteInstance
<1>2. \A t \in Threads : destroyed'[t] =
        IF spawner[t] = NoThread /\ InMap(t) THEN destroyed[t] + 1 ELSE destroyed[t]
  BY <1>1 DEF DeleteInstance, Release, Unreferenced, Execs
<1>3. \A t \in Threads : InMap(t) =>
        HandleGiven(t) /\ threadMap[handleID[t]] = t /\ destroyed[t] = 0
  BY DEF InMap, MapInv, FreeInv
<1>4. TypeOK'
  <2>1. destroyed' \in [Threads -> 0 .. 2]
    <3>1. destroyed' = [t \in Threads |-> destroyed'[t]]
      BY DEF DeleteInstance, Release, TypeOK
    <3>2. \A t \in Threads : destroyed'[t] \in 0 .. 2
      BY <1>2, <1>3 DEF TypeOK
    <3> QED
      BY <3>1, <3>2
  <2>2. crashed' \in BOOLEAN
    BY DEF DeleteInstance
  <2> QED
    BY <1>1, <2>1, <2>2 DEF TypeOK, DestroyStates
<1>5. CountInv'
  <2>1. Given' = Given
    BY <1>1 DEF Given, HandleGiven
  <2> QED
    BY <1>1, <2>1 DEF CountInv
<1>6. HandleInv' /\ UniqueInv' /\ MapInv' /\ HandlesConsistent'
  BY <1>1 DEF HandleInv, UniqueInv, MapInv, HandlesConsistent, HandleGiven, Execs
<1>7. WaitInv' /\ JoinInv'
  BY <1>1 DEF WaitInv, JoinInv, HandleGiven
<1>8. SpawnInv'
  BY <1>1 DEF SpawnInv
<1>9. FreeInv' /\ LeakInv'
  <2> SUFFICES ASSUME NEW t \in Threads
               PROVE  /\ pc[t] \in {"unborn", "building"} => destroyed'[t] = 0
                      /\ HandleGiven(t) => destroyed'[t] <= 1
                      /\ HandleGiven(t) => (destroyed'[t] = 0 <=> spawner[t] # NoThread)
    <3>1. \A t \in Threads : HandleGiven(t) => handleID[t] \in Handles
      BY DEF TypeOK
    <3>2. \A t \in Threads : HandleGiven(t) => threadMap'[handleID[t]] # t
      BY <1>1, <3>1 DEF Execs
    <3> QED
      BY <1>1, <3>2 DEF FreeInv, LeakInv, HandleGiven
  <2>1. handleID[t] \in Handles /\ destroyed[t] \in 0 .. 2
    BY DEF TypeOK
  <2>2. threadMap[handleID[t]] = t => InMap(t)
    BY <2>1 DEF InMap
  <2> QED
    BY <1>1, <1>2, <1>3, <2>1, <2>2 DEF FreeInv, LeakInv, HandleGiven
<1>10. JoinedInv'
  BY <1>1 DEF JoinedInv
<1> QED
  BY <1>4, <1>5, <1>6, <1>7, <1>8, <1>9, <1>10

\* Every step preserves the invariant: one case per action.
LEMMA NextInductive == Inductive /\ [Next]_vars => Inductive'
<1> SUFFICES ASSUME Inductive, [Next]_vars
             PROVE  Inductive'
  OBVIOUS
<1>1. ASSUME NEW s \in Execs, NEW t \in Threads, Spawn(s, t)
      PROVE  Inductive'
  BY <1>1, SpawnBuildInductive, SpawnFailInductive, SpawnRegisterInductive,
     SpawnStartHostThreadInductive, SpawnAssignInductive, SpawnReturnInductive DEF Spawn
<1>2. ASSUME NEW t \in Threads, GuestReturn(t) \/ GuestTrap(t) \/ Exit(t)
      PROVE  Inductive'
  BY <1>2, GuestReturnInductive, GuestTrapInductive, AppThreadExitInductive,
     ExitDetachInductive, ExitDetachNullInductive, ExitNotifyInductive,
     HostThreadEndInductive DEF Exit
<1>3. CASE Cleanup
  BY <1>3, CleanupSnapshotInductive, CleanupCancelInductive, JoinEnterInductive,
     JoinWakeInductive, JoinWakeNullInductive, HostJoinedInductive, JoinEraseInductive,
     ExitMainInductive DEF Cleanup
<1>4. CASE DestroyBegin \/ Deinstantiate \/ DeleteInstance
  BY <1>4, DestroyBeginInductive, DeinstantiateInductive, DeleteInstanceInductive
<1>5. CASE UNCHANGED vars
  <2>1. Given' = Given
    BY <1>5 DEF Given, HandleGiven, vars
  <2> QED
    BY <1>5, <2>1 DEF Inductive, vars, infoVars, mapVars, guestVars, joinVars, TypeOK, CountInv,
       HandleInv, UniqueInv, MapInv, HandlesConsistent, WaitInv, JoinInv, SpawnInv, FreeInv,
       LeakInv, JoinedInv, HandleGiven, UsesInfo
<1> QED
  BY <1>1, <1>2, <1>3, <1>4, <1>5 DEF Next

-----------------------------------------------------------------------------
\* The invariant holds in every state of every behaviour.
THEOREM InductiveInvariant == Spec => []Inductive
<1> QED
  BY InitInductive, NextInductive, PTL DEF Spec

\* Every variable keeps its type: in particular waitCount never exceeds 1 and no
\* info is freed more often than the failed spawn's two times.
THEOREM TypeCorrect == Spec => []TypeOK
<1>1. Inductive => TypeOK
  BY DEF Inductive
<1> QED
  BY <1>1, InductiveInvariant, PTL

\* The destroying thread never waits for a notification that was sent before.
THEOREM WakeupNotLost == Spec => []NoLostWakeup
<1>1. Inductive => NoLostWakeup
  <2> SUFFICES ASSUME Inductive, dpc = "waiting", ~signaled
               PROVE  UsesInfo(target)
    BY DEF NoLostWakeup
  <2>1. target \in Threads /\ HandleGiven(target) /\ pc[target] \in ThreadStates
    BY DEF Inductive, TypeOK, JoinInv
  <2> QED
    BY <2>1 DEF Inductive, JoinInv, HandleGiven, UsesInfo, ThreadStates
<1> QED
  BY <1>1, InductiveInvariant, PTL

\* The cleanup finds every thread that runs, and finds it under its own handle.
THEOREM MapCorrect == Spec => []HandlesConsistent
<1>1. Inductive => HandlesConsistent
  BY DEF Inductive
<1> QED
  BY <1>1, InductiveInvariant, PTL

-----------------------------------------------------------------------------
\* While the cleanup is over and nothing runs, nothing starts.
LEMMA QuietStays ==
  ASSUME Inductive, QuietAfterCleanup, ~DtorsSpawn, ~crashed, Next,
         dpc \in {"exitMain", "dtors", "dead", "deleted"}
  PROVE  QuietAfterCleanup'
<1> USE ExecAssumption
<1>1. \A t \in Threads : pc[t] \in {"unborn", "failed", "exited", "done"}
  BY DEF QuietAfterCleanup
<1>2. ASSUME NEW s \in Execs, NEW t \in Threads, Spawn(s, t)
      PROVE  FALSE
  <2>1. spawner[t] = NoThread
    BY <1>1, <1>2 DEF Inductive, TypeOK, SpawnInv, Execs
  <2> QED
    BY <1>1, <1>2, <2>1 DEF Spawn, SpawnBuild, SpawnFail, SpawnRegister, SpawnStartHostThread,
       SpawnAssign, SpawnReturn, RunsGuestCode, Execs
<1>3. ASSUME NEW t \in Threads, GuestReturn(t) \/ GuestTrap(t) \/ Exit(t)
      PROVE  QuietAfterCleanup'
  <2>1. HostThreadEnd(t)
    BY <1>1, <1>3 DEF GuestReturn, GuestTrap, Exit, AppThreadExit, ExitDetach,
       ExitDetachNull, ExitNotify
  <2> QED
    BY <1>1, <2>1 DEF HostThreadEnd, Inductive, TypeOK, QuietAfterCleanup
<1>4. CASE Cleanup \/ DestroyBegin \/ Deinstantiate \/ DeleteInstance
  <2>1. UNCHANGED pc
    BY <1>4 DEF Cleanup, CleanupSnapshot, CleanupCancel, JoinEnter, JoinWake, JoinWakeNull,
       HostJoined, JoinErase, ExitMain, DestroyBegin, Deinstantiate, DeleteInstance
  <2> QED
    BY <1>1, <2>1 DEF QuietAfterCleanup
<1> QED
  BY <1>2, <1>3, <1>4 DEF Next

\* An empty snapshot: no thread runs, so none is inside WasiThreadSpawn either.
LEMMA EmptySnapshotIsQuiet ==
  ASSUME Inductive, dpc = "snapshot", AllThreadInfo = {}
  PROVE  \A t \in Threads : pc[t] \in {"unborn", "failed", "exited", "done"}
<1> SUFFICES ASSUME NEW t \in Threads
             PROVE  pc[t] \in {"unborn", "failed", "exited", "done"}
  OBVIOUS
<1>1. \A u \in Threads : ~UsesInfo(u)
  BY DEF Inductive, TypeOK, HandlesConsistent, HandleInv, HandleGiven, UsesInfo,
     AllThreadInfo, MainHandle
<1>2. pc[t] # "building"
  <2>1. spawner[t] # Main
    BY DEF Inductive, SpawnInv
  <2>2. spawner[t] \notin Threads
    BY <1>1 DEF Inductive, SpawnInv, UsesInfo
  <2> QED
    BY <2>1, <2>2 DEF Inductive, SpawnInv, TypeOK, Execs
<1> QED
  BY <1>1, <1>2 DEF Inductive, TypeOK, UsesInfo, ThreadStates

\* With destructors that start no thread, no app thread uses the instance from
\* the end of the cleanup loop on: the instance may be freed.
THEOREM NothingRunsAfterCleanup ==
  ASSUME ~DtorsSpawn
  PROVE  Spec => []QuietAfterCleanup
<1>1. Init => QuietAfterCleanup
  BY DEF Init, QuietAfterCleanup
<1>2. Inductive /\ QuietAfterCleanup /\ [Next]_vars => QuietAfterCleanup'
  <2> SUFFICES ASSUME Inductive, QuietAfterCleanup, [Next]_vars,
                      dpc' \in {"exitMain", "dtors", "dead", "deleted"}
               PROVE  QuietAfterCleanup'
    BY DEF QuietAfterCleanup
  <2>1. CASE UNCHANGED vars
    BY <2>1 DEF QuietAfterCleanup, vars, joinVars
  <2>2. CASE Next /\ dpc \in {"exitMain", "dtors", "dead", "deleted"}
    BY <2>2, QuietStays DEF Next
  <2>3. CASE Next /\ dpc \notin {"exitMain", "dtors", "dead", "deleted"}
    <3>1. dpc = "snapshot" /\ AllThreadInfo = {} /\ UNCHANGED pc
      BY <2>3 DEF Next, Spawn, SpawnBuild, SpawnFail, SpawnRegister, SpawnStartHostThread,
         SpawnAssign, SpawnReturn, GuestReturn, GuestTrap, Exit, AppThreadExit, ExitDetach,
         ExitDetachNull, ExitNotify, HostThreadEnd, DestroyBegin, Cleanup, CleanupSnapshot,
         CleanupCancel, JoinEnter, JoinWake, JoinWakeNull, HostJoined, JoinErase, NextRound, ExitMain,
         Deinstantiate, DeleteInstance, joinVars
    <3> QED
      BY <3>1, EmptySnapshotIsQuiet DEF QuietAfterCleanup
  <2> QED
    BY <2>1, <2>2, <2>3
<1> QED
  BY <1>1, <1>2, InductiveInvariant, PTL DEF Spec

\* With destructors that start no thread, a thread finds its info, its exec env and
\* its sub-instance alive up to its last access, whatever its spawner, the
\* destroying thread and the loop thread that deletes the instance do meanwhile.
THEOREM InfoIsAlive ==
  ASSUME ~DtorsSpawn
  PROVE  Spec => []InfoOutlivesThread
<1>1. Inductive /\ QuietAfterCleanup => InfoOutlivesThread
  <2> SUFFICES ASSUME Inductive, QuietAfterCleanup, NEW t \in Threads, UsesInfo(t)
               PROVE  destroyed[t] = 0
    BY DEF InfoOutlivesThread
  <2>1. dpc # "deleted" /\ HandleGiven(t)
    BY DEF QuietAfterCleanup, UsesInfo, HandleGiven
  <2> QED
    BY <2>1 DEF Inductive, HandlesConsistent, FreeInv
<1> QED
  BY <1>1, InductiveInvariant, NothingRunsAfterCleanup, PTL

\* With destructors that start no thread, no joinable std::thread is destroyed, by
\* the last step of a cleanup, by a late spawner or with the instance.
THEOREM NoJoinableThreadFreed ==
  ASSUME ~DtorsSpawn
  PROVE  Spec => []JoinedOrDetachedBeforeFree
<1>1. Inductive /\ QuietAfterCleanup => JoinedOrDetachedBeforeFree
  <2> SUFFICES ASSUME Inductive, QuietAfterCleanup,
                      NEW t \in Threads, destroyed[t] > 0, pc[t] # "failed"
               PROVE  pHostThread[t] \in {"joined", "detached"}
    BY DEF JoinedOrDetachedBeforeFree
  <2>1. CASE dpc # "deleted"
    BY <2>1 DEF Inductive, JoinedInv
  <2>2. CASE dpc = "deleted"
    <3>1. pc[t] \in {"exited", "done"}
      BY <2>2 DEF QuietAfterCleanup, Inductive, FreeInv
    <3> QED
      BY <2>2, <3>1 DEF Inductive, WaitInv
  <2> QED
    BY <2>1, <2>2
<1> QED
  BY <1>1, InductiveInvariant, NothingRunsAfterCleanup, PTL

\* A deleted instance has no m_threadMap any more.
NoneLeft == dpc = "deleted" => \A h \in Handles : threadMap[h] = NoThread

\* With destructors that start no thread, each thread's sub-instance and exec env are
\* freed exactly once by the time the instance is deleted.
THEOREM EveryInfoFreed ==
  ASSUME ~DtorsSpawn
  PROVE  Spec => []InfoFreedOnce
<1>1. Inductive /\ QuietAfterCleanup /\ NoneLeft => InfoFreedOnce
  <2> SUFFICES ASSUME Inductive, QuietAfterCleanup, NoneLeft, NEW t \in Threads, HandleGiven(t)
               PROVE  /\ destroyed[t] <= 1
                      /\ dpc = "deleted" => destroyed[t] = 1
    BY DEF InfoFreedOnce, HandleGiven
  <2>1. destroyed[t] \in 0 .. 2 /\ destroyed[t] <= 1 /\ handleID[t] \in Handles
    BY DEF Inductive, TypeOK, FreeInv
  <2>2. ASSUME dpc = "deleted"
        PROVE  destroyed[t] # 0
    <3>1. spawner[t] = NoThread
      BY <2>2, ExecAssumption DEF QuietAfterCleanup, Inductive, SpawnInv, TypeOK, Execs
    <3>2. batch = {} /\ threadMap[handleID[t]] # t
      BY <2>1, <2>2, ExecAssumption DEF Inductive, JoinInv, NoneLeft, Execs
    <3> QED
      BY <3>1, <3>2 DEF Inductive, LeakInv
  <2> QED
    BY <2>1, <2>2
<1>2. Init => NoneLeft
  BY DEF Init, NoneLeft
<1>3. Inductive /\ QuietAfterCleanup /\ NoneLeft /\ [Next]_vars => NoneLeft'
  <2> SUFFICES ASSUME Inductive, QuietAfterCleanup, NoneLeft, [Next]_vars, dpc' = "deleted"
               PROVE  \A h \in Handles : threadMap'[h] = NoThread
    BY DEF NoneLeft
  <2>1. CASE DeleteInstance
    BY <2>1 DEF DeleteInstance
  <2>2. CASE ~DeleteInstance
    <3>1. dpc = "deleted"
      BY <2>2 DEF Next, Spawn, SpawnBuild, SpawnFail, SpawnRegister, SpawnStartHostThread,
         SpawnAssign, SpawnReturn, GuestReturn, GuestTrap, Exit, AppThreadExit, ExitDetach,
         ExitDetachNull, ExitNotify, HostThreadEnd, DestroyBegin, Cleanup, CleanupSnapshot,
         CleanupCancel, JoinEnter, JoinWake, JoinWakeNull, HostJoined, JoinErase, NextRound,
         ExitMain, Deinstantiate, joinVars, vars
    <3>2. \A s \in Execs, t \in Threads : ~SpawnFail(s, t) /\ ~SpawnRegister(s, t)
      BY <3>1 DEF QuietAfterCleanup, SpawnFail, SpawnRegister
    <3>3. UNCHANGED threadMap
      BY <2>2, <3>1, <3>2 DEF Next, Spawn, SpawnBuild, SpawnStartHostThread,
         SpawnAssign, SpawnReturn, GuestReturn, GuestTrap, Exit, AppThreadExit, ExitDetach,
         ExitDetachNull, ExitNotify, HostThreadEnd, DestroyBegin, Cleanup, CleanupSnapshot,
         CleanupCancel, JoinEnter, JoinWake, JoinWakeNull, HostJoined, JoinErase,
         ExitMain, Deinstantiate, mapVars, vars
    <3> QED
      BY <3>1, <3>3 DEF NoneLeft
  <2> QED
    BY <2>1, <2>2
<1> QED
  BY <1>1, <1>2, <1>3, InductiveInvariant, NothingRunsAfterCleanup, PTL DEF Spec

-----------------------------------------------------------------------------
(* The entry of the main thread.  A spawn that fails takes it out of        *)
(* m_threadMap, which the run PthreadHeapExhausted shows; the theorems     *)
(* below say what holds in an instance that has had no failed spawn.       *)

\* While no spawn has failed the main thread has its entry.
MainInv == NoSpawnFailed /\ dpc # "deleted" => threadMap[MainHandle] = Main

\* A failed spawn has failed for ever.
LEMMA FailureStays ==
  ASSUME Inductive, [Next]_vars, NoSpawnFailed'
  PROVE  NoSpawnFailed
<1>1. \A t \in Threads : pc[t] = "failed" => pc'[t] = "failed"
  BY DEF Inductive, TypeOK, Next, Spawn, SpawnBuild, SpawnFail, SpawnRegister,
     SpawnStartHostThread, SpawnAssign, SpawnReturn, GuestReturn, GuestTrap, Exit,
     AppThreadExit, ExitDetach, ExitDetachNull, ExitNotify, HostThreadEnd, DestroyBegin,
     Cleanup, CleanupSnapshot, CleanupCancel, JoinEnter, JoinWake, JoinWakeNull, HostJoined,
     JoinErase, ExitMain, Deinstantiate, DeleteInstance, vars
<1> QED
  BY <1>1 DEF NoSpawnFailed

\* Only a failed spawn and the end of the instance take the main thread's entry.
LEMMA MainStays ==
  ASSUME Inductive, MainInv, [Next]_vars
  PROVE  MainInv'
<1> USE ExecAssumption
<1> SUFFICES ASSUME NoSpawnFailed', dpc' # "deleted"
             PROVE  threadMap'[MainHandle] = Main
  BY DEF MainInv
<1>1. NoSpawnFailed /\ dpc # "deleted"
  <2>1. dpc # "deleted"
    BY DEF Next, Spawn, SpawnBuild, SpawnFail, SpawnRegister, SpawnStartHostThread,
       SpawnAssign, SpawnReturn, GuestReturn, GuestTrap, Exit, AppThreadExit, ExitDetach,
       ExitDetachNull, ExitNotify, HostThreadEnd, DestroyBegin, Cleanup, CleanupSnapshot,
       CleanupCancel, JoinEnter, JoinWake, JoinWakeNull, HostJoined, JoinErase, ExitMain,
       Deinstantiate, DeleteInstance, joinVars, vars
  <2> QED
    BY <2>1, FailureStays
<1>2. threadMap[MainHandle] = Main
  BY <1>1 DEF MainInv
<1>3. ASSUME NEW s \in Execs, NEW t \in Threads, SpawnRegister(s, t)
      PROVE  threadMap'[MainHandle] = Main
  <2>1. PICK h \in Handles : threadMap' = [threadMap EXCEPT ![h] = t] /\ threadMap[h] = NoThread
    BY <1>3 DEF SpawnRegister, FirstFreeHandle
  <2>2. h # MainHandle
    BY <1>2, <2>1 DEF Execs
  <2> QED
    BY <1>2, <2>1, <2>2 DEF Inductive, TypeOK
<1>4. CASE JoinErase
  <2>1. target \in Threads /\ HandleGiven(target) /\ handleID[target] # MainHandle
    BY <1>4 DEF JoinErase, Inductive, TypeOK, JoinInv, HandleInv, MainHandle
  <2> QED
    BY <1>2, <1>4, <2>1 DEF JoinErase, Inductive, TypeOK
<1>5. \A s \in Execs, t \in Threads : ~SpawnFail(s, t)
  BY DEF SpawnFail, Inductive, TypeOK, NoSpawnFailed
<1>6. ~DeleteInstance
  BY DEF DeleteInstance
<1>7. CASE UNCHANGED threadMap
  BY <1>2, <1>7
<1>8. ASSUME [Next]_vars, \A s \in Execs, t \in Threads : ~SpawnRegister(s, t), ~JoinErase
      PROVE  UNCHANGED threadMap
  BY <1>5, <1>6, <1>8 DEF Next, Spawn, SpawnBuild, SpawnStartHostThread, SpawnAssign,
     SpawnReturn, GuestReturn, GuestTrap, Exit, AppThreadExit, ExitDetach, ExitDetachNull,
     ExitNotify, HostThreadEnd, DestroyBegin, Cleanup, CleanupSnapshot, CleanupCancel,
     JoinEnter, JoinWake, JoinWakeNull, HostJoined, ExitMain, Deinstantiate, mapVars, vars
<1> QED
  BY <1>3, <1>4, <1>7, <1>8

\* While no spawn has failed, the main thread keeps its place in m_threadMap.
THEOREM MainKeepsEntry == Spec => []MainInv
<1>1. Init => MainInv
  BY HandleAssumption DEF Init, MainInv, Handles, MainHandle
<1> QED
  BY <1>1, MainStays, InductiveInvariant, PTL DEF Spec

\* While no spawn has failed, the trap of an app thread is in the main wasm instance,
\* where the loop thread looks for it, once the thread's DoAppThreadExit is over.
THEOREM TrapIsSpread ==
  ASSUME ~DtorsSpawn
  PROVE  Spec => []TrapReachesMain
<1>1. Init => TrapReachesMain
  BY DEF Init, TrapReachesMain
<1>2. Inductive /\ QuietAfterCleanup /\ MainInv /\ TrapReachesMain /\ [Next]_vars
        => TrapReachesMain'
  <2> SUFFICES ASSUME Inductive, QuietAfterCleanup, MainInv, TrapReachesMain, [Next]_vars,
                      NoSpawnFailed'
               PROVE  TrapReachesMain'
    BY DEF TrapReachesMain
  <2>5. NoSpawnFailed
    BY FailureStays
  <2>1. ASSUME NEW t \in Threads, AppThreadExit(t)
        PROVE  TrapReachesMain'
    <3>1. handleID[t] # MainHandle
      BY <2>1 DEF AppThreadExit, Inductive, HandleInv, HandleGiven, MainHandle
    <3>2. MainHandle \in Handles /\ Main \in Execs
      BY HandleAssumption DEF Handles, MainHandle, Execs
    <3>3. InMap(Main)
      BY <2>1, <2>5, <3>2 DEF AppThreadExit, QuietAfterCleanup, MainInv, InMap
    <3>4. IF t \in exception THEN Main \in exception' ELSE exception' = exception
      BY <2>1, <3>1, <3>2, <3>3 DEF AppThreadExit, Spread
    <3>5. pc' = [pc EXCEPT ![t] = "locking"] /\ pc \in [Threads -> ThreadStates]
      BY <2>1 DEF AppThreadExit, Inductive, TypeOK
    <3> QED
      BY <2>5, <3>4, <3>5 DEF TrapReachesMain
  <2>2. ASSUME NEW t \in Threads, GuestReturn(t) \/ GuestTrap(t) \/ (Exit(t) /\ ~AppThreadExit(t))
        PROVE  TrapReachesMain'
    <3>1. \/ UNCHANGED exception
          \/ exception' = exception \cup {t} /\ pc'[t] = "exiting"
      BY <2>2 DEF GuestReturn, GuestTrap, Exit, ExitDetach, ExitDetachNull, ExitNotify,
         HostThreadEnd, guestVars, Inductive, TypeOK
    <3>2. \A u \in Threads : pc'[u] \in {"locking", "exited", "done"} =>
                                 pc[u] \in {"locking", "exited", "done"}
      BY <2>2 DEF GuestReturn, GuestTrap, Exit, ExitDetach, ExitDetachNull, ExitNotify,
         HostThreadEnd, Inductive, TypeOK
    <3> QED
      BY <2>5, <3>1, <3>2 DEF TrapReachesMain
  <2>3. ASSUME NEW s \in Execs, NEW t \in Threads, Spawn(s, t)
        PROVE  TrapReachesMain'
    <3>1. UNCHANGED exception
      BY <2>3 DEF Spawn, SpawnBuild, SpawnFail, SpawnRegister, SpawnStartHostThread, SpawnAssign,
         SpawnReturn, guestVars
    <3>2. \A u \in Threads : pc'[u] \in {"locking", "exited", "done"} =>
                                 pc[u] \in {"locking", "exited", "done"}
      BY <2>3 DEF Spawn, SpawnBuild, SpawnFail, SpawnRegister, SpawnStartHostThread, SpawnAssign,
         SpawnReturn, Inductive, TypeOK
    <3> QED
      BY <2>5, <3>1, <3>2 DEF TrapReachesMain
  <2>4. CASE Cleanup \/ DestroyBegin \/ Deinstantiate \/ DeleteInstance \/ UNCHANGED vars
    <3>1. UNCHANGED <<pc, exception>>
      BY <2>4 DEF Cleanup, CleanupSnapshot, CleanupCancel, JoinEnter, JoinWake, JoinWakeNull,
         HostJoined, JoinErase, ExitMain, DestroyBegin, Deinstantiate,
         DeleteInstance, guestVars, vars
    <3> QED
      BY <2>5, <3>1 DEF TrapReachesMain
  <2> QED
    BY <2>1, <2>2, <2>3, <2>4 DEF Next
<1> QED
  BY <1>1, <1>2, InductiveInvariant, MainKeepsEntry, NothingRunsAfterCleanup, PTL DEF Spec

\* From the end of the cleanup loop on only the main thread may have an entry.
OnlyMainLeft ==
    dpc \in {"exitMain", "dtors", "dead", "deleted"} =>
        \A h \in Handles \ {MainHandle} : threadMap[h] = NoThread

\* The cleanup loop ends with no app thread in m_threadMap, and none enters it after.
LEMMA OnlyMainStays ==
  ASSUME Inductive, QuietAfterCleanup, QuietAfterCleanup', OnlyMainLeft, [Next]_vars
  PROVE  OnlyMainLeft'
<1> SUFFICES ASSUME dpc' \in {"exitMain", "dtors", "dead", "deleted"}
             PROVE  \A h \in Handles \ {MainHandle} : threadMap'[h] = NoThread
  BY DEF OnlyMainLeft
<1>1. ASSUME NEW s \in Execs, NEW t \in Threads, Spawn(s, t)
      PROVE  \A h \in Handles \ {MainHandle} : threadMap'[h] = NoThread
  <2>1. dpc' = dpc /\ \A h \in Handles : threadMap[h] = NoThread /\ threadMap'[h] # NoThread =>
                                             SpawnRegister(s, t)
    BY <1>1 DEF Spawn, SpawnBuild, SpawnFail, SpawnRegister, SpawnStartHostThread, SpawnAssign,
       SpawnReturn, mapVars, joinVars, Inductive, TypeOK
  <2>2. ~SpawnRegister(s, t)
    BY <2>1 DEF SpawnRegister, QuietAfterCleanup
  <2> QED
    BY <2>1, <2>2 DEF OnlyMainLeft
<1>2. CASE CleanupSnapshot
  <2>1. AllThreadInfo = {} /\ UNCHANGED threadMap
    BY <1>2 DEF CleanupSnapshot, mapVars
  <2>2. \A h \in Handles \ {MainHandle} : threadMap[h] # Main
    BY DEF Inductive, MapInv
  <2> QED
    BY <2>1, <2>2 DEF AllThreadInfo, Inductive, TypeOK, Execs
<1>3. CASE UNCHANGED <<threadMap, dpc>>
  BY <1>3 DEF OnlyMainLeft
<1>4. CASE ExitMain \/ Deinstantiate \/ DeleteInstance
  BY <1>4 DEF ExitMain, Deinstantiate, DeleteInstance, OnlyMainLeft, mapVars
<1>5. ASSUME NEW t \in Threads, GuestReturn(t) \/ GuestTrap(t) \/ Exit(t)
      PROVE  UNCHANGED <<threadMap, dpc>>
  BY <1>5 DEF GuestReturn, GuestTrap, Exit, AppThreadExit, ExitDetach, ExitDetachNull, ExitNotify,
     HostThreadEnd, mapVars, joinVars
<1>6. Cleanup \/ DestroyBegin => CleanupSnapshot \/ ExitMain
  BY DEF Cleanup, CleanupCancel, JoinEnter, JoinWake, JoinWakeNull, HostJoined, JoinErase,
     NextRound, DestroyBegin, joinVars
<1>7. UNCHANGED vars => UNCHANGED <<threadMap, dpc>>
  BY DEF vars, mapVars, joinVars
<1> QED
  BY <1>1, <1>2, <1>3, <1>4, <1>5, <1>6, <1>7 DEF Next

\* The assertion at the end of CleanupAppThreadInfo holds if no spawn has failed and
\* destructors start no thread: exactly the entry of the main thread is left.
THEOREM OneEntryLeft ==
  ASSUME ~DtorsSpawn
  PROVE  Spec => []OneEntryLeftByCleanup
<1>1. Init => OnlyMainLeft
  BY DEF Init, OnlyMainLeft
<1>2. Spec => []OnlyMainLeft
  BY <1>1, OnlyMainStays, InductiveInvariant, NothingRunsAfterCleanup, PTL DEF Spec
<1>3. Inductive /\ MainInv /\ OnlyMainLeft => OneEntryLeftByCleanup
  <2> SUFFICES ASSUME MainInv, OnlyMainLeft, NoSpawnFailed, dpc = "dtors"
               PROVE  Cardinality({h \in Handles : threadMap[h] # NoThread}) = 1
    BY DEF OneEntryLeftByCleanup, CleanupAssert
  <2>1. MainHandle \in Handles
    BY HandleAssumption DEF Handles, MainHandle
  <2>2. {h \in Handles : threadMap[h] # NoThread} = {MainHandle}
    BY <2>1, ExecAssumption DEF MainInv, OnlyMainLeft, Execs
  <2> QED
    BY <2>2, FS_Singleton
<1> QED
  BY <1>2, <1>3, InductiveInvariant, MainKeepsEntry, PTL

-----------------------------------------------------------------------------
\* A step that moves no thread into or out of its life changes nothing abstract.
LEMMA AbstractStutter ==
  ASSUME \A t \in Threads : Status(t)' = Status(t), Closed' = Closed
  PROVE  [Abstract!Next]_(Abstract!vars)
<1>1. StatusMap' = StatusMap
  BY DEF StatusMap
<1> QED
  BY <1>1 DEF Abstract!vars

\* A step that brings one thread to life.
LEMMA AbstractStart ==
  ASSUME NEW t \in Threads, \A u \in Threads \ {t} : Status(u)' = Status(u),
         Status(t) = "unborn", Status(t)' = "alive", ~Closed, Closed' = Closed
  PROVE  [Abstract!Next]_(Abstract!vars)
<1>1. StatusMap' = [StatusMap EXCEPT ![t] = "alive"] /\ StatusMap[t] = "unborn"
  BY DEF StatusMap
<1>2. Abstract!Start(t)
  BY <1>1 DEF Abstract!Start
<1> QED
  BY <1>2 DEF Abstract!Next

\* A step that ends one thread.
LEMMA AbstractEnd ==
  ASSUME NEW t \in Threads, \A u \in Threads \ {t} : Status(u)' = Status(u),
         Status(t) = "alive", Status(t)' = "gone", Closed' = Closed
  PROVE  [Abstract!Next]_(Abstract!vars)
<1>1. StatusMap' = [StatusMap EXCEPT ![t] = "gone"] /\ StatusMap[t] = "alive"
  BY DEF StatusMap
<1>2. Abstract!End(t)
  BY <1>1 DEF Abstract!End
<1> QED
  BY <1>2 DEF Abstract!Next

\* The step that ends the cleanup loop.
LEMMA AbstractClose ==
  ASSUME \A t \in Threads : Status(t)' = Status(t) /\ Status(t) # "alive", Closed'
  PROVE  [Abstract!Next]_(Abstract!vars)
<1>1. StatusMap' = StatusMap /\ \A t \in Threads : StatusMap[t] # "alive"
  BY DEF StatusMap
<1>2. Abstract!Close
  BY <1>1 DEF Abstract!Close, Closed
<1> QED
  BY <1>2 DEF Abstract!Next

\* With destructors that start no thread, the thread manager keeps what AppThreads
\* promises: each of its steps is one of AppThreads or changes nothing there.
THEOREM Refinement ==
  ASSUME ~DtorsSpawn
  PROVE  Spec => ImplementsAppThreads
<1>1. Init => Abstract!Init
  BY DEF Init, Abstract!Init, StatusMap, Status, Closed, UsesInfo
<1>2. Inductive /\ QuietAfterCleanup /\ [Next]_vars => [Abstract!Next]_(Abstract!vars)
  <2> SUFFICES ASSUME Inductive, QuietAfterCleanup, [Next]_vars
               PROVE  [Abstract!Next]_(Abstract!vars)
    OBVIOUS
  <2>1. ASSUME NEW s \in Execs, NEW t \in Threads, Spawn(s, t)
        PROVE  [Abstract!Next]_(Abstract!vars)
    <3>1. \A u \in Threads \ {t} : Status(u)' = Status(u)
      BY <2>1 DEF Spawn, SpawnBuild, SpawnFail, SpawnRegister, SpawnStartHostThread, SpawnAssign,
         SpawnReturn, Status, UsesInfo, Inductive, TypeOK
    <3>2. Closed' = Closed
      BY <2>1 DEF Spawn, SpawnBuild, SpawnFail, SpawnRegister, SpawnStartHostThread, SpawnAssign,
         SpawnReturn, joinVars, Closed
    <3>3. CASE SpawnRegister(s, t)
      <4>1. pc[t] = "building" /\ Status(t)' = "alive"
        BY <3>3 DEF SpawnRegister, Status, UsesInfo, Inductive, TypeOK
      <4>2. Status(t) = "unborn" /\ ~Closed
        BY <4>1 DEF QuietAfterCleanup, Status, UsesInfo, Closed
      <4> QED
        BY <3>1, <3>2, <4>1, <4>2, AbstractStart
    <3>4. CASE ~SpawnRegister(s, t)
      <4>1. Status(t)' = Status(t)
        BY <2>1, <3>4 DEF Spawn, SpawnBuild, SpawnFail, SpawnStartHostThread, SpawnAssign,
           SpawnReturn, Status, UsesInfo, Inductive, TypeOK
      <4> QED
        BY <3>1, <3>2, <4>1, AbstractStutter
    <3> QED
      BY <3>3, <3>4
  <2>2. ASSUME NEW t \in Threads, GuestReturn(t) \/ GuestTrap(t) \/ Exit(t)
        PROVE  [Abstract!Next]_(Abstract!vars)
    <3>1. \A u \in Threads \ {t} : Status(u)' = Status(u)
      BY <2>2 DEF GuestReturn, GuestTrap, Exit, AppThreadExit, ExitDetach, ExitDetachNull,
         ExitNotify, HostThreadEnd, Status, UsesInfo, Inductive, TypeOK
    <3>2. Closed' = Closed
      BY <2>2 DEF GuestReturn, GuestTrap, Exit, AppThreadExit, ExitDetach, ExitDetachNull,
         ExitNotify, HostThreadEnd, joinVars, Closed
    <3>3. CASE ExitDetach(t) \/ ExitNotify(t)
      <4>1. Status(t) = "alive" /\ Status(t)' = "gone"
        BY <3>3 DEF ExitDetach, ExitNotify, Status, UsesInfo, Inductive, TypeOK
      <4> QED
        BY <3>1, <3>2, <4>1, AbstractEnd
    <3>4. CASE ~(ExitDetach(t) \/ ExitNotify(t))
      <4>1. Status(t)' = Status(t)
        BY <2>2, <3>4 DEF GuestReturn, GuestTrap, Exit, AppThreadExit, ExitDetachNull,
           HostThreadEnd, Status, UsesInfo, Inductive, TypeOK
      <4> QED
        BY <3>1, <3>2, <4>1, AbstractStutter
    <3> QED
      BY <3>3, <3>4
  <2>3. CASE Cleanup \/ DestroyBegin \/ Deinstantiate \/ DeleteInstance
    <3>1. UNCHANGED pc
      BY <2>3 DEF Cleanup, CleanupSnapshot, CleanupCancel, JoinEnter, JoinWake, JoinWakeNull,
         HostJoined, JoinErase, ExitMain, DestroyBegin, Deinstantiate, DeleteInstance
    <3>2. \A t \in Threads : Status(t)' = Status(t)
      BY <3>1 DEF Status, UsesInfo
    <3>3. Closed' = Closed \/ (dpc = "snapshot" /\ AllThreadInfo = {} /\ Closed')
      <4>1. CASE Cleanup
        BY <4>1 DEF Cleanup, CleanupSnapshot, CleanupCancel, JoinEnter, JoinWake, JoinWakeNull,
           HostJoined, JoinErase, NextRound, ExitMain, joinVars, Closed
      <4>2. CASE DestroyBegin \/ Deinstantiate \/ DeleteInstance
        <5>1. \/ dpc = "open" /\ dpc' = "snapshot"
              \/ dpc = "dtors" /\ dpc' = "dead"
              \/ dpc = "dead" /\ dpc' = "deleted"
          BY <4>2 DEF DestroyBegin, Deinstantiate, DeleteInstance
        <5> QED
          BY <5>1 DEF Closed
      <4> QED
        BY <2>3, <4>1, <4>2
    <3>4. dpc = "snapshot" /\ AllThreadInfo = {} => \A t \in Threads : Status(t) # "alive"
      BY EmptySnapshotIsQuiet DEF Status, UsesInfo
    <3> QED
      BY <3>2, <3>3, <3>4, AbstractStutter, AbstractClose
  <2>4. CASE UNCHANGED vars
    <3>1. (\A t \in Threads : Status(t)' = Status(t)) /\ Closed' = Closed
      BY <2>4 DEF vars, joinVars, Status, UsesInfo, Closed
    <3> QED
      BY <3>1, AbstractStutter
  <2> QED
    BY <2>1, <2>2, <2>3, <2>4 DEF Next
<1> QED
  BY <1>1, <1>2, InductiveInvariant, NothingRunsAfterCleanup, PTL
     DEF Spec, ImplementsAppThreads, Abstract!Spec

==============================================================================
