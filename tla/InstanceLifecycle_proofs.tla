----------------------- MODULE InstanceLifecycle_proofs -----------------------
(***************************************************************************)
(* Proofs about InstanceLifecycle for any sets of instances and threads    *)
(* and any faults of start.  Two facts carry them.  Whoever is past the    *)
(* check of the state in start, exec_main and destroy owns execFuncLock of *)
(* that instance, and the state it has found there is changed by nobody    *)
(* else, but for the loop thread, which takes STARTED to ENDED.  And an    *)
(* instance enters the list once and leaves it once, DESTROYED, so that a  *)
(* pointer the loop thread holds is in the list or to such an instance.    *)
(***************************************************************************)
EXTENDS InstanceLifecycle, SequenceTheorems, TLAPS

\* Past the check of the state: the call has execFuncLock.
HasLock == {"instantiate", "initialize", "main", "cleanup", "teardown", "mark", "unlock"}

Places == {"idle", "listing", "set_opt", "start", "exec_main", "destroy"} \cup HasLock

Live == wasm \cap execEnv \cap customData

LockInv ==
    /\ \A c \in Callers :
          /\ pc[c] # "idle" => cur[c] \in Instances
          /\ pc[c] \in HasLock => execFuncLock[cur[c]] = c
    /\ \A i \in Instances, c \in Callers :
          execFuncLock[i] = c => pc[c] \in HasLock /\ cur[c] = i

\* What a call has found out about its instance stays true while it has the lock.
CallOK(c) ==
    /\ pc[c] \in {"instantiate", "initialize"} => state[cur[c]] = STATE_NEW
    /\ pc[c] = "main" => state[cur[c]] \in {STATE_STARTED, STATE_ENDED}
    /\ pc[c] \in {"cleanup", "teardown", "mark"} => state[cur[c]] = STATE_DESTROYING
    /\ pc[c] = "unlock" => state[cur[c]] = STATE_DESTROYED
    /\ RunsGuest(c) => cur[c] \in Live
    /\ pc[c] = "mark" => cur[c] \notin wasm

CallInv == \A c \in Callers : CallOK(c)

\* What a state says of the wasm instance, and of the calls of the callback.
StateOK(i) ==
    /\ state[i] = STATE_STARTED => i \in Live
    /\ state[i] = STATE_DESTROYED => i \notin wasm
    /\ notified[i] <= 1
    /\ state[i] <= STATE_STARTED => notified[i] = 0

StateInv == \A i \in Instances : StateOK(i)

\* An instance that is new has no exec env but during start.
HalfInv ==
    \A i \in execEnv : state[i] = STATE_NEW =>
        \E c \in Callers : pc[c] = "initialize" /\ cur[c] = i

\* The list holds an instance once; one that is on its way there is nowhere else.
ListInv ==
    /\ IsInjective(list)
    /\ \A c \in Callers : pc[c] = "listing" =>
          /\ ~Contains(list, cur[c]) /\ held # cur[c] /\ cur[c] \notin freed
          /\ \A d \in Callers \ {c} : pc[d] = "listing" => cur[d] # cur[c]

\* What the loop thread points to.
LoopInv ==
    /\ loopPc = "idle" => held = None
    /\ loopPc # "idle" => it \in Instances /\ Contains(list, it)
    /\ loopPc \in {"callback", "advance"} => held = it
    /\ loopPc \in {"callback", "advance"} /\ doomed => state[it] = STATE_DESTROYED
    /\ held # None /\ ~Contains(list, held) => state[held] = STATE_DESTROYED

Inductive ==
    /\ TypeOK
    /\ LockInv
    /\ CallInv
    /\ StateInv
    /\ HalfInv
    /\ ListInv
    /\ LoopInv
    /\ FreedAfterTeardown

-----------------------------------------------------------------------------
(***************************************************************************)
(* The list.                                                               *)
(***************************************************************************)

\* What is appended to a list without duplicates that lacks it is in it, once.
LEMMA AppendOnce ==
  ASSUME NEW S, NEW l \in Seq(S), NEW e \in S, IsInjective(l), ~Contains(l, e)
  PROVE  /\ Append(l, e) \in Seq(S)
         /\ IsInjective(Append(l, e))
         /\ \A x : Contains(Append(l, e), x) <=> Contains(l, x) \/ x = e
<1>1. /\ Append(l, e) \in Seq(S)
      /\ Len(Append(l, e)) = Len(l) + 1
      /\ \A k \in 1 .. Len(l) : Append(l, e)[k] = l[k]
      /\ Append(l, e)[Len(l) + 1] = e
  BY AppendProperties
<1>2. DOMAIN l = 1 .. Len(l) /\ DOMAIN Append(l, e) = 1 .. Len(l) + 1 /\ Len(l) \in Nat
  BY <1>1, LenProperties
<1>3. IsInjective(Append(l, e))
  BY <1>1, <1>2 DEF IsInjective, Contains
<1>4. ASSUME NEW x
      PROVE  Contains(Append(l, e), x) <=> Contains(l, x) \/ x = e
  BY <1>1, <1>2 DEF Contains
<1> QED
  BY <1>1, <1>3, <1>4

\* What is removed at a position of a list without duplicates is in it no more, and
\* everything else still is.
LEMMA RemoveOnce ==
  ASSUME NEW S, NEW l \in Seq(S), IsInjective(l), NEW n \in 1 .. Len(l)
  PROVE  /\ RemoveAt(l, n) \in Seq(S)
         /\ IsInjective(RemoveAt(l, n))
         /\ \A x : Contains(RemoveAt(l, n), x) <=> Contains(l, x) /\ x # l[n]
<1> DEFINE a == SubSeq(l, 1, n - 1)
           b == SubSeq(l, n + 1, Len(l))
           r == RemoveAt(l, n)
<1>0. Len(l) \in Nat /\ DOMAIN l = 1 .. Len(l) /\ \A k \in 1 .. Len(l) : l[k] \in S
  BY LenProperties
<1>1. /\ a \in Seq(S) /\ Len(a) = n - 1
      /\ \A k \in 1 .. n - 1 : a[k] = l[k]
  BY <1>0, SubSeqProperties
<1>2. /\ b \in Seq(S) /\ Len(b) = Len(l) - n
      /\ \A k \in 1 .. Len(l) - n : b[k] = l[n + k]
  BY <1>0, SubSeqProperties
<1>3. r = a \o b
  BY DEF RemoveAt
<1> HIDE DEF a, b, r
<1>4. /\ r \in Seq(S)
      /\ Len(r) = Len(a) + Len(b)
      /\ \A k \in 1 .. Len(a) + Len(b) : r[k] = IF k <= Len(a) THEN a[k] ELSE b[k - Len(a)]
  BY <1>1, <1>2, <1>3, ConcatProperties, Zenon
<1>5. Len(r) = Len(l) - 1
  BY <1>0, <1>1, <1>2, <1>4
<1>6. DOMAIN r = 1 .. Len(l) - 1
  BY <1>4, <1>5, LenProperties
<1>7. /\ \A k \in 1 .. Len(l) - 1 : k < n => r[k] = l[k]
      /\ \A k \in 1 .. Len(l) - 1 : n <= k => r[k] = l[k + 1]
  <2>1. ASSUME NEW k \in 1 .. Len(l) - 1, k < n PROVE r[k] = l[k]
    <3>1. k \in 1 .. Len(a) + Len(b) /\ k <= Len(a) /\ k \in 1 .. n - 1
      BY <1>0, <1>1, <1>2, <2>1
    <3> QED
      BY <1>1, <1>4, <3>1
  <2>2. ASSUME NEW k \in 1 .. Len(l) - 1, n <= k PROVE r[k] = l[k + 1]
    <3>0. /\ k \in 1 .. Len(a) + Len(b) /\ ~(k <= Len(a))
          /\ k - Len(a) = k - (n - 1)
      BY <1>0, <1>1, <1>2, <2>2
    <3>1. r[k] = b[k - (n - 1)]
      BY <1>4, <3>0
    <3>2. b[k - (n - 1)] = l[n + (k - (n - 1))]
      BY <1>0, <1>2, <2>2
    <3> QED
      BY <1>0, <3>1, <3>2
  <2> QED
    BY <2>1, <2>2
<1> DEFINE From(k) == IF k < n THEN k ELSE k + 1
<1>8. /\ \A k \in 1 .. Len(l) - 1 : From(k) \in 1 .. Len(l) /\ From(k) # n /\ r[k] = l[From(k)]
      /\ \A k, m \in 1 .. Len(l) - 1 : From(k) = From(m) => k = m
      /\ \A m \in 1 .. Len(l) : m # n => \E k \in 1 .. Len(l) - 1 : From(k) = m
  <2>1. \A k \in 1 .. Len(l) - 1 : From(k) \in 1 .. Len(l) /\ From(k) # n /\ r[k] = l[From(k)]
    BY <1>0, <1>7
  <2>2. \A k, m \in 1 .. Len(l) - 1 : From(k) = From(m) => k = m
    BY <1>0
  <2>3. ASSUME NEW m \in 1 .. Len(l), m # n
        PROVE  \E k \in 1 .. Len(l) - 1 : From(k) = m
    <3>1. CASE m < n
      BY <1>0, <3>1
    <3>2. CASE n < m
      <4>1. m - 1 \in 1 .. Len(l) - 1 /\ From(m - 1) = m
        BY <1>0, <3>2
      <4> QED
        BY <4>1
    <3> QED
      BY <1>0, <2>3, <3>1, <3>2
  <2> QED
    BY <2>1, <2>2, <2>3
<1> HIDE DEF From
<1>9. IsInjective(r)
  BY <1>0, <1>6, <1>8 DEF IsInjective
<1>10. ASSUME NEW x
       PROVE  Contains(r, x) <=> Contains(l, x) /\ x # l[n]
  BY <1>0, <1>5, <1>8 DEF Contains, IsInjective
<1> QED
  BY <1>4, <1>9, <1>10 DEF r

\* The iterator stands at its instance, and what follows it in the list is another.
LEMMA IteratorInList ==
  ASSUME TypeOK, ListInv, NEW i \in Instances, Contains(list, i)
  PROVE  /\ Position(i) \in 1 .. Len(list)
         /\ list[Position(i)] = i
         /\ Following(i) # None =>
               Following(i) \in Instances /\ Contains(list, Following(i)) /\ Following(i) # i
<1>0. list \in Seq(Instances) /\ DOMAIN list = 1 .. Len(list) /\ Len(list) \in Nat
  BY LenProperties DEF TypeOK
<1>1. \E n \in DOMAIN list : list[n] = i
  BY <1>0 DEF Contains
<1>2. Position(i) \in 1 .. Len(list) /\ list[Position(i)] = i
  BY <1>0, <1>1 DEF Position
<1>3. ASSUME Following(i) # None
      PROVE  Following(i) \in Instances /\ Contains(list, Following(i)) /\ Following(i) # i
  <2>1. Position(i) + 1 \in 1 .. Len(list) /\ Following(i) = list[Position(i) + 1]
    BY <1>0, <1>2, <1>3 DEF Following
  <2>2. list[Position(i) + 1] # list[Position(i)]
    BY <1>0, <1>2, <2>1 DEF ListInv, IsInjective
  <2> QED
    BY <1>0, <1>2, <2>1, <2>2, ElementOfSeq DEF Contains
<1> QED
  BY <1>2, <1>3

-----------------------------------------------------------------------------
\* No instance has been created and the loop thread is between two visits.
LEMMA InitInductive == Init => Inductive
<1> SUFFICES ASSUME Init PROVE Inductive
    OBVIOUS
<1> USE NamesAssumption DEF Init, Callers, STATE_NEW, STATE_STARTED, STATE_ENDED, STATE_DESTROYING,
        STATE_DESTROYED
<1>1. TypeOK
  <2>1. list \in Seq(Instances)
    BY EmptySeq
  <2>2. /\ state \in [Instances -> STATE_NEW .. STATE_DESTROYED]
        /\ notified \in [Instances -> Nat]
    OBVIOUS
  <2>3. {handle, exceptionCB, wasm, execEnv, customData, exception, leaked, freed}
           \subseteq SUBSET Instances
    OBVIOUS
  <2> QED
    BY <2>1, <2>2, <2>3 DEF TypeOK
<1>2. LockInv /\ CallInv
  BY DEF LockInv, CallInv, CallOK, RunsGuest, HasLock
<1>3. StateInv /\ HalfInv
  BY DEF StateInv, StateOK, HalfInv
<1>4. ListInv
  BY DEF ListInv, IsInjective
<1>5. LoopInv /\ FreedAfterTeardown
  BY DEF LoopInv, FreedAfterTeardown
<1> QED
  BY <1>1, <1>2, <1>3, <1>4, <1>5 DEF Inductive

-----------------------------------------------------------------------------
(***************************************************************************)
(* What a step of one call leaves alone.                                   *)
(***************************************************************************)

\* No other call that has a lock is in the instance of a call whose lock is its own
\* or free.
LEMMA Alone ==
  ASSUME Inductive, NEW c \in Callers, pc[c] # "idle", execFuncLock[cur[c]] \in {c, None},
         NEW d \in Callers \ {c}, pc[d] \in HasLock
  PROVE  cur[d] # cur[c]
BY NamesAssumption DEF Inductive, LockInv, Callers

\* Only call c goes on.
OnlyCall(c) ==
    \A d \in Callers \ {c} : pc'[d] = pc[d] /\ cur'[d] = cur[d] /\ bRunDtor'[d] = bRunDtor[d]

\* Nothing changes but in instance i.
OnlyIn(i) ==
    \A j \in Instances \ {i} :
        /\ state'[j] = state[j] /\ notified'[j] = notified[j]
        /\ j \in wasm' <=> j \in wasm
        /\ j \in Live' <=> j \in Live

\* A call that has the lock, or gets it, changes its own instance only.
LEMMA OwnInstance ==
  ASSUME Inductive, NEW c \in Callers, pc[c] # "idle", NEW i \in Instances, cur[c] = i,
         execFuncLock[i] \in {c, None}, OnlyCall(c), OnlyIn(i), CallOK(c)', StateOK(i)'
  PROVE  CallInv' /\ StateInv'
<1>1. StateInv'
  BY DEF Inductive, StateInv, StateOK, OnlyIn
<1>2. ASSUME NEW d \in Callers \ {c} PROVE CallOK(d)'
  <2>1. CASE pc[d] \in HasLock
    <3>1. cur[d] \in Instances \ {i}
      BY <2>1, Alone DEF Inductive, LockInv, HasLock
    <3> QED
      BY <3>1 DEF Inductive, CallInv, CallOK, RunsGuest, OnlyIn, OnlyCall
  <2>2. CASE pc[d] \notin HasLock
    BY <2>2 DEF CallOK, RunsGuest, HasLock, OnlyCall
  <2> QED
    BY <2>1, <2>2
<1> QED
  BY <1>1, <1>2 DEF CallInv

\* A step that changes no instance disturbs nobody but the call that makes it.
LEMMA NoInstance ==
  ASSUME Inductive, NEW c \in Callers, OnlyCall(c), CallOK(c)',
         UNCHANGED <<state, wasm, execEnv, customData, notified>>
  PROVE  CallInv' /\ StateInv'
<1>1. StateInv'
  BY DEF Inductive, StateInv, StateOK, Live
<1>2. ASSUME NEW d \in Callers \ {c} PROVE CallOK(d)'
  BY DEF Inductive, CallInv, CallOK, RunsGuest, Live, OnlyCall
<1> QED
  BY <1>1, <1>2 DEF CallInv

\* The values of the enumeration.
LEMMA StateValues ==
  /\ {STATE_STARTED, STATE_ENDED, STATE_DESTROYING, STATE_DESTROYED}
        \subseteq STATE_NEW .. STATE_DESTROYED
  /\ STATE_NEW \notin {STATE_STARTED, STATE_ENDED, STATE_DESTROYING, STATE_DESTROYED}
BY DEF STATE_NEW, STATE_STARTED, STATE_ENDED, STATE_DESTROYING, STATE_DESTROYED

\* An assignment to the state of one instance.
LEMMA SetState ==
  ASSUME TypeOK, NEW i \in Instances, NEW v \in STATE_NEW .. STATE_DESTROYED,
         state' = [state EXCEPT ![i] = v]
  PROVE  /\ state' \in [Instances -> STATE_NEW .. STATE_DESTROYED]
         /\ state'[i] = v
         /\ \A j \in Instances \ {i} : state'[j] = state[j]
BY DEF TypeOK

\* The call returns and its lock goes.
LEMMA ReturnLocks ==
  ASSUME TypeOK, LockInv, NEW c \in Callers, Return(c)
  PROVE  /\ LockInv'
         /\ pc' \in [Callers -> Places]
         /\ cur' \in [Callers -> Instances \cup {None}]
         /\ execFuncLock' \in [Instances -> Callers \cup {None}]
         /\ pc'[c] = "idle" 
         /\ \A d \in Callers \ {c} : pc'[d] = pc[d] /\ cur'[d] = cur[d]
BY NamesAssumption DEF TypeOK, LockInv, Return, HasLock, Places, Callers

\* The call keeps what it has of the lock.
LEMMA GotoLocks ==
  ASSUME TypeOK, LockInv, NEW c \in Callers, pc[c] # "idle", NEW l, Goto(c, l),
         UNCHANGED <<cur, execFuncLock>>, pc[c] \in HasLock, l \in HasLock
  PROVE  /\ LockInv'
         /\ pc' \in [Callers -> Places]
         /\ pc'[c] = l
         /\ \A d \in Callers \ {c} : pc'[d] = pc[d]
BY DEF TypeOK, LockInv, Goto, HasLock, Places

\* The call gets the lock, which was free.
LEMMA LockedLocks ==
  ASSUME TypeOK, LockInv, NEW c \in Callers, NEW call \in {"start", "exec_main", "destroy"},
         NEW states, NEW next \in HasLock, Locked(c, call, states, next)
  PROVE  /\ LockInv'
         /\ pc' \in [Callers -> Places]
         /\ execFuncLock' \in [Instances -> Callers \cup {None}]
         /\ pc[c] = call /\ pc'[c] = next /\ execFuncLock[cur[c]] = None /\ cur[c] \in Instances
         /\ \A d \in Callers \ {c} : pc'[d] = pc[d]
BY NamesAssumption DEF TypeOK, LockInv, Locked, Goto, ExecFuncLockFree, HasLock, Places, Callers

\* The list and the loop thread's pointers stay right while no call comes near the list
\* and what is DESTROYED stays so.
LEMMA ListsKept ==
  ASSUME Inductive, UNCHANGED <<list, loopPc, it, held, doomed, freed>>,
         \A c \in Callers : pc'[c] = "listing" => pc[c] = "listing" /\ cur'[c] = cur[c],
         \A i \in Instances : state[i] = STATE_DESTROYED =>
             state'[i] = STATE_DESTROYED /\ (i \in wasm' => i \in wasm)
  PROVE  ListInv' /\ LoopInv' /\ FreedAfterTeardown'
<1>1. ListInv'
  BY DEF Inductive, ListInv
<1>2. LoopInv'
  BY DEF Inductive, LoopInv, TypeOK
<1>3. FreedAfterTeardown'
  BY DEF Inductive, FreedAfterTeardown, TypeOK
<1> QED
  BY <1>1, <1>2, <1>3

\* Nor is anything half started by a step that leaves exec envs alone.
LEMMA NoHalf ==
  ASSUME Inductive, UNCHANGED execEnv,
         \A i \in Instances : state'[i] = STATE_NEW => state[i] = STATE_NEW,
         \A c \in Callers : pc[c] = "initialize" =>
             state'[cur[c]] # STATE_NEW \/ (pc'[c] = "initialize" /\ cur'[c] = cur[c])
  PROVE  HalfInv'
<1> SUFFICES ASSUME NEW i \in execEnv, state'[i] = STATE_NEW
             PROVE  \E c \in Callers : pc'[c] = "initialize" /\ cur'[c] = i
    BY DEF HalfInv
<1>1. i \in Instances /\ state[i] = STATE_NEW
  BY DEF Inductive, TypeOK
<1>2. PICK c \in Callers : pc[c] = "initialize" /\ cur[c] = i
  BY <1>1 DEF Inductive, HalfInv
<1> QED
  BY <1>2

-----------------------------------------------------------------------------
(***************************************************************************)
(* One lemma per action.                                                   *)
(***************************************************************************)

\* The instance has no place in the list and nobody else is about to give it one.
LEMMA CreateNewStep ==
  ASSUME Inductive, NEW c \in Callers, NEW i \in Instances, CreateNew(c, i)
  PROVE  Inductive'
<1> USE NamesAssumption DEF Inductive, CreateNew, MayCall, Goto, wasmVars, loopVars
<1>1. TypeOK'
  BY DEF TypeOK
<1>2. LockInv'
  BY DEF TypeOK, LockInv, HasLock
<1>3. CallInv' /\ StateInv'
  <2>1. OnlyCall(c)
    BY DEF OnlyCall, TypeOK
  <2>2. CallOK(c)'
    BY DEF CallOK, RunsGuest, TypeOK
  <2> QED
    BY <2>1, <2>2, NoInstance
<1>4. HalfInv'
  BY NoHalf DEF TypeOK
<1>5. ListInv'
  BY DEF ListInv, LoopInv, FreedAfterTeardown, TypeOK, STATE_NEW, STATE_DESTROYED
<1>6. LoopInv' /\ FreedAfterTeardown'
  BY DEF LoopInv, FreedAfterTeardown
<1> QED
  BY <1>1, <1>2, <1>3, <1>4, <1>5, <1>6

\* It enters the list, before the loop thread can know it.
LEMMA CreateListStep ==
  ASSUME Inductive, NEW c \in Callers, CreateList(c)
  PROVE  Inductive'
<1> USE NamesAssumption DEF Inductive, CreateList, wasmVars
<1> DEFINE i == cur[c]
<1>0. /\ list \in Seq(Instances) /\ i \in Instances /\ IsInjective(list) /\ ~Contains(list, i)
      /\ held # i /\ i \notin freed
  BY DEF TypeOK, LockInv, ListInv
<1>1. /\ list' \in Seq(Instances)
      /\ IsInjective(list')
      /\ \A x : Contains(list', x) <=> Contains(list, x) \/ x = i
  BY <1>0, AppendOnce
<1>2. TypeOK'
  BY <1>1, ReturnLocks DEF TypeOK, Places, HasLock
<1>3. LockInv'
  BY ReturnLocks
<1>4. CallInv' /\ StateInv'
  <2>1. OnlyCall(c)
    BY ReturnLocks DEF OnlyCall
  <2>2. CallOK(c)'
    BY ReturnLocks DEF CallOK, RunsGuest
  <2> QED
    BY <2>1, <2>2, NoInstance
<1>5. HalfInv'
  BY NoHalf, ReturnLocks
<1>6. ListInv'
  BY <1>1, ReturnLocks DEF ListInv
<1>7. LoopInv' /\ FreedAfterTeardown'
  BY <1>0, <1>1 DEF LoopInv, FreedAfterTeardown
<1> QED
  BY <1>2, <1>3, <1>4, <1>5, <1>6, <1>7

LEMMA EnterStep ==
  ASSUME Inductive, NEW c \in Callers, NEW i \in Instances, Enter(c, i)
  PROVE  Inductive'
<1> USE NamesAssumption DEF Inductive, Enter, MayCall, Goto, wasmVars, loopVars
<1>1. TypeOK'
  BY DEF TypeOK
<1>2. LockInv'
  BY DEF TypeOK, LockInv, HasLock
<1>3. CallInv' /\ StateInv'
  <2>1. OnlyCall(c)
    BY DEF OnlyCall, TypeOK
  <2>2. CallOK(c)'
    BY DEF CallOK, RunsGuest, TypeOK
  <2> QED
    BY <2>1, <2>2, NoInstance
<1>4. HalfInv'
  BY NoHalf DEF TypeOK
<1>5. ListInv' /\ LoopInv' /\ FreedAfterTeardown'
  BY ListsKept DEF TypeOK
<1> QED
  BY <1>1, <1>2, <1>3, <1>4, <1>5

\* A call that returns without having touched the instance.
LEMMA PlainReturn ==
  ASSUME Inductive, NEW c \in Callers, Return(c), pc[c] # "initialize",
         UNCHANGED <<bRunDtor, state, wasmVars, loopVars, crashed>>,
         handle' \subseteq handle, exceptionCB' \subseteq exceptionCB \cup {cur[c]}, pc[c] # "idle"
  PROVE  Inductive'
<1> USE DEF Inductive, wasmVars, loopVars
<1>1. TypeOK'
  BY ReturnLocks DEF TypeOK, LockInv, Places, HasLock
<1>2. LockInv'
  BY ReturnLocks
<1>3. CallInv' /\ StateInv'
  <2>1. OnlyCall(c)
    BY ReturnLocks DEF OnlyCall
  <2>2. CallOK(c)'
    BY ReturnLocks DEF CallOK, RunsGuest
  <2> QED
    BY <2>1, <2>2, NoInstance
<1>4. HalfInv'
  BY NoHalf, ReturnLocks
<1>5. ListInv' /\ LoopInv' /\ FreedAfterTeardown'
  BY ListsKept, ReturnLocks
<1> QED
  BY <1>1, <1>2, <1>3, <1>4, <1>5

\* A call that gets the lock and changes nothing yet.
LEMMA PlainLocked ==
  ASSUME Inductive, NEW c \in Callers,
         \/ Locked(c, "start", Startable, "instantiate")
         \/ Locked(c, "exec_main", Runnable, "main"),
         UNCHANGED <<bRunDtor, handle, state, exceptionCB, wasmVars, loopVars, crashed>>
  PROVE  Inductive'
<1> USE DEF Inductive, wasmVars, loopVars
<1>0. PICK next \in {"instantiate", "main"} :
         /\ LockInv'
         /\ pc' \in [Callers -> Places]
         /\ execFuncLock' \in [Instances -> Callers \cup {None}]
         /\ pc[c] \notin HasLock /\ pc'[c] = next /\ cur[c] \in Instances /\ cur' = cur
         /\ \A d \in Callers \ {c} : pc'[d] = pc[d]
         /\ next = "instantiate" => state[cur[c]] = STATE_NEW
         /\ next = "main" => state[cur[c]] = STATE_STARTED
  <2>1. CASE Locked(c, "start", Startable, "instantiate")
    BY <2>1, LockedLocks DEF HasLock, Startable, Locked
  <2>2. CASE Locked(c, "exec_main", Runnable, "main")
    BY <2>2, LockedLocks DEF HasLock, Runnable, Locked
  <2> QED
    BY <2>1, <2>2
<1>1. TypeOK'
  BY <1>0 DEF TypeOK, Places, HasLock
<1>2. CallInv' /\ StateInv'
  <2>1. OnlyCall(c)
    BY <1>0 DEF OnlyCall
  <2>2. CallOK(c)'
    BY <1>0 DEF CallOK, RunsGuest, Live, StateInv, StateOK
  <2> QED
    BY <2>1, <2>2, NoInstance
<1>3. HalfInv'
  BY <1>0, NoHalf DEF HasLock
<1>4. ListInv' /\ LoopInv' /\ FreedAfterTeardown'
  BY <1>0, ListsKept
<1> QED
  BY <1>0, <1>1, <1>2, <1>3, <1>4

\* set_opt, the returns of exec_main and destroy, and the calls that are refused.
LEMMA ReturnStep ==
  ASSUME Inductive, NEW c \in Callers,
         \/ SetOpt(c) \/ ExecReturn(c) \/ DestroyUnlock(c) \/ DestroyAgain(c)
         \/ StartLock(c) /\ Refused(c, "start", Startable)
         \/ ExecLock(c) /\ Refused(c, "exec_main", Runnable)
  PROVE  Inductive'
<1>1. /\ Return(c) /\ pc[c] \notin {"idle", "initialize"}
      /\ UNCHANGED <<bRunDtor, state, wasmVars, loopVars, crashed>>
      /\ handle' \subseteq handle /\ exceptionCB' \subseteq exceptionCB \cup {cur[c]}
  BY DEF SetOpt, ExecReturn, DestroyUnlock, DestroyAgain, StartLock, ExecLock, Refused
<1> QED
  BY <1>1, PlainReturn

LEMMA LockStep ==
  ASSUME Inductive, NEW c \in Callers, StartLock(c) \/ ExecLock(c)
  PROVE  Inductive'
BY ReturnStep, PlainLocked DEF StartLock, ExecLock

\* start fails, or goes as far as _initialize: what is instantiated is that of a new
\* instance, which had none.
LEMMA InstantiateStep ==
  ASSUME Inductive, NEW c \in Callers,
         StartNoInstance(c) \/ StartNoExecEnv(c) \/ StartNoMemory(c) \/ StartInstantiate(c)
  PROVE  Inductive'
<1> USE DEF Inductive
<1>0. cur[c] \in Instances
  BY DEF LockInv, StartNoInstance, StartNoExecEnv, StartNoMemory, StartInstantiate
<1> PICK i \in Instances : i = cur[c]
  BY <1>0
<1>1. /\ pc[c] = "instantiate"
      /\ Return(c) \/ (StartInstantiate(c) /\ Goto(c, "initialize") /\ UNCHANGED <<cur, execFuncLock>>)
      /\ state' \in {state, [state EXCEPT ![i] = STATE_ENDED]}
      /\ wasm' \in {wasm \ {i}, wasm \cup {i}}
      /\ leaked' = leaked \cup ({i} \cap wasm)
      /\ execEnv' \in {execEnv, execEnv \cup {i}}
      /\ customData' \in {customData, customData \cup {i}}
      /\ exception' \in {exception, exception \ {i}}
      /\ UNCHANGED <<bRunDtor, handle, exceptionCB, loopVars, crashed>>
  BY DEF StartNoInstance, StartNoExecEnv, StartNoMemory, StartInstantiate, Instantiate
<1>2. /\ execFuncLock[i] = c /\ state[i] = STATE_NEW /\ notified[i] = 0
  <2>1. execFuncLock[i] = c /\ state[i] = STATE_NEW
    BY <1>1 DEF LockInv, HasLock, CallInv, CallOK
  <2> QED
    BY <2>1 DEF StateInv, StateOK, STATE_NEW, STATE_STARTED
<1>3. /\ LockInv'
      /\ pc' \in [Callers -> Places] /\ cur' \in [Callers -> Instances \cup {None}]
      /\ execFuncLock' \in [Instances -> Callers \cup {None}]
      /\ pc'[c] \in {"idle", "initialize"}
      /\ pc'[c] = "initialize" => StartInstantiate(c) /\ cur' = cur
      /\ StartInstantiate(c) => pc'[c] = "initialize"
      /\ \A d \in Callers \ {c} : pc'[d] = pc[d] /\ cur'[d] = cur[d]
  <2>1. CASE Return(c)
    BY <2>1, ReturnLocks DEF StartInstantiate, Goto, TypeOK
  <2>2. CASE StartInstantiate(c)
    BY <1>1, <1>2, <2>2, GotoLocks DEF HasLock, TypeOK, StartInstantiate
  <2> QED
    BY <1>1, <2>1, <2>2
<1>4. /\ state' \in [Instances -> STATE_NEW .. STATE_DESTROYED]
      /\ state'[i] \in {STATE_NEW, STATE_ENDED} /\ notified' = notified
      /\ \A j \in Instances \ {i} : state'[j] = state[j]
  <2>1. CASE state' = state
    BY <1>1, <1>2, <2>1 DEF TypeOK, loopVars
  <2>2. CASE state' = [state EXCEPT ![i] = STATE_ENDED]
    BY <1>1, <2>2, StateValues, SetState DEF loopVars
  <2> QED
    BY <1>1, <2>1, <2>2
<1>5. TypeOK'
  <2>1. {handle, exceptionCB, wasm, execEnv, customData, exception, leaked, freed}'
           \subseteq SUBSET Instances
    BY <1>1, <1>2 DEF TypeOK, loopVars
  <2> QED
    BY <1>1, <1>3, <1>4, <2>1 DEF TypeOK, Places, HasLock, loopVars
<1>6. CallInv' /\ StateInv'
  <2>1. OnlyCall(c)
    BY <1>1, <1>3 DEF OnlyCall
  <2>2. OnlyIn(i)
    BY <1>1, <1>4 DEF OnlyIn, Live
  <2>3. CallOK(c)'
    <3>1. pc'[c] = "initialize" => i \in Live' /\ state'[i] = state[i]
      BY <1>3 DEF StartInstantiate, Instantiate, Live
    <3> QED
      BY <1>2, <1>3, <3>1 DEF CallOK, RunsGuest
  <2>4. StateOK(i)'
    BY <1>2, <1>4 DEF StateOK, STATE_NEW, STATE_STARTED, STATE_ENDED, STATE_DESTROYED
  <2> QED
    BY <1>1, <1>2, <2>1, <2>2, <2>3, <2>4, OwnInstance
<1>7. HalfInv'
  <2>1. i \notin execEnv
    BY <1>1, <1>2, Alone DEF HalfInv, HasLock
  <2>2. i \in execEnv' /\ state'[i] = STATE_NEW => StartInstantiate(c)
    <3>1. StartNoInstance(c) \/ StartNoExecEnv(c) => i \notin execEnv'
      BY <2>1 DEF StartNoInstance, StartNoExecEnv
    <3>2. StartNoMemory(c) => state'[i] # STATE_NEW
      BY StateValues, SetState DEF StartNoMemory
    <3> QED
      BY <3>1, <3>2
  <2>3. ASSUME NEW j \in execEnv', state'[j] = STATE_NEW
        PROVE  \E d \in Callers : pc'[d] = "initialize" /\ cur'[d] = j
    <3>1. CASE j = i
      BY <1>3, <2>2, <2>3, <3>1
    <3>2. CASE j # i
      <4>1. j \in execEnv /\ state[j] = STATE_NEW
        BY <1>1, <1>4, <2>3, <3>2 DEF TypeOK
      <4>2. PICK d \in Callers : pc[d] = "initialize" /\ cur[d] = j
        BY <4>1 DEF HalfInv
      <4> QED
        BY <1>1, <1>3, <4>2
    <3> QED
      BY <3>1, <3>2
  <2> QED
    BY <2>3 DEF HalfInv
<1>8. ListInv' /\ LoopInv' /\ FreedAfterTeardown'
  <2>1. UNCHANGED <<list, loopPc, it, held, doomed, freed>>
    BY <1>1 DEF loopVars
  <2>2. \A d \in Callers : pc'[d] = "listing" => pc[d] = "listing" /\ cur'[d] = cur[d]
    BY <1>3
  <2>3. \A j \in Instances : state[j] = STATE_DESTROYED =>
             state'[j] = STATE_DESTROYED /\ (j \in wasm' => j \in wasm)
    BY <1>1, <1>2, <1>4 DEF STATE_NEW, STATE_DESTROYED
  <2> QED
    BY <2>1, <2>2, <2>3, ListsKept
<1> QED
  BY <1>3, <1>5, <1>6, <1>7, <1>8

\* _initialize has ended, STARTED or ENDED.
LEMMA InitializedStep ==
  ASSUME Inductive, NEW c \in Callers, StartDone(c) \/ StartTrap(c)
  PROVE  Inductive'
<1> USE DEF Inductive
<1>0. cur[c] \in Instances
  BY DEF LockInv, StartDone, StartTrap
<1> PICK i \in Instances : i = cur[c]
  BY <1>0
<1>1. /\ pc[c] = "initialize" /\ Return(c)
      /\ \/ state' = [state EXCEPT ![i] = STATE_STARTED]
         \/ state' = [state EXCEPT ![i] = STATE_ENDED]
      /\ exception' \in {exception, exception \cup {i}}
      /\ UNCHANGED <<bRunDtor, handle, exceptionCB, wasm, execEnv, customData, leaked, loopVars, crashed>>
  BY DEF StartDone, StartTrap, wasmVars
<1>2. /\ execFuncLock[i] = c /\ state[i] = STATE_NEW /\ i \in Live
      /\ notified[i] = 0
  <2>1. execFuncLock[i] = c /\ state[i] = STATE_NEW /\ i \in Live
    BY <1>1 DEF LockInv, HasLock, CallInv, CallOK, RunsGuest
  <2> QED
    BY <2>1 DEF StateInv, StateOK, STATE_NEW, STATE_STARTED
<1>3. /\ state' \in [Instances -> STATE_NEW .. STATE_DESTROYED]
      /\ state'[i] \in {STATE_STARTED, STATE_ENDED} /\ notified' = notified
      /\ \A j \in Instances \ {i} : state'[j] = state[j]
  BY <1>1, StateValues, SetState DEF loopVars
<1>4. TypeOK' /\ LockInv'
  <2>1. {handle, exceptionCB, wasm, execEnv, customData, exception, leaked, freed}'
           \subseteq SUBSET Instances
    BY <1>1, <1>2 DEF TypeOK, loopVars
  <2> QED
    BY <1>1, <1>3, <2>1, ReturnLocks DEF TypeOK, Places, HasLock, loopVars
<1>5. CallInv' /\ StateInv'
  <2>1. OnlyCall(c)
    BY <1>1, ReturnLocks DEF OnlyCall
  <2>2. OnlyIn(i)
    BY <1>1, <1>3 DEF OnlyIn, Live
  <2>3. CallOK(c)'
    BY <1>1, ReturnLocks DEF CallOK, RunsGuest
  <2>4. StateOK(i)'
    BY <1>1, <1>2, <1>3 DEF StateOK, Live, STATE_NEW, STATE_STARTED, STATE_ENDED, STATE_DESTROYED
  <2> QED
    BY <1>1, <1>2, <2>1, <2>2, <2>3, <2>4, OwnInstance
<1>6. HalfInv'
  <2>1. state'[i] # STATE_NEW
    BY <1>3 DEF STATE_NEW, STATE_STARTED, STATE_ENDED
  <2> QED
    BY <1>1, <1>2, <1>3, <2>1, NoHalf, ReturnLocks
<1>7. ListInv' /\ LoopInv' /\ FreedAfterTeardown'
  <2>1. UNCHANGED <<list, loopPc, it, held, doomed, freed>>
    BY <1>1 DEF loopVars
  <2>2. \A d \in Callers : pc'[d] = "listing" => pc[d] = "listing" /\ cur'[d] = cur[d]
    BY <1>1, ReturnLocks
  <2>3. \A j \in Instances : state[j] = STATE_DESTROYED =>
             state'[j] = STATE_DESTROYED /\ (j \in wasm' => j \in wasm)
    BY <1>1, <1>2, <1>3 DEF STATE_NEW, STATE_DESTROYED
  <2> QED
    BY <2>1, <2>2, <2>3, ListsKept
<1> QED
  BY <1>4, <1>5, <1>6, <1>7

\* A trap writes the exception alone; a null pointer or a deleted instance ends the
\* process.
LEMMA TrapOrCrashStep ==
  ASSUME Inductive,
         \/ \E i \in Instances : GuestTrap(i)
         \/ \E c \in Callers : DestroyCleanupNull(c) \/ UseAfterFree(c)
  PROVE  Inductive'
<1>1. UNCHANGED <<callVars, handle, state, exceptionCB, wasm, execEnv, customData, leaked,
                  execFuncLock, loopVars>>
  BY DEF GuestTrap, DestroyCleanupNull, UseAfterFree, wasmVars
<1>2. exception' \in SUBSET Instances /\ crashed' \in BOOLEAN
  BY DEF Inductive, TypeOK, GuestTrap, DestroyCleanupNull, UseAfterFree, wasmVars
<1>3. TypeOK'
  BY <1>1, <1>2 DEF Inductive, TypeOK, callVars, loopVars
<1>4. LockInv' /\ CallInv' /\ StateInv' /\ HalfInv'
  BY <1>1 DEF Inductive, LockInv, CallInv, CallOK, RunsGuest, StateInv, StateOK, HalfInv, Live,
     callVars, loopVars
<1>5. ListInv' /\ LoopInv' /\ FreedAfterTeardown'
  BY <1>1 DEF Inductive, ListInv, LoopInv, FreedAfterTeardown, callVars, loopVars
<1> QED
  BY <1>3, <1>4, <1>5 DEF Inductive

\* destroy gets the lock: what was STARTED is complete, and bRunDtor says so.
LEMMA DestroyLockStep ==
  ASSUME Inductive, NEW c \in Callers, DestroyLock(c)
  PROVE  Inductive'
<1> USE DEF Inductive
<1>0. cur[c] \in Instances
  BY DEF LockInv, DestroyLock, Locked
<1> PICK i \in Instances : i = cur[c]
  BY <1>0
<1>1. /\ Locked(c, "destroy", STATE_NEW .. STATE_ENDED, "cleanup")
      /\ bRunDtor' = [bRunDtor EXCEPT ![c] = state[i] = STATE_STARTED]
      /\ state' = [state EXCEPT ![i] = STATE_DESTROYING]
      /\ state[i] \in STATE_NEW .. STATE_ENDED /\ cur' = cur
      /\ UNCHANGED <<handle, exceptionCB, wasmVars, loopVars, crashed>>
  BY DEF DestroyLock, MarkDestroying, Locked
<1>2. /\ LockInv'
      /\ pc' \in [Callers -> Places]
      /\ execFuncLock' \in [Instances -> Callers \cup {None}]
      /\ pc[c] = "destroy" /\ pc'[c] = "cleanup" /\ execFuncLock[i] = None
      /\ \A d \in Callers \ {c} : pc'[d] = pc[d]
  BY <1>1, LockedLocks DEF HasLock
<1>3. /\ state' \in [Instances -> STATE_NEW .. STATE_DESTROYED]
      /\ state'[i] = STATE_DESTROYING
      /\ \A j \in Instances \ {i} : state'[j] = state[j]
  BY <1>1, StateValues, SetState
<1>4. /\ bRunDtor' \in [Callers -> BOOLEAN]
      /\ bRunDtor'[c] <=> state[i] = STATE_STARTED
      /\ \A d \in Callers \ {c} : bRunDtor'[d] = bRunDtor[d]
  BY <1>1 DEF TypeOK
<1>5. TypeOK'
  BY <1>1, <1>2, <1>3, <1>4 DEF TypeOK, Places, HasLock, wasmVars, loopVars
<1>6. CallInv' /\ StateInv'
  <2>1. OnlyCall(c)
    BY <1>1, <1>2, <1>4 DEF OnlyCall
  <2>2. OnlyIn(i)
    BY <1>1, <1>3 DEF OnlyIn, Live, wasmVars, loopVars
  <2>3. RunsGuest(c)' => i \in Live'
    BY <1>1, <1>2, <1>4 DEF RunsGuest, StateInv, StateOK, Live, wasmVars
  <2>4. CallOK(c)'
    BY <1>1, <1>2, <1>3, <2>3 DEF CallOK
  <2>5. StateOK(i)'
    BY <1>1, <1>3 DEF StateInv, StateOK, STATE_STARTED, STATE_DESTROYING, STATE_DESTROYED, loopVars
  <2> QED
    BY <1>2, <2>1, <2>2, <2>4, <2>5, OwnInstance
<1>7. HalfInv'
  BY <1>1, <1>2, <1>3, NoHalf DEF wasmVars, STATE_NEW, STATE_DESTROYING
<1>8. ListInv' /\ LoopInv' /\ FreedAfterTeardown'
  <2>1. UNCHANGED <<list, loopPc, it, held, doomed, freed, wasm>>
    BY <1>1 DEF loopVars, wasmVars
  <2>2. \A d \in Callers : pc'[d] = "listing" => pc[d] = "listing" /\ cur'[d] = cur[d]
    BY <1>1, <1>2
  <2>3. \A j \in Instances : state[j] = STATE_DESTROYED => state'[j] = STATE_DESTROYED
    BY <1>1, <1>3 DEF STATE_NEW, STATE_ENDED, STATE_DESTROYED
  <2> QED
    BY <2>1, <2>2, <2>3, ListsKept
<1> QED
  BY <1>2, <1>5, <1>6, <1>7, <1>8

\* destroy frees the exec env and the wasm instance, and nobody runs in them.
LEMMA DestroyFreeStep ==
  ASSUME Inductive, NEW c \in Callers, DestroyCleanup(c) \/ DestroyTeardown(c)
  PROVE  Inductive'
<1> USE DEF Inductive
<1>0. cur[c] \in Instances
  BY DEF LockInv, DestroyCleanup, DestroyTeardown
<1> PICK i \in Instances : i = cur[c]
  BY <1>0
<1>1. /\ \/ pc[c] = "cleanup" /\ Goto(c, "teardown") /\ UNCHANGED wasmVars
         \/ /\ pc[c] = "teardown" /\ Goto(c, "mark")
            /\ wasm' = wasm \ {i} /\ execEnv' = execEnv \ {i} /\ customData' = customData \ {i}
            /\ exception' = exception \ {i} /\ leaked' = leaked
      /\ UNCHANGED <<cur, bRunDtor, handle, state, exceptionCB, execFuncLock, loopVars, crashed>>
  BY DEF DestroyCleanup, DestroyTeardown
<1>2. state[i] = STATE_DESTROYING /\ execFuncLock[i] = c
  BY <1>1 DEF LockInv, HasLock, CallInv, CallOK
<1>3. /\ LockInv'
      /\ pc' \in [Callers -> Places]
      /\ pc'[c] = IF pc[c] = "cleanup" THEN "teardown" ELSE "mark"
      /\ \A d \in Callers \ {c} : pc'[d] = pc[d]
  BY <1>1, GotoLocks DEF HasLock
<1>4. TypeOK'
  BY <1>1, <1>3 DEF TypeOK, Places, HasLock, wasmVars, loopVars
<1>5. CallInv' /\ StateInv'
  <2>1. OnlyCall(c)
    BY <1>1, <1>3 DEF OnlyCall
  <2>2. OnlyIn(i)
    BY <1>1 DEF OnlyIn, Live, wasmVars, loopVars
  <2>3. CallOK(c)'
    <3>1. CASE pc[c] = "cleanup"
      BY <1>1, <1>2, <1>3, <3>1 DEF CallInv, CallOK, RunsGuest, Live, wasmVars
    <3>2. CASE pc[c] = "teardown"
      BY <1>1, <1>2, <1>3, <3>2 DEF CallOK, RunsGuest
    <3> QED
      BY <1>1, <3>1, <3>2
  <2>4. StateOK(i)'
    BY <1>1, <1>2 DEF StateInv, StateOK, STATE_STARTED, STATE_DESTROYING, STATE_DESTROYED, loopVars
  <2> QED
    BY <1>1, <1>2, <2>1, <2>2, <2>3, <2>4, OwnInstance
<1>6. HalfInv'
  <2>1. execEnv' \subseteq execEnv /\ state' = state
    BY <1>1 DEF wasmVars
  <2>2. \A d \in Callers : pc[d] = "initialize" => pc'[d] = "initialize" /\ cur'[d] = cur[d]
    BY <1>1, <1>3
  <2> QED
    BY <2>1, <2>2 DEF HalfInv
<1>7. ListInv' /\ LoopInv' /\ FreedAfterTeardown'
  <2>1. UNCHANGED <<list, loopPc, it, held, doomed, freed, state>> /\ wasm' \subseteq wasm
    BY <1>1 DEF loopVars, wasmVars
  <2>2. \A d \in Callers : pc'[d] = "listing" => pc[d] = "listing" /\ cur'[d] = cur[d]
    BY <1>1, <1>3
  <2> QED
    BY <2>1, <2>2, ListsKept
<1> QED
  BY <1>3, <1>4, <1>5, <1>6, <1>7

\* DESTROYED comes after the wasm instance has gone.
LEMMA DestroyMarkStep ==
  ASSUME Inductive, NEW c \in Callers, DestroyMark(c)
  PROVE  Inductive'
<1> USE DEF Inductive
<1>0. cur[c] \in Instances
  BY DEF LockInv, DestroyMark
<1> PICK i \in Instances : i = cur[c]
  BY <1>0
<1>1. /\ pc[c] = "mark" /\ Goto(c, "unlock")
      /\ state' = [state EXCEPT ![i] = STATE_DESTROYED]
      /\ handle' = handle \ {i}
      /\ UNCHANGED <<cur, bRunDtor, exceptionCB, wasmVars, execFuncLock, loopVars, crashed>>
  BY DEF DestroyMark
<1>2. state[i] = STATE_DESTROYING /\ execFuncLock[i] = c /\ i \notin wasm
  BY <1>1 DEF LockInv, HasLock, CallInv, CallOK
<1>3. /\ LockInv'
      /\ pc' \in [Callers -> Places]
      /\ pc'[c] = "unlock"
      /\ \A d \in Callers \ {c} : pc'[d] = pc[d]
  BY <1>1, GotoLocks DEF HasLock
<1>4. /\ state' \in [Instances -> STATE_NEW .. STATE_DESTROYED]
      /\ state'[i] = STATE_DESTROYED
      /\ \A j \in Instances \ {i} : state'[j] = state[j]
  BY <1>1, StateValues, SetState
<1>5. TypeOK'
  BY <1>1, <1>3, <1>4 DEF TypeOK, Places, HasLock, wasmVars, loopVars
<1>6. CallInv' /\ StateInv'
  <2>1. OnlyCall(c)
    BY <1>1, <1>3 DEF OnlyCall
  <2>2. OnlyIn(i)
    BY <1>1, <1>4 DEF OnlyIn, Live, wasmVars, loopVars
  <2>3. CallOK(c)'
    BY <1>1, <1>3, <1>4 DEF CallOK, RunsGuest
  <2>4. StateOK(i)'
    BY <1>1, <1>2, <1>4 DEF StateInv, StateOK, STATE_STARTED, STATE_DESTROYED, wasmVars, loopVars
  <2> QED
    BY <1>1, <1>2, <2>1, <2>2, <2>3, <2>4, OwnInstance
<1>7. HalfInv'
  BY <1>1, <1>3, <1>4, NoHalf DEF wasmVars, STATE_NEW, STATE_DESTROYED
<1>8. ListInv' /\ LoopInv' /\ FreedAfterTeardown'
  <2>1. UNCHANGED <<list, loopPc, it, held, doomed, freed, wasm>>
    BY <1>1 DEF loopVars, wasmVars
  <2>2. \A d \in Callers : pc'[d] = "listing" => pc[d] = "listing" /\ cur'[d] = cur[d]
    BY <1>1, <1>3
  <2>3. \A j \in Instances : state[j] = STATE_DESTROYED => state'[j] = STATE_DESTROYED
    BY <1>4
  <2> QED
    BY <2>1, <2>2, <2>3, ListsKept
<1> QED
  BY <1>3, <1>5, <1>6, <1>7, <1>8

-----------------------------------------------------------------------------
(***************************************************************************)
(* The loop thread.                                                        *)
(***************************************************************************)

\* No call notices a step of the loop thread that leaves the states alone.
LEMMA LoopOnly ==
  ASSUME Inductive,
         UNCHANGED <<callVars, state, wasm, execEnv, customData, leaked, execFuncLock, notified>>
  PROVE  LockInv' /\ CallInv' /\ StateInv' /\ HalfInv'
BY DEF Inductive, LockInv, CallInv, CallOK, RunsGuest, StateInv, StateOK, HalfInv, Live, callVars

LEMMA LoopBeginStep ==
  ASSUME Inductive, LoopBegin
  PROVE  Inductive'
<1> USE DEF Inductive, LoopBegin
<1>1. Head(list) \in Instances /\ Contains(list, Head(list))
  BY LenProperties, EmptySeq, HeadTailProperties DEF TypeOK, Contains
<1>2. TypeOK'
  BY <1>1 DEF TypeOK, callVars, wasmVars
<1>3. LockInv' /\ CallInv' /\ StateInv' /\ HalfInv'
  BY LoopOnly DEF wasmVars
<1>4. ListInv' /\ FreedAfterTeardown'
  BY DEF ListInv, FreedAfterTeardown, callVars, wasmVars
<1>5. LoopInv'
  BY <1>1 DEF LoopInv
<1> QED
  BY <1>2, <1>3, <1>4, <1>5

LEMMA LoopCallbackEndStep ==
  ASSUME Inductive, LoopCallbackEnd
  PROVE  Inductive'
<1> USE DEF Inductive, LoopCallbackEnd
<1>1. TypeOK'
  BY DEF TypeOK, callVars, wasmVars
<1>2. LockInv' /\ CallInv' /\ StateInv' /\ HalfInv'
  BY LoopOnly DEF wasmVars
<1>3. ListInv' /\ FreedAfterTeardown'
  BY DEF ListInv, FreedAfterTeardown, callVars, wasmVars
<1>4. LoopInv'
  BY DEF LoopInv
<1> QED
  BY <1>1, <1>2, <1>3, <1>4

\* The pointer that is dropped is that of no instance of the list, so of one that is
\* DESTROYED; a running instance with an exception has ended and is told of once.
LEMMA LoopVisitStep ==
  ASSUME Inductive, LoopVisit
  PROVE  Inductive'
<1> USE NamesAssumption DEF Inductive
<1>1. /\ loopPc = "visit" /\ held' = it /\ freed' = freed \cup Dropped(list)
      /\ LoopReport \/ LoopPass
      /\ UNCHANGED <<callVars, handle, exceptionCB, wasmVars, execFuncLock, list, it, crashed>>
  BY DEF LoopVisit
<1>2. it \in Instances /\ Contains(list, it)
  BY <1>1 DEF LoopInv
<1>3. \A i \in Dropped(list) :
         i \in Instances /\ i = held /\ state[i] = STATE_DESTROYED /\ i \notin wasm /\ ~Contains(list, i)
  BY DEF Dropped, LoopInv, StateInv, StateOK, TypeOK
<1>4. /\ state' \in [Instances -> STATE_NEW .. STATE_DESTROYED]
      /\ notified' \in [Instances -> Nat]
      /\ \A i \in Instances \ {it} : state'[i] = state[i] /\ notified'[i] = notified[i]
      /\ \/ state' = state /\ notified' = notified
         \/ /\ state[it] = STATE_STARTED /\ state'[it] = STATE_ENDED
            /\ notified'[it] \in {notified[it], notified[it] + 1}
  <2>1. CASE LoopReport
    <3>1. state' = [state EXCEPT ![it] = STATE_ENDED]
      BY <2>1 DEF LoopReport, MarkEnded
    <3>2. /\ state' \in [Instances -> STATE_NEW .. STATE_DESTROYED] /\ state'[it] = STATE_ENDED
          /\ \A i \in Instances \ {it} : state'[i] = state[i]
      BY <1>2, <3>1, StateValues, SetState
    <3>3. /\ notified' \in [Instances -> Nat]
          /\ \A i \in Instances \ {it} : notified'[i] = notified[i]
          /\ notified'[it] \in {notified[it], notified[it] + 1}
      BY <1>2, <2>1 DEF LoopReport, TypeOK
    <3> QED
      BY <2>1, <3>2, <3>3 DEF LoopReport
  <2>2. CASE LoopPass
    BY <2>2 DEF LoopPass, TypeOK
  <2> QED
    BY <1>1, <2>1, <2>2
<1>5. doomed' \in BOOLEAN /\ loopPc' \in {"callback", "advance"}
  BY <1>1 DEF LoopReport, LoopPass, Destroyed
<1>6. TypeOK'
  <2>1. freed' \in SUBSET Instances
    BY <1>1, <1>3 DEF TypeOK
  <2> QED
    BY <1>1, <1>2, <1>4, <1>5, <2>1 DEF TypeOK, callVars, wasmVars
<1>7. LockInv'
  BY <1>1 DEF LockInv, callVars
<1>8. CallInv'
  <2> SUFFICES ASSUME NEW c \in Callers PROVE CallOK(c)'
    BY DEF CallInv
  <2>1. RunsGuest(c)' => cur'[c] \in Live'
    BY <1>1 DEF CallInv, CallOK, RunsGuest, Live, callVars, wasmVars
  <2>2. CASE cur[c] = it
    BY <1>1, <1>2, <1>4, <2>1, <2>2
    DEF CallInv, CallOK, callVars, wasmVars, STATE_NEW, STATE_STARTED, STATE_ENDED, STATE_DESTROYING,
        STATE_DESTROYED
  <2>3. CASE cur[c] # it
    BY <1>1, <1>4, <2>1, <2>3 DEF CallInv, CallOK, LockInv, HasLock, callVars, wasmVars
  <2> QED
    BY <2>2, <2>3
<1>9. StateInv'
  BY <1>1, <1>2, <1>4 DEF StateInv, StateOK, Live, TypeOK, wasmVars, STATE_STARTED, STATE_ENDED,
     STATE_DESTROYED
<1>10. HalfInv'
  <2>1. \A i \in Instances : state'[i] = STATE_NEW => state[i] = STATE_NEW
    BY <1>4 DEF STATE_NEW, STATE_ENDED
  <2> QED
    BY <1>1, <2>1, NoHalf DEF callVars, wasmVars
<1>11. ListInv'
  BY <1>1, <1>2, <1>3 DEF ListInv, callVars
<1>12. LoopInv'
  BY <1>1, <1>2, <1>5 DEF LoopInv, LoopReport, LoopPass, Destroyed
<1>13. FreedAfterTeardown'
  <2>1. \A i \in Instances : state[i] = STATE_DESTROYED => state'[i] = STATE_DESTROYED
    BY <1>4 DEF STATE_STARTED, STATE_DESTROYED
  <2> QED
    BY <1>1, <1>3, <2>1 DEF FreedAfterTeardown, TypeOK, wasmVars
<1> QED
  BY <1>6, <1>7, <1>8, <1>9, <1>10, <1>11, <1>12, <1>13

\* What leaves the list is DESTROYED, and the iterator is on another instance by then.
LEMMA LoopAdvanceStep ==
  ASSUME Inductive, LoopAdvance
  PROVE  Inductive'
<1> USE NamesAssumption DEF Inductive
<1>1. /\ loopPc = "advance" /\ it' = Following(it)
      /\ list' = IF doomed THEN RemoveAt(list, Position(it)) ELSE list
      /\ \/ it' = None /\ loopPc' = "idle" /\ held' = None /\ freed' = freed \cup Dropped(list')
         \/ it' # None /\ loopPc' = "visit" /\ held' = held /\ freed' = freed
      /\ UNCHANGED <<callVars, handle, state, exceptionCB, wasmVars, execFuncLock, doomed,
                     notified, crashed>>
  BY DEF LoopAdvance
<1>2. /\ it \in Instances /\ Contains(list, it) /\ held = it
      /\ doomed => state[it] = STATE_DESTROYED
  BY <1>1 DEF LoopInv
<1>3. /\ Position(it) \in 1 .. Len(list) /\ list[Position(it)] = it
      /\ it' # None => it' \in Instances /\ Contains(list, it') /\ it' # it
  BY <1>1, <1>2, IteratorInList
<1>4. /\ list' \in Seq(Instances)
      /\ IsInjective(list')
      /\ \A x : Contains(list', x) => Contains(list, x)
      /\ \A x : Contains(list, x) /\ ~Contains(list', x) => doomed /\ x = it
  <2>1. list \in Seq(Instances) /\ IsInjective(list)
    BY DEF TypeOK, ListInv
  <2>2. CASE doomed
    BY <1>1, <1>3, <2>1, <2>2, RemoveOnce
  <2>3. CASE ~doomed
    BY <1>1, <2>1, <2>3
  <2> QED
    BY <2>2, <2>3
<1>5. it' # None => Contains(list', it')
  BY <1>3, <1>4
<1>6. \A i \in freed' : i \in freed \/ (i = it /\ state[i] = STATE_DESTROYED /\ ~Contains(list', i))
  BY <1>1, <1>2, <1>4 DEF Dropped
<1>7. TypeOK'
  <2>1. freed' \in SUBSET Instances
    BY <1>2, <1>6 DEF TypeOK
  <2> QED
    BY <1>1, <1>3, <1>4, <2>1 DEF TypeOK, callVars, wasmVars
<1>8. LockInv' /\ CallInv' /\ StateInv' /\ HalfInv'
  BY <1>1, LoopOnly DEF wasmVars
<1>9. ListInv'
  <2>1. \A c \in Callers : pc[c] = "listing" => cur[c] # it
    BY <1>2 DEF ListInv
  <2>2. \A c \in Callers : pc[c] = "listing" => cur[c] # None
    BY DEF LockInv
  <2> QED
    BY <1>1, <1>2, <1>4, <1>6, <2>1, <2>2 DEF ListInv, callVars
<1>10. LoopInv'
  BY <1>1, <1>2, <1>3, <1>4, <1>5 DEF LoopInv
<1>11. FreedAfterTeardown'
  BY <1>1, <1>2, <1>4, <1>6 DEF FreedAfterTeardown, StateInv, StateOK, TypeOK, wasmVars
<1> QED
  BY <1>7, <1>8, <1>9, <1>10, <1>11

-----------------------------------------------------------------------------
LEMMA NextInductive == Inductive /\ [Next]_vars => Inductive'
<1> SUFFICES ASSUME Inductive, [Next]_vars PROVE Inductive'
    OBVIOUS
<1>1. ASSUME NEW c \in Callers, CallStep(c) PROVE Inductive'
  BY <1>1, CreateListStep, ReturnStep, LockStep, InstantiateStep, DestroyLockStep, DestroyFreeStep,
     DestroyMarkStep, TrapOrCrashStep DEF CallStep
<1>2. ASSUME NEW c \in Callers, GuestReturns(c) PROVE Inductive'
  BY <1>2, InitializedStep, ReturnStep DEF GuestReturns
<1>3. ASSUME NEW c \in Callers, NEW i \in Instances, CreateNew(c, i) \/ Enter(c, i) PROVE Inductive'
  BY <1>3, CreateNewStep, EnterStep
<1>4. ASSUME NEW i \in Instances, GuestTrap(i) PROVE Inductive'
  BY <1>4, TrapOrCrashStep
<1>5. CASE LoopStep
  BY <1>5, LoopBeginStep, LoopVisitStep, LoopCallbackEndStep, LoopAdvanceStep DEF LoopStep
<1>6. CASE UNCHANGED vars
  <2>1. TypeOK'
    BY <1>6 DEF vars, callVars, wasmVars, loopVars, Inductive, TypeOK
  <2>2. LockInv' /\ CallInv' /\ StateInv' /\ HalfInv'
    BY <1>6, LoopOnly DEF vars, wasmVars, loopVars
  <2>3. ListInv' /\ LoopInv' /\ FreedAfterTeardown'
    BY <1>6 DEF vars, callVars, wasmVars, loopVars, Inductive, ListInv, LoopInv, FreedAfterTeardown
  <2> QED
    BY <2>1, <2>2, <2>3 DEF Inductive
<1> QED
  BY <1>1, <1>2, <1>3, <1>4, <1>5, <1>6 DEF Next

LEMMA AlwaysInductive == Spec => []Inductive
BY InitInductive, NextInductive, PTL DEF Spec

-----------------------------------------------------------------------------
\* Every variable keeps its type.
THEOREM TypeCorrect == Spec => []TypeOK
<1>1. Inductive => TypeOK
  BY DEF Inductive
<1> QED
  BY <1>1, AlwaysInductive, PTL

\* The loop thread, which looks at the exception of a STARTED instance without
\* execFuncLock, finds a wasm instance there, whatever start and destroy do meanwhile.
THEOREM LoopFindsWasm == Spec => []StartedIsLive
<1>1. Inductive => StartedIsLive
  BY DEF Inductive, StateInv, StateOK, StartedIsLive, Live
<1> QED
  BY <1>1, AlwaysInductive, PTL

\* Guest code of the main exec env runs in one call at a time, in a complete wasm
\* instance: of two calls that run it, both would have execFuncLock.
THEOREM GuestIsAlone == Spec => []GuestRunsAlone
<1>1. ASSUME Inductive, NEW c \in Callers, RunsGuest(c)
      PROVE  /\ cur[c] \in wasm \cap execEnv \cap customData
             /\ \A d \in Callers \ {c} : RunsGuest(d) => cur[d] # cur[c]
  <2>1. \A d \in Callers : RunsGuest(d) => pc[d] \in HasLock
    BY DEF RunsGuest, HasLock
  <2>2. execFuncLock[cur[c]] = c /\ pc[c] # "idle"
    BY <1>1, <2>1 DEF Inductive, LockInv, HasLock
  <2>3. \A d \in Callers \ {c} : RunsGuest(d) => cur[d] # cur[c]
    BY <1>1, <2>1, <2>2, Alone
  <2> QED
    BY <1>1, <2>3 DEF Inductive, CallInv, CallOK, Live
<1>2. Inductive => GuestRunsAlone
  BY <1>1 DEF GuestRunsAlone
<1> QED
  BY <1>2, AlwaysInductive, PTL

\* The user is told at most once, however often the routine and the embedder go on.
THEOREM ToldOnce == Spec => []CallbackOnce
<1>1. Inductive => CallbackOnce
  BY DEF Inductive, StateInv, StateOK, CallbackOnce
<1> QED
  BY <1>1, AlwaysInductive, PTL

\* The loop thread deletes what destroy has torn down and the list does not hold.
THEOREM DeletedLast == Spec => []FreedAfterTeardown
<1>1. Inductive => FreedAfterTeardown
  BY DEF Inductive
<1> QED
  BY <1>1, AlwaysInductive, PTL

\* A wasm instance is lost in one way only: start instantiates a new one where an
\* earlier start failed between the wasm instance and the exec env.  Whatever other
\* calls fail or are repeated, start finds a NEW instance without an exec env.
THEOREM LostByHalfStart == Spec => LostByHalfStartOnly
<1>1. ASSUME Inductive, [Next]_vars
      PROVE  \A i \in leaked' \ leaked : i \in wasm \ execEnv
  <2> DEFINE Half == \A i \in leaked' \ leaked : i \in wasm \ execEnv
  <2>1. ASSUME NEW c \in Callers,
               StartNoInstance(c) \/ StartNoExecEnv(c) \/ StartNoMemory(c) \/ StartInstantiate(c)
        PROVE  Half
    <3>1. leaked' = leaked \cup ({cur[c]} \cap wasm) /\ pc[c] = "instantiate"
      BY <2>1 DEF StartNoInstance, StartNoExecEnv, StartNoMemory, StartInstantiate, Instantiate
    <3>2. cur[c] \in Instances /\ state[cur[c]] = STATE_NEW /\ execFuncLock[cur[c]] = c
      BY <1>1, <3>1 DEF Inductive, LockInv, HasLock, CallInv, CallOK
    <3>3. cur[c] \notin execEnv
      BY <1>1, <3>1, <3>2, Alone DEF Inductive, HalfInv, HasLock
    <3> QED
      BY <3>1, <3>3
  <2>2. ASSUME UNCHANGED leaked PROVE Half
    BY <2>2
  <2>3. ASSUME NEW c \in Callers, CallStep(c) \/ GuestReturns(c) PROVE Half
    <3>1. \/ UNCHANGED leaked
          \/ StartNoInstance(c) \/ StartNoExecEnv(c) \/ StartNoMemory(c) \/ StartInstantiate(c)
      BY <2>3 DEF CallStep, GuestReturns, CreateList, SetOpt, StartLock, ExecLock, DestroyLock,
         DestroyAgain, DestroyCleanup, DestroyCleanupNull, DestroyTeardown, DestroyMark, DestroyUnlock,
         UseAfterFree, StartDone, StartTrap, ExecReturn, wasmVars
    <3> QED
      BY <2>1, <2>2, <3>1
  <2>4. ASSUME \/ \E c \in Callers, i \in Instances : CreateNew(c, i) \/ Enter(c, i)
               \/ \E i \in Instances : GuestTrap(i)
               \/ LoopStep \/ UNCHANGED vars
        PROVE  Half
    <3>1. UNCHANGED leaked
      BY <2>4 DEF CreateNew, Enter, GuestTrap, LoopStep, LoopBegin, LoopVisit, LoopCallbackEnd,
         LoopAdvance, vars, wasmVars
    <3> QED
      BY <2>2, <3>1
  <2> QED
    BY <1>1, <2>3, <2>4 DEF Next
<1>2. Inductive /\ [Next]_vars => [\A i \in leaked' \ leaked : i \in wasm \ execEnv]_vars
  BY <1>1
<1> QED
  BY <1>2, AlwaysInductive, PTL DEF Spec, LostByHalfStartOnly

\* A write that goes forward.
LEMMA ForwardWrite ==
  ASSUME TypeOK, NEW i \in Instances, NEW v \in STATE_NEW .. STATE_DESTROYED,
         state' = [state EXCEPT ![i] = v], state[i] <= v
  PROVE  \A j \in Instances : state'[j] >= state[j]
<1>1. \A j \in Instances : state[j] \in STATE_NEW .. STATE_DESTROYED
  BY DEF TypeOK
<1>2. state'[i] = v /\ \A j \in Instances \ {i} : state'[j] = state[j]
  BY SetState
<1> QED
  BY <1>1, <1>2 DEF STATE_NEW, STATE_DESTROYED

\* No thread takes the state of an instance back, though two locks guard it: each write
\* goes forward from the state its writer has seen, which nobody has moved on.
THEOREM OnlyForward == Spec => StateForward
<1>1. ASSUME Inductive, [Next]_vars
      PROVE  \A i \in Instances : state'[i] >= state[i]
  <2> DEFINE Forward == \A i \in Instances : state'[i] >= state[i]
  <2>1. \A i \in Instances : state[i] \in Int /\ state[i] \in STATE_NEW .. STATE_DESTROYED
    BY <1>1 DEF Inductive, TypeOK, STATE_NEW, STATE_DESTROYED
  <2>2. UNCHANGED state => Forward
    BY <2>1
  <2>3. ASSUME NEW c \in Callers, StartNoMemory(c) \/ StartDone(c) \/ StartTrap(c) PROVE Forward
    <3>1. cur[c] \in Instances /\ state[cur[c]] = STATE_NEW
      BY <1>1, <2>3 DEF StartNoMemory, StartDone, StartTrap, Inductive, LockInv, HasLock, CallInv, CallOK
    <3>2. PICK v \in {STATE_STARTED, STATE_ENDED} : state' = [state EXCEPT ![cur[c]] = v]
      BY <2>3 DEF StartNoMemory, StartDone, StartTrap
    <3>3. v \in STATE_NEW .. STATE_DESTROYED /\ STATE_NEW <= v
      BY DEF STATE_NEW, STATE_STARTED, STATE_ENDED, STATE_DESTROYED
    <3> QED
      BY <1>1, <3>1, <3>2, <3>3, ForwardWrite DEF Inductive
  <2>4. ASSUME NEW c \in Callers, DestroyLock(c) PROVE Forward
    <3>1. /\ cur[c] \in Instances /\ state[cur[c]] \in STATE_NEW .. STATE_ENDED
          /\ state' = [state EXCEPT ![cur[c]] = STATE_DESTROYING]
      BY <1>1, <2>4 DEF DestroyLock, Locked, MarkDestroying, Inductive, LockInv
    <3>2. state[cur[c]] <= STATE_DESTROYING /\ STATE_DESTROYING \in STATE_NEW .. STATE_DESTROYED
      BY <3>1 DEF STATE_NEW, STATE_ENDED, STATE_DESTROYING, STATE_DESTROYED
    <3> QED
      BY <1>1, <3>1, <3>2, ForwardWrite DEF Inductive
  <2>5. ASSUME NEW c \in Callers, DestroyMark(c) PROVE Forward
    <3>1. cur[c] \in Instances /\ state' = [state EXCEPT ![cur[c]] = STATE_DESTROYED]
      BY <1>1, <2>5 DEF DestroyMark, Inductive, LockInv
    <3>2. state[cur[c]] <= STATE_DESTROYED /\ STATE_DESTROYED \in STATE_NEW .. STATE_DESTROYED
      BY <2>1, <3>1 DEF STATE_NEW, STATE_DESTROYED
    <3> QED
      BY <1>1, <3>1, <3>2, ForwardWrite DEF Inductive
  <2>6. ASSUME NEW c \in Callers, CallStep(c) \/ GuestReturns(c) PROVE Forward
    <3>1. CASE \/ StartNoMemory(c) \/ StartDone(c) \/ StartTrap(c)
               \/ DestroyLock(c) \/ DestroyMark(c)
      BY <2>3, <2>4, <2>5, <3>1
    <3>2. CASE \/ CreateList(c) \/ SetOpt(c) \/ StartLock(c) \/ StartNoInstance(c) \/ StartNoExecEnv(c)
               \/ StartInstantiate(c) \/ ExecLock(c) \/ ExecReturn(c) \/ DestroyAgain(c)
               \/ DestroyCleanup(c) \/ DestroyCleanupNull(c) \/ DestroyTeardown(c) \/ DestroyUnlock(c)
               \/ UseAfterFree(c)
      <4>1. UNCHANGED state
        BY <3>2 DEF CreateList, SetOpt, StartLock, StartNoInstance, StartNoExecEnv,
           StartInstantiate, ExecLock, ExecReturn, DestroyAgain, DestroyCleanup, DestroyCleanupNull,
           DestroyTeardown, DestroyUnlock, UseAfterFree
      <4> QED
        BY <2>2, <4>1
    <3> QED
      BY <2>6, <3>1, <3>2 DEF CallStep, GuestReturns
  <2>7. ASSUME NEW c \in Callers, NEW i \in Instances, CreateNew(c, i) \/ Enter(c, i) PROVE Forward
    <3>1. UNCHANGED state
      BY <2>7 DEF CreateNew, Enter
    <3> QED
      BY <2>2, <3>1
  <2>8. ASSUME NEW i \in Instances, GuestTrap(i) PROVE Forward
    <3>1. UNCHANGED state
      BY <2>8 DEF GuestTrap
    <3> QED
      BY <2>2, <3>1
  <2>9. CASE LoopStep
    <3>1. CASE LoopVisit /\ LoopReport
      <4>1. /\ it \in Instances /\ state[it] = STATE_STARTED
            /\ state' = [state EXCEPT ![it] = STATE_ENDED]
        BY <1>1, <3>1 DEF LoopVisit, LoopReport, MarkEnded, Inductive, LoopInv
      <4>2. state[it] <= STATE_ENDED /\ STATE_ENDED \in STATE_NEW .. STATE_DESTROYED
        BY <4>1 DEF STATE_NEW, STATE_STARTED, STATE_ENDED, STATE_DESTROYED
      <4> QED
        BY <1>1, <4>1, <4>2, ForwardWrite DEF Inductive
    <3>2. CASE ~(LoopVisit /\ LoopReport)
      <4>1. UNCHANGED state
        BY <2>9, <3>2 DEF LoopStep, LoopBegin, LoopVisit, LoopPass, LoopCallbackEnd, LoopAdvance
      <4> QED
        BY <2>2, <4>1
    <3> QED
      BY <3>1, <3>2
  <2>10. CASE UNCHANGED vars
    BY <2>2, <2>10 DEF vars
  <2> QED
    BY <1>1, <2>6, <2>7, <2>8, <2>9, <2>10 DEF Next
<1>2. Inductive /\ [Next]_vars => [\A i \in Instances : state'[i] >= state[i]]_vars
  BY <1>1
<1> QED
  BY <1>2, AlwaysInductive, PTL DEF Spec, StateForward

=============================================================================
