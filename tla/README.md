# Verification of wamr-ext

wamr-ext is a library around the WebAssembly Micro Runtime: an embedder loads a module, creates
instances of it, starts them, runs `main` and destroys them (`src/include/wamr_ext_api.h`), and the
guest gets system calls WASI does not have: threads, child processes, sockets, more of the file
system. This directory holds TLA+ models of the parts in which the order of steps decides, TLC
configurations that check them on small instances, and theorems TLAPS has checked for every value
of the constants.

The repository has no tests and no design documents. What the code is meant to do is taken from its
assertions and comments, and from what its own locks and error paths take for granted.

## 1. The system

| Component | State | Operations | Talks to |
|---|---|---|---|
| API and instances (`wamr_ext_api.cpp`, `WamrExtInternalDef.h`) | `gAllInstanceList`, `gWasmLock`; per instance `state`, `instanceLock`, `execFuncLock`, `config`, `wasmMainInstance`, `pMainExecEnv` | init, module load, default options; create, set_opt, start, exec_main_func, destroy; exception info | WAMR; the loop thread (list and `state`); guest threads (`CleanupAppThreadInfo`); the embedder (exception callback) |
| Loop thread's routine (`LoopCheckInstanceRoutine`) | iterator, held instance | every 100 ms: find exceptions, call back, delete destroyed instances | instances |
| Guest threads (`WasiPthreadExt`) | `m_threadMap`, `m_curHandleId`; per thread `handleID`, `pHostThread`, `exitCtrl`, `stackCtrl` | thread-spawn, thread exit, cancel, join, cleanup, set name | WAMR's exec envs; destroy; the main instance's exception |
| Child processes (`WasiProcessExt`) | `childProcMap`, `pollFDToProcMap`, `m_gProcessSpawnLock`; pipes | spawn, waitpid | the kernel: pipes, poll, waitpid; the descriptor table; the command whitelist |
| `LoopThread` | uv loop, async handle, thread, `m_bRunning` | Start, Stop, PostTimerTask | libuv |
| Sockets (`WasiSocketExt`) | none of its own; uvwasi's descriptor table | open, connect, bind, listen, accept, send, receive, options, addresses, poll_oneoff | host sockets |
| File system (`WasiFSExt`, `FSUtility`) | none | FDStatVFS, FDFcntl | host files |
| Syscall dispatch (`WasiExtSyscall`, `ExtSyscall_*`) | `gExtSyscallMap`, filled by init | lookup, argument checks, call | every extension |
| Configuration, memory enlargement (`WamrExtSetInstanceOpt`, `start`) | `WamrExtInstanceConfig` | options; arithmetic on the linear memory | WAMR's memory instance |
| `Utility`, `WasiMiscExt`, `WasiWamrExt` | none | errno and clock conversion, host descriptor lookup, sysctl, aligned_alloc | everything |
| `MiniApp` | none | a straight sequence of API calls | API |

### What is hard, and what makes it right

* **Guest threads.** Three kinds of thread work on one info: the spawner, the host thread and the
  thread that destroys the instance. Shared pointers decide when an info, its sub-instance and its
  exec env are freed, while the host thread holds a plain pointer. The condition variable has no
    predicate, `join()` is called under a lock, cancelled threads can spawn. Right means: nothing is
  freed in use, nothing is kept for ever, every `std::thread` is joined or detached before it goes,
  no wakeup is lost, the cleanup ends, and nothing of the guest runs when the instance is torn down.
* **Instances.** Two locks guard `state`, and the loop thread takes only one. Any call may come from
  any embedder thread, also from inside the exception callback; start may fail half way. Right
  means: the state moves forward only, guest code runs alone on the main exec env of a complete
  wasm instance, an instance is deleted when nothing needs it any more, an exception is
  reported once, and nothing is forgotten.
* **Child processes.** Descriptors are copied under a lock, polled without it and looked up by
  number under the lock again, while the kernel gives numbers and process ids out again. Right
  means: the two maps agree, no child is lost or reaped for another one, the pipe tells the truth
  about its child, a waiter returns.
* **Loop thread.** libuv handles are used from other threads than the loop's. Right means: the
  routine runs again and again once init has returned, and Stop ends, finding every handle closed.
* **Descriptors.** `GetHostFDByAppFD` releases the table before its caller uses the host descriptor,
  and `destroy` closes what is in the table. Right
  means: the table and the host's descriptors agree, whatever fails and whatever is closed while a
  call is under way.
* **Translation.** Numbers of the guest's C library are mapped to the host's and back by hand. Right
  means: a call does on the host what the guest asked, and the guest is told what happened.
* **poll_oneoff, memory enlargement.** Computations with narrow integers and corner cases.
* **Configuration.** Options reach an instance through its module, which other instances share;
  `create` copies and `start` reads them member by member without a lock. Right means: each
  instance runs with its own, none lost and none from elsewhere.

`PROJECT.json` lists each hazard at its line, with the property that would catch it or the reason
why there is none.

## 2. Modules

| Module | Models | Kind |
|---|---|---|
| `PthreadManager` | `WasiPthreadExt.cpp/.h`, destroy around `CleanupAppThreadInfo` | specification |
| `AppThreads` | what the thread manager promises the rest of the library | abstract specification |
| `InstanceLifecycle` | `wamr_ext_instance_*` and `LoopCheckInstanceRoutine` | specification |
| `ProcManager` | `WasiProcessExt.cpp` and the kernel it relies on | specification |
| `Children` | what a guest is promised about its child processes | abstract specification |
| `GuestCalls` | the handlers of `WasiSocketExt`, `WasiFSExt`, `WasiExtSyscall` and the redirections of `ProcessSpawn`, on one descriptor table, up to the end of `destroy` | specification; composes the next four |
| `HostMaps` | what the handlers translate: errors, addresses, options, flags, locks, interfaces, redirections | operators |
| `PollOneOff` | the computation of `poll_oneoff` before and after `poll()` | operators |
| `SyscallDispatch` | the table of handlers, the checks of `Invoke`, the casts of `DoSyscall` | operators |
| `Lists` | the order in which an array or a `std::map` is gone through | operators |
| `LoopThread` | `LoopThread.cpp` on libuv's loop | actions |
| `InstanceConfig` | options, the enlargement of the memory, `WamrExtSysctl` | operators |
| `Embedder` | a program around the API, `MiniApp` among them: init, load, options, start, main, destroy, exit | specification; composes the last two |
| `MCPthreadManager`, `MCInstanceLifecycle`, `MCProcManager` | symmetry for TLC | model checking |
| `MCGuestCalls`, `MCEmbedder` | the programs that are run | model checking |
| `PthreadManager_proofs`, `InstanceLifecycle_proofs`, `ProcManager_proofs`, `GuestCalls_proofs`, `Embedder_proofs` | | theorems about each specification |
| `EmbedderConfig_proofs` | | theorems about options and memory; extends `Embedder_proofs` |
| `ListLemmas` | | lemmas about the operators of `Lists`, `PollOneOff`, `HostMaps` and `SyscallDispatch` |
| `GuestLists_proofs` | | the theorem about the lists of `GuestCalls`; extends `GuestCalls_proofs` and `ListLemmas` |

Lines that begin with `\* Mutant:` precede a broken variant of the definition that follows. No
specification uses these; `PROJECT.json` pairs each property with a variant that violates it.

### PthreadManager

A critical section of `m_threadMapLock` never blocks and is one step. `exitLock` is held across a
blocking call only by the joiner in `join()`, hence the predicate `ExitLockFree`.

| Code | Model |
|---|---|
| progress of `WasiThreadSpawn` and of the lambda that is the host thread | `pc[t]`, with `spawner[t]` while the call lasts |
| `m_threadMap`, `m_curHandleId`, `handleID` | `threadMap`, `curHandleId`, `handleID`; handles are `0 .. HandleMod - 1` |
| shared pointers to an info | map entry, `spawner`, `batch`: an info in none of them is freed (`Release`, `destroyed` counts) |
| `pHostThread` | "null" until it is assigned, then "joinable", "detached" or "joined" |
| `exitCtrl.waitCount`, `exitCV` | `waitCount`; the only waiter is the destroying thread, `signaled` says whether it was notified |
| the app heap, `wasm_exec_env_set_aux_stack` | `stacks`, at most `HeapStacks` of them; `AuxStackFails`: may a stack be refused |
| suspend flag, exception of a module instance | `suspended`, `exception` |
| `wamr_ext_instance_destroy` | `dpc`, with the copy of the map in `batch`, `toCancel`, `toJoin`, `target` |
| `WasiThreadSpawn` | `SpawnBuild`, `SpawnRegister`, `SpawnStartHostThread`, `SpawnAssign`, `SpawnReturn`; the error path is `SpawnFail` |
| the host thread after `wasi_thread_start` | `GuestReturn` or `GuestTrap`, `AppThreadExit`, then `ExitDetach` or `ExitNotify`, `HostThreadEnd` |
| `CleanupAppThreadInfo`, `DoHostThreadJoin` | `CleanupSnapshot`, `CleanupCancel`, `JoinEnter`, `JoinWake`, `HostJoined`, `JoinErase`, `ExitMain` |
| the destructors of the guest and the end of destroy | spawns by the main exec env in "dtors" (`DtorsSpawn`), `Deinstantiate` |
| the loop thread deletes the `WamrExtInstance`, with it `m_threadMap` and the last shared pointers | `DeleteInstance` |

`ExitDetachNull` and `JoinWakeNull` are the steps in which a thread, or the joiner, gets to
`pHostThread` before the spawner has assigned it: the process dies (`crashed`), and nothing
happens afterwards. So it does when an info is destroyed with a `std::thread` that is still joinable,
and it may when something is freed that a thread still uses. The properties speak of all behaviours
up to such a step.

### InstanceLifecycle

A critical section of `gWasmLock` or `instanceLock` is one step. `execFuncLock` is held while
guest code runs and is a variable. Each caller (the embedder's threads, and the loop thread while it
is in the callback) has a `pc` and the instance `cur` of its call. `list`, `it`, `held` and
`doomed` are the routine's `gAllInstanceList`, `instanceListIt`, `pInst` and `bInstDestroyed`:
the iterator is an element and not a number, and `Position` is where the list has it. An
instance is freed when the routine's shared pointer was the last one. Start is split where it can
fail (`StartFaults` says which failures a run has) and where guest code runs; `leaked` is history: the
instances one of whose wasm instances start has overwritten. The callback, like the embedder's
threads, may make every call for every instance. `GuestTrap` puts an
exception into the main instance at any time from the moment app threads may exist until destroy
has joined them: that is what `PthreadManager` does in detail. A call that works with a
freed instance may die (`UseAfterFree`), and a destroy after a start that failed for want of memory
does (`DestroyCleanupNull`: there is no custom data yet).

### ProcManager

The sections under the manager's lock are single steps; `m_gProcessSpawnLock`, held over `pipe`,
`posix_spawn` and `close`, is a variable. `file` is the descriptor table for the numbers that
`pipe()` may return, `writers` who holds the write end of the pipe a descriptor reads from,
`proc` the process table: these and the actions of children, of the processes they leave
behind and of other parts of the program are the environment. Descriptors and process ids are
used again as soon as they are free, so the model needs no counter. `WaitRead` (which drains
whatever the number stands for) and `WaitReap` / `WaitNotReaped` (the section under the lock) are
separate steps, as in the code. Data written to a pipe is abstracted: `WaitPoll` may report any
open descriptor, and must report one that has hung up.

`ProcManager` implements `Children` (`ImplementsChildren`): `known` there is `Listed`, `told` is
`retPID`, and a child's `state` is the kernel's as long as the manager watches it (`ChildState`), so
a child dropped from the maps before it is reaped would be gone in `Children`, which allows that after
a report only. `Children` says that a report is of a child that has exited and whose process id
the guest has got, and that there is one for each child; that it goes to the call that asked for this
child is `RightChild`, which takes a single waiter.

### GuestCalls, HostMaps, PollOneOff, SyscallDispatch

A call of a guest thread is two or more steps, since the table's lock is held for the lookup only:

| Code | Model |
|---|---|
| uvwasi's table of descriptors | `fds`: app descriptor to host descriptor and type |
| the process's descriptors | `file`: closed, a socket or file of the guest, or another part's |
| checks of the arguments, `GetHostFDByAppFD` | `ArgError`, `GetHostFDByAppFD(t)`, then `pc[t] = "resolved"` with the number in `at[t]` |
| the host's call and what follows it | one action for each handler (`SockBind` ... `FDStatVFS`), or `HostFails` if the number is something else by now or the host fails |
| `SockOpen`, `SockAccept`, `InsertNewHostSocketFDToTable` | "created" between the host's call and the table; `InsertFails` is the roll-back |
| `WasiPollOneOff` | `PollOneOff` up to `poll()`, `PollReturns` after it; `poll()` is `Revents` |
| `ProcessSpawn`'s `dup2FDArr` | `SpawnLookup`, one descriptor at a time, and `SpawnChild` |
| `Invoke` puts native pointers into the guest's own array, `DoSyscall` reads them back | `WasiExtSyscall`, `GuestWritesArgs` (another thread of the guest writes there), `DoSyscall` |
| `destroy` after `CleanupAppThreadInfo` | `CollectFDs`, `CloseNext`, `Deinstantiate`; with `dtorThreads` while threads run that a destructor has started |

The pure parts are operators of the other four modules, so that `GuestCalls` has the control only.
Loops over arrays and maps are comprehensions there: which entries a loop keeps is a set of
indices or keys, and `Lists` puts these in order.
The kernel, uvwasi, peers, another process with record locks and other parts of the host program
are modelled from how they are used. What the properties compare with is history inside a socket
(`bound`, `dialled`, `asked`, `sent`, `read`, `raced`), `granted` for locks and `got`, the last
result of a thread. The state would be too large if the guest could do everything at once: `prog`, chosen in
`Init`, is a program of `MCGuestCalls`: which calls each thread may make (again and again, or once
each with `once`), what is open at the start and what the surroundings may do. `stale` is history as
well: a descriptor was closed, or the arguments were written to, while the thread was in its call.
The host's descriptors
0, 1 and 2 belong to the host program, and the guest's are duplicates of them. What a new process gets
for its 0, 1 and 2 is told as numbers of host descriptors (`own`, `std`), which tell two sockets apart
that are in the same state.

`SyscallDispatch` has the tables as the code has them, three times: the signature string of a
class (`ArgSig`), what its `DoSyscall` reads from the argument union (`Reads`), and what each handler
declares (`Params`); `HandlerCall` says what reaches the handler.

### LoopThread, InstanceConfig, Embedder

`LoopThread` has the steps of `uv_run` that matter here: due timers (`TimerDue`), putting a timer
back in two steps (`TimerAgain`, `TimerRestart`), the callback, the choice of the poll's timeout, the
poll, the closing handles. `Start`, `PostTimerTask`, `PostSend`, `StopWalk`, `StopClose`, `StopSend`,
`StopJoin` run on other threads at any point of it, under `m_lock` but not against the loop. If the
loop puts back a timer that Stop has just closed, it will run freed memory (`dead`).

`Embedder` runs lists of API calls, one for each thread, and has the state that calls share:
`instDefaultConf` and `wasiArgs` of a module, `config`, `memory` and `state` of an instance,
`gWasmLock`, `list`, and the loop thread's. Reads and writes without a lock are steps of their own:

| Code | Model |
|---|---|
| `create`: the copy of `instDefaultConf`, member by member | `CreateNew`, `CreateCopy` (one member each), `CreateList` |
| `start`: the check of the state | `StartCheck` |
| the three loops over `preOpenDirs`, `envVars`, `args` | `StartLoop`, three times |
| the arguments of the module, under `gWasmLock` | `StartArgs` |
| `wasm_runtime_instantiate`, `wasm_runtime_create_exec_env`, and their failures | `StartInstantiate` |
| the enlargement of the memory, which reads `config.maxMemory` five times | `StartEnlarge`, `EnlargeHeap`, `EnlargePage`, `EnlargeAllocate`, `EnlargeEnd` |
| `_initialize`, STARTED | `StartInitialize` |
| one pass of the loop thread's routine | `LoopVisit`, an instance at a time, `ReportTrap` (the callback), `LoopPassEnds` |
| the destructors of the globals at `exit`, the list's before the loop thread's | `ExitCall`, `ExitStop`, `ExitDone`; `RoutineAfterExit` is a routine that finds the list destroyed |

`start` keeps pointers into the configuration. If an option is replaced meanwhile, what they lead to is
the old text or the new one, each by itself (`Texts`), or the process dies of freed memory
(`MayDie`); it may also die when a map or vector is changed while another thread walks it (`Torn`).
`exit` waits for nobody: the other threads go on with their calls while the destructors run. `given`
and `seen` are history, per kind of option: the values accepted for an instance, and how many when
start looked at its state. `MiniApp` turns a command line into its list of calls; like the program it
goes on if `wamr_ext_init` has failed, and ends at once if a load, a start or `exec_main` fails. Races of
start and destroy on one instance are in `InstanceLifecycle`; here one thread makes the create,
start, main and destroy calls of an instance and one sets the defaults of a module, while others
set the instance's options.

## 3. What the runs check

| Run | Instance | Shows |
|---|---|---|
| `pthread_threads` | 3 threads, 2 stacks, refused stacks, spurious wakeups; destructors start no thread | infos outlive their threads up to the deletion of the instance and are freed once, joined or detached before; no lost wakeup, map entries right, nothing runs after the cleanup, the closing assertion unless a spawn has failed, traps reach the main instance, `PthreadManager` implements `AppThreads`, the cleanup ends |
| `pthread_heap_exhausted` | 2 threads, 1 stack | **violation** of the assertion at `WasiPthreadExt.cpp:56` |
| `instance_safety` | 2 instances, 2 embedder threads, start fails in each of its steps | state moves forward, guest runs alone, one callback, only what was torn down is deleted, a wasm instance is lost in one order of calls only |
| `instance_liveness` | 2 instances, 1 embedder thread, exec env may fail | traps are noticed, destroyed instances are deleted |
| `instance_freed_in_use` | 1 instance, 2 embedder threads | **violation** of the comment at `wamr_ext_api.cpp:451` |
| `proc_safety` | 2 waiters, one of which spawns, 3 descriptors, 2 process ids, children fork | maps agree, no child lost, reaped twice or closed by another waiter; `ProcManager` implements `Children` |
| `proc_one_waiter` | 2 spawners, one of which waits, 3 descriptors, 2 process ids, another part of the process reaps too | the pipe tells whether the child lives; the assertion of `ProcessWaitPID` on the process id holds; the waiter returns |
| `proc_wrong_child` | 2 waiters, 2 children | **violation** of the assertion at `WasiProcessExt.cpp:244` |
| `proc_descendant` | 1 child that forks | **violation** of the comment at `WasiProcessExt.cpp:132` |
| `guest_calls` | 2 guest threads, 7 host and 4 app descriptors, 12 programs | the table owns what the guest opened, in calls, failed insertions and destroy; `poll_oneoff` answers what was asked, in order; calls and results keep their meaning |
| `poll_no_clock` | its polling program | **violation** of the assertion at `WasiSocketExt.cpp:937` |
| `embedder` | 2 threads, 2 modules, 2 instances, 2 timers, 15 programs | instances get their own options and a consistent memory; MiniApp fails when its app trapped; the routine keeps running; Stop ends with every handle closed |

**Findings.** (1) A spawn that finds no room for a stack still has handle 0 and erases the main
thread's entry from `m_threadMap`. In a build with assertions the `assert(false)` a few lines
earlier ends the process; the finding is about a build without. (2) The loop thread may delete an
instance whose `execFuncLock` is still held by the destroy that marked it. (3) Two waiters of one
child: when the second looks its descriptor up, the number may have been given out again, and it reaps and
returns another child. If it has not, the lookup fails and the call reaches `assert(false)` at
`WasiProcessExt.cpp:236`; the comment in the next line expects that. (4) A process that a child
leaves behind keeps the child's pipe open, and waiting for the child lasts as long as that process.
(5) `poll_oneoff` without a clock gives `poll()` its longest time, 24.8 days, and not an unlimited one:
when that is up there is no subscription for the assertion to find, and without assertions the guest
gets success and no event.

**Bounds.** Three guest threads are the least with which one spawns a second that spawns a third
while the first is being joined, which forces another round of the cleanup loop; `HandleMod` is one
more than the threads, so handles reach the wrap but are not exhausted (2^32 entries do not fit into
memory). Fewer stacks than threads makes the spawn fail. Two instances let the list change under
the routine's iterator at its head, its end and behind it; two embedder threads and the
callback are three callers on one instance. Two children and two waiters are what a mix-up
takes, a third descriptor lets another part open a file in between. All counters are bounded by the
code's own conditions; no state constraint is used.

In `guest_calls` seven host descriptors are 0, 1, 2 and one for each app descriptor, so that host
and table can both be full; two threads are what a close during a call takes. Each of the twelve
programs has the calls of one family: descriptors and destroy, the same with threads that a
destructor starts, addresses, options, a blocking and a nonblocking stream, locks, polling,
interfaces, spawning, dispatch, and failures of the host. Up to
three subscriptions, two redirections and four entries of `getifaddrs()`, in every order, are the
least that show each rule and its exceptions. Times are scaled: two nanoseconds make a millisecond
(`NsPerMs`), poll waits two milliseconds at most (`MaxPoll`), a sleep nine nanoseconds (`MaxSleep`),
`Forever` is 19, and the timeouts 1, 5 and 12 lie below a millisecond, beyond poll's limit and beyond
a sleep's.

In `embedder` a page has 4 bytes, a `uint32_t` 64 values and the default memory 17 bytes;
the modules have one page, several, or more memory than the limit. Two timers are what init called
twice posts. The fifteen programs are: four command lines of `MiniApp` (one that runs, traps or has no
main; a missing file; a runtime that does not come up; a malformed argument); two threads that start
instances of one module (`shared`); a thread that sets a module's defaults while another copies
them, and exits while the other starts (`copied`); a thread that sets options while another starts
the instance (`racing`); starts that fail in each of their steps and are repeated with other options
(`retried`); loads and calls that are refused (`failing`); init twice; exit alone; and four memories.

**What the bounds and conditions leave out.**

* *Destructors of the guest that start threads.* They run after `CleanupAppThreadInfo`, and nobody
  waits for such a thread: it works with a wasm instance that has been freed, and its info goes
  with the instance, with a `std::thread` that is joinable. `PthreadManager` has these steps
  (`DtorsSpawn`), and with `DtorsSpawn = TRUE` TLC finds `InfoOutlivesThread`,
  `JoinedOrDetachedBeforeFree` and `QuietAfterCleanup` violated; `pthread_threads` sets it to FALSE,
  since nothing in the repository says what such a guest is promised. The program `outliving` of
  `guest_calls` has these threads: what they open after destroy has
  copied the table stays open, which `TableOwnsHostFDs` excepts although the comment at
  `wamr_ext_api.cpp:430` says that all descriptors are closed.
* *The deadlock after a spurious wakeup.* `exitCV.wait()` has no predicate, and `join()` follows with
  `exitLock` held, which the thread still has to take. The run has the wakeup and the deadlock;
  `CleanupTerminates` names it as the one thing that keeps the cleanup for ever. No line of
  the repository promises that it does not happen, so no run shows it as a violation.
* *A half start.* If the exec env cannot be created, the state stays NEW with a wasm instance in
  place, and a second start loses it. `LostByHalfStartOnly` says that no other order of calls does.
* *Two waiters.* That a copied descriptor is still the pipe when it is read (`WasiProcessExt.cpp:213`)
  and looked up holds for one waiter only, who is not the case in question; it is no
  property. What two waiters must not do to other children is in `proc_safety`, what they do in `proc_wrong_child`.
* *A guest that closes a descriptor it uses.* The call then hits whatever the number has become, as the
  model has it; nothing is promised, and no property says anything but that the table stays right. An
  accepted socket gets the type that was looked up for the listening one before `accept()`
  (`WasiSocketExt.cpp:322-330`), so the type of its entry may then be wrong (`raced`), and
  `RedirectsLikePosix` excepts a close during the call. A guest that writes to
  the arguments of a system call under way may hand the handler anything
  (`HandlersGetWhatTheyDeclare` excepts it).
* *poll_oneoff.* A descriptor with POLLERR alone gets no event, and `EventsAnswer` says so.
  `ClockEventTimely` excludes times beyond what `poll()` or a sleep can wait.
* *Options given during start.* `InstanceGetsItsOptions` and `MemoryConsistent` speak of each kind of
  option by itself, and not of a kind of which one was given after start had looked at the state: the
  instance may have it or not, of two kinds the later and not the earlier, and its memory may be
  made of two limits.
* *Memories of several pages.* The assertion `max_page_count == cur_page_count == 1`
  (`wamr_ext_api.cpp:320`) passes for every module that cannot grow, for it compares a truth value
  with 1. The sizes agree after start, which `MemoryConsistent` says for all of them, but a guest
  with three pages is told three times its memory. A module that manages its own heap fails the
  assertion of line 318, and the process ends (program `noHeap`).
* *The put-back timer.* Stop may close a timer that the loop is putting back; the loop then runs freed
  memory (`dead`). `LoopClosesClean` does not forbid it, and `StopEnds` ends with it.
* The assertion after ECHILD (`ListedNotReaped`) is checked where no other part of the process waits
  for children.

**Deadlock** is checked in the runs of `ProcManager`, where an idle thread can always make a call. It
is not in the others: once the instance is dead, the process has ended or crashed, or a program has
no call left, the system has stopped rightly. Where stopping would be wrong, a liveness property says so.

**Grouped properties.** A property of a run may be a conjunction of named parts:
`PollAnswers` (`EventsAnswer`, `BadDescriptorTold`, `ClockEventTimely`),
`ListsTranslated` (`PollAnswers`, `RedirectsLikePosix`, `HandlersGetWhatTheyDeclare`,
`IfAddrsComplete`), `HostDoesAsAsked` (`StreamIntact`, `ShortOnlyAtEnd`, `LockExcludes`),
`GuestIsToldTheTruth` (`AddressesSurvive`, `ErrorsTruthful`, `OptionsSeparate`),
`InstanceAsConfigured` (`InstanceGetsItsOptions`, `MemoryConsistent`) and
`ListedCanBeWaitedFor` (`ListedNotReaped`, `ListedPipeOpen`).

**Symmetry** is used for safety only: in `pthread_heap_exhausted`, `instance_safety` and
`proc_safety`.

**Fairness.** *Guest threads:* host threads and a spawn in progress are scheduled, and so is the
destroying thread, unless it waits and nobody has notified it: it need not wake up by itself, though it
may. Guest code returns if its suspend flag is set, which WAMR's interpreter looks at. Guest code
that is not cancelled may run for ever; that a cancelled thread returns leaves out one that blocks in
a host call. *Instances:* calls go on, the 100 ms timer keeps firing, guest code returns once its
instance has an exception; the callback, which may make any number of calls, is assumed to return each
time (it is the embedder's code). *Children:* threads in a call go on;
children need not do anything. *Loop thread:* the loop, the thread that stops it and the holder
of `gWasmLock` go on; a timer in the heap is due in the end, since time passes (strong fairness,
because the loop is at other points in between). A client's other steps need no fairness.

## 4. What is proved

Every safety invariant and action property of the passing runs is also a theorem, for every value of the
constants. Each table gives the theorem, the property it states, and what
it assumes besides the named assumptions of the specification. No theorem bounds the number of
threads, instances, children, descriptors, calls or programs; one, `ReportsRightChild`, allows one waiter only.

**`PthreadManager_proofs`**

| Theorem | Says | Assumes |
|---|---|---|
| `InductiveInvariant` | `Spec => []Inductive` | |
| `TypeCorrect` | `TypeOK` | |
| `WakeupNotLost` | `NoLostWakeup` | |
| `MapCorrect` | `HandlesConsistent` | |
| `NothingRunsAfterCleanup` | `QuietAfterCleanup` | destructors start no thread |
| `InfoIsAlive` | `InfoOutlivesThread` | the same |
| `NoJoinableThreadFreed` | `JoinedOrDetachedBeforeFree` | the same |
| `EveryInfoFreed` | `InfoFreedOnce` | the same |
| `MainKeepsEntry` | `MainInv`: handle 0 is the main thread's while no spawn has failed | |
| `TrapIsSpread` | `TrapReachesMain` | destructors start no thread |
| `OneEntryLeft` | `OneEntryLeftByCleanup` | the same |
| `Refinement` | `Spec => ImplementsAppThreads` | the same |

None of the properties is inductive. `InfoOutlivesThread` needs to know who holds
a shared pointer when the last one is dropped, and the code has no count to look at: that a thread
which uses its info has the map entry of its handle is `HandlesConsistent`, and that
holds only because no handle is ever given twice (`HandleIsFresh`: `m_curHandleId` counts the
threads that have one, and there are more handles than threads), and because the destroying thread
erases an entry only after the host thread is past its last use, joined or detached. What the deletion of the instance drops with
the map belongs to no thread any more, and only that needs `QuietAfterCleanup`.
`Inductive` is the conjunction of `TypeOK` and named parts, one for each of these ideas:
`CountInv` (`m_curHandleId` against the number of threads with a handle), `HandleInv`, `UniqueInv` and
`MapInv` (handles and map entries belong together), `WaitInv` (what `waitCount` says of the host
thread and the joiner), `JoinInv` (the destroying thread's place in its loops against `toCancel`,
`toJoin`, `target` and the notification), `SpawnInv` (a spawner against its child), `FreeInv` (who
holds a shared pointer to an info that has not been freed), `LeakInv` (an info that nobody uses and no
map entry holds has been freed) and `JoinedInv` (a `std::thread` that is freed was joined or detached). There is one lemma
per action and, in it, one step per part the action can disturb. The refinement maps each
action to a step of `AppThreads` or to a stutter; only `CleanupSnapshot` with an empty map closes
the instance, and `EmptySnapshotIsQuiet` shows that no thread is then alive. A spawn that finds no
stack, or whose stack is refused, erases the main thread's entry (run `pthread_heap_exhausted`), so the
properties about that entry speak of the time before. No theorem assumes that the wait is left only
after a notification.

**`InstanceLifecycle_proofs`**

| Theorem | Says | Assumes |
|---|---|---|
| `TypeCorrect` | `TypeOK` | |
| `LoopFindsWasm` | `StartedIsLive` | |
| `GuestIsAlone` | `GuestRunsAlone` | |
| `ToldOnce` | `CallbackOnce` | |
| `DeletedLast` | `FreedAfterTeardown` | |
| `LostByHalfStart` | `LostByHalfStartOnly` | |
| `OnlyForward` | `StateForward` | |

Two facts carry them. A call past its check of the state owns `execFuncLock` of that instance
(`LockInv`), and what it found there stays true (`CallInv`), since nobody else writes the state but
the loop thread, which only takes STARTED to ENDED. And an instance enters the list once and leaves it
once, DESTROYED (`ListInv`), so what the loop thread holds is in the list or is such an instance
(`LoopInv`), and the shared pointer it drops is the last one only after the teardown. `StateInv`
says what a state means for the wasm instance, `HalfInv` that a NEW instance has an exec env only
while start makes one: what a repeated start can lose is the wasm instance of a half start, and no more.

**`ProcManager_proofs`**

| Theorem | Says | Assumes |
|---|---|---|
| `TypeCorrect` | `TypeOK` | |
| `ListedPipeStaysOpen` | `ListedPipeOpen`, and an entry leads back to its child | |
| `OnlyDescendantsHoldPipe` | after the exit of a child only processes it left behind have its pipe | |
| `MapsAgree` | `MapsConsistent` | nothing else in the process waits for children |
| `ListedIsChild` | `ListedCanBeWaitedFor` | the same |
| `NoChildLost` | `NoChildForgotten` | the same |
| `PipeTells` | `PipeTellsAlive` | children leave no process behind |
| `ReportsRightChild` | `RightChild` | one thread waits |
| `Refinement` | `Spec => ImplementsChildren` | nothing else in the process waits for children |

`Inductive` says what is in flight outside the maps: the pipe of a spawn is open, in no map and no
other spawn's (`LockInv`, `SpawnInv`), its child runs and has no entry (`ChildInv`), an entry leads
back to itself (`MapInv`), and a write end is held by the spawn, the child or what the child left
(`WriterInv`: `m_gProcessSpawnLock` is held until the parent has closed its own, which is why no
other child inherits it). `ReapInv` adds that a child waits to be reaped by this manager alone, and
`CopyInv` that what the one waiter has copied stays true until it erases an entry itself. The
assumptions cannot be dropped: with two waiters `proc_wrong_child`, with children that fork
`proc_descendant` shows the property violated; when another part of the process reaps a child, a
listed child cannot be waited for, and its process id may be another child's before the manager
notices. The refinement needs no bound on waiters: `StepIsMapped` shows for each action that it is a
step of `Children` on `proc`, `Listed` and `retPID`, or none, from `MapsConsistent` and `ListedNotReaped` (what
`WaitReap` finds is a listed zombie) and `ChildInv` (a spawn names a new child), and
`ChildrenAreWatched` that `ChildState` is `proc`, which is `NoChildForgotten`.

**`GuestCalls_proofs`**

| Theorem | Says |
|---|---|
| `TypeCorrect` | `TypeOK` |
| `TableOwnsDescriptors` | `TableOwnsHostFDs` |
| `HostIsAskedRight` | `HostDoesAsAsked` |
| `GuestIsTold` | `GuestIsToldTheTruth` |

`CallInv` relates a thread's place in a call to the call (`CallOf`), destroy's to the threads
(`PhaseInv`) and the open record locks to each other (`LockInv`). `FilesInv` says what a socket keeps:
what was sent is what was read and what is under way, in order (`InOrder`), an address it has was
asked for (`WellNamed`), an option it has was set (`WellSet`). `TableInv` counts the owners of a
descriptor: entries, and threads in state "created". `Answers` is about the last result
of a thread, one part for each kind of result (`ErrorKept`, `AddressKept`, `OptionKept`, `ReadKept`,
`LockKept`). That nothing of the guest is open once destroy has freed the table is claimed, and proved, for guests
whose destructors start no thread. That `TableOwnsHostFDs` needs `raced` (section 3) came out of the attempt to prove it
without.

**`GuestLists_proofs`, `ListLemmas`**

| Theorem | Says |
|---|---|
| `ListsAreTranslated` | `ListsTranslated`, for lists of any length |

`ListsKept` says of the last result of each thread what the property says, one part for each kind of
list, and is proved from two more invariants: `Held`, what a call keeps between its steps
(`PollHeld`: `poll_oneoff`'s timeout is `Timeout` of the subscriptions it still has, and no clock has a
descriptor; `SpawnHeld`: a descriptor `ProcessSpawn` has looked up is the one the guest had when the
call began, unless it has closed one; `ArgsHeld`: the arguments of a system call are as `Invoke` has
left them, unless the guest has written to them), and `StdKept` (no call touches the host program's 0, 1 and 2, so `dup2` onto them in the
child never destroys a source).

What loops compute is in `ListLemmas`. None of it needs an induction over data: a loop is described by what it keeps,
and a list of what is kept is a one-to-one map from `1..n` onto a set, whatever its length.
`PlacesAreTaken` shows that a finite set with a strict total order can be put in a row (if some place
were free, the elements after it would be one too few), `AscendingLists` that a set of numbers then
ascends. `TimeoutIsLeast` and
`PollWaits` relate the milliseconds `poll()` is given to the clocks asked for, `ReadyAnswers` and
`ClockAnswers` say which subscriptions have an event after `poll()` or a sleep, `ChildGets` what the
child's 0, 1 and 2 are after the copies, `InterfacesFit` what the guest is told of the interfaces, and
`HandlerCallFits` that a class of calls hands a handler what it declares, for every entry of
the tables. `PosixStd`, the reference for redirections, is recursive by its nature; `PosixStdHas` proves
what the child has in terms of the last redirection to a descriptor, and `ChildExists` that the
recursion has a solution, from the least length for which it would have none.

**`Embedder_proofs`, `EmbedderConfig_proofs`**

| Theorem | Says |
|---|---|
| `LoopHandles` | `LoopInv` and `LoopClosesClean` |
| `LoopIsClosedClean` | `LoopClosesClean` |
| `TrapIsReported` | `TrapFailsMiniApp` |
| `TypeCorrect` | `TypeOK` |
| `RunsAsConfigured` | `InstanceAsConfigured` |

`LoopInv` relates the handles of the loop to how far Stop and the loop thread are: `HandleInv` (a
handle of the loop is not deleted, Stop visits what is not closing), `StopInv` (while nobody stops the
loop the async handle keeps it alive) and `TimerInv` (a timer that is not closing is active, or is the
one `uv_timer_again` works on). `Inv` adds where each thread is in its call. It holds also after exit has taken the list away. `OptionsInv` carries the
last theorem. Each kind of option has a history of its own, of a module and of an instance, and every
field of a configuration says what the history of its kind says (`ConfigInv`), member by member while
create is copying (`CopyInv`). For a start under way (`StartInv`), what it has read so far, the
arguments in the module and those of the instance say what the history says, for each kind of which no
option has come since start looked at the state (`SeenInv`); the same holds of the memory in each step
of its making. The module's arguments are its own because it has `gWasmLock` from `StartArgs` until the
memory is made. `GotInv` says that what an instance has got, it keeps. The
histories need no induction: what was last set is defined by the greatest position of a key, and
adding an option changes that of its own key only (`LastWithAppended`). For the memory,
`WholeMemory` and `SizedEnlarged` show that the 32-bit arithmetic of start neither goes below zero nor
wraps.

**Assumptions on constants** are named and evaluated by TLC in every run of their specification.
`ExecAssumption`, `NamesAssumption`, `NoneAssumption`, `StatusAssumption`, `HandlesAssumption`: model
values are distinct. `HandleAssumption`: there are more handles than threads (2^32 entries do not fit
into memory). `FlagAssumption`, `FaultsAssumption`: the types of the switches. `SizesAssumption`,
`TimeAssumption`: the constants of the code relate as they do there. `GuestCallsAssumption`:
descriptors are numbers, 0, 1 and 2 among the guest's and the host's. `ProgramsAssumption` of
`GuestCalls`: a guest's address is of a family the code knows or is refused, calls name slots of the
table, subscriptions and redirections are lists of what their structures may hold, the table names
each host descriptor once at the start and none of the host program's 0, 1 and 2, no error of the
host is 0, the times a guest asks for are numbers up to `Forever`, and `getifaddrs()` gives an
interface one `AF_PACKET` entry at most. `ProgramsAssumption` of `Embedder`: calls name instances and
modules there are, an instance is of one module, sizes are `uint32_t`, memories are as WAMR makes
them, one thread makes the create, start, main and destroy calls of an instance and one sets the
defaults of a module, the first thread initialises the library before the others call it and ends the
process, and `MiniApp` has one thread; `InstanceLifecycle` lets any thread start, run and destroy any
instance.

**Model-checked only.** Liveness (`CleanupTerminates`, `TrapNoticed`, `DestroyedIsFreed`, `WaitEnds`,
`RoutineKeepsRunning`, `StopEnds`), which needs fairness and is beyond the prover.

## 5. Not modelled

Third-party code (`argparse`, `libandroid-spawn`) and build scripts are left out; WAMR, uvwasi and
libuv are not in the repository, and appear as the environment: an instantiation that may fail, an
exception that may appear, a pipe that hangs up, a table of descriptors, the steps of a loop.

* *Children:* the lookup in the command whitelist, argv and exit codes (`WEXITSTATUS` of a child that a
  signal has killed is 0); the destruction of the manager, which leaves children behind.
* *Instances:* the duplicates of the standard streams, a file that cannot be mapped,
  `get_exception_info` and the error strings.
* *Guest calls:* the contents of messages beyond their order, netmasks and broadcast
  addresses, SIGPIPE (a send to a closed peer may end the process, as `SockSendMsg` notes),
  the bytes of an address as the guest's memory holds them. An error path behind `assert(false)` is
  modelled as the code without assertions takes it.
* *Loop thread:* one-shot timers, which nothing posts; the race of Stop with the timer is modelled as
  steps, without torn reads of libuv's data.
* `AlignedAlloc` (the guest's malloc, whatever the alignment), thread names and ids, processor
  counts and the clock read the system and keep no state.

Memory contents, names, priorities and real time are left out. A compiler's reordering of
unsynchronised accesses is not modelled; where the order of two threads is not fixed by a lock,
both orders are.

## 6. Plan

Checked and proved: `PthreadManager` with `AppThreads`, `InstanceLifecycle`, `ProcManager` with
`Children`, `GuestCalls` with `HostMaps`, `PollOneOff`, `SyscallDispatch` and `Lists`, `Embedder` with
`LoopThread` and `InstanceConfig`. What is left is `WamrExtSystem`: instances composed with the thread
manager, with `AppThreads` in place of `PthreadManager`, and with the children that outlive them, for
which `Children` stands in.
