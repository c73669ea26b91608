------------------------------- MODULE Embedder -------------------------------
(***************************************************************************)
(* A program around the library: it initialises it, loads modules, sets    *)
(* options, creates, starts and runs instances from one or more threads,   *)
(* and exits, which runs the static destructors while the loop thread      *)
(* lives.  Each thread makes the calls of a list; MiniApp is one such      *)
(* list.  What a running instance does is abstracted to the value its main *)
(* function returns or a trap; the races of start, destroy and the loop's  *)
(* routine on one instance are the subject of InstanceLifecycle.           *)
(*                                                                         *)
(* Configurations are read without the lock they are written under, and    *)
(* each read of a member is a step of its own.  A map or vector that       *)
(* changes while another thread walks it, or a text that is replaced while *)
(* a pointer leads to it, may end the process ("freed memory"); where it   *)
(* does not, the old or the new text is read.                              *)
(***************************************************************************)
EXTENDS LoopThread, InstanceConfig, Integers, FiniteSetsExt

CONSTANTS
    Clients,
    Instances,
    Modules,
    Programs   \* per name: the calls of each thread, of which the first one makes some
               \* alone, and what libraries, files, modules and the guest may do

\* The calls of all programs.
ApiCalls ==
    UNION {UNION {{Programs[p].calls[c][n] : n \in DOMAIN Programs[p].calls[c]} :
                     c \in DOMAIN Programs[p].calls} : p \in DOMAIN Programs}

\* The members of a configuration in the order of their declaration, and the option that
\* sets each.
OptionOf ==
    [preOpenDirs |-> "ADD_HOST_DIR", envVars |-> "ADD_ENV_VAR",
     hostCmdWhitelist |-> "ADD_HOST_COMMAND", args |-> "ARG", maxMemory |-> "MAX_MEMORY",
     exceptionCB |-> "EXCEPTION_CALLBACK"]
Fields == DOMAIN OptionOf
Kinds == {OptionOf[f] : f \in Fields}

\* What the options of the programs are set to.
Values == {call.value : call \in {made \in ApiCalls : made.call \in {"default", "set_opt"}}}

\* A memory that WAMR makes, its app heap in it.
Instantiable(mem) ==
    /\ mem = ExternalMemory(mem.cur_page_count, mem.max_page_count, mem.num_bytes_per_page,
                            mem.heap_data)
    /\ mem.max_page_count \in Nat /\ mem.cur_page_count \in 1 .. mem.max_page_count
    /\ mem.num_bytes_per_page \in 1 .. UInt32 - 1 /\ mem.memory_data_size \in 1 .. UInt32 - 1
    /\ mem.heap_data \in 0 .. mem.memory_data_size

\* The calls that one thread makes: those that make, start, run and end an instance,
\* and the defaults of a module, which no lock protects.
OfOneThread(one, other) ==
    LET owning == {"create", "start", "main", "destroy"} IN
    \/ one.call \in owning /\ other.call \in owning /\ one.inst = other.inst
    \/ one.call = "default" /\ other.call = "default" /\ one.module = other.module

\* Calls name what there is, sizes are of type uint32_t, and an instance is of one
\* module.  The first thread initialises the library before the others start, and ends
\* the process; MiniApp has one thread.
ASSUME ProgramsAssumption ==
    /\ \A p \in DOMAIN Programs :
          /\ DOMAIN Programs[p].calls \subseteq Clients
          /\ Programs[p].miniApp => DOMAIN Programs[p].calls = {Programs[p].first}
          /\ \A m \in Modules : Instantiable(Programs[p].memory[m])
          /\ \A c, d \in DOMAIN Programs[p].calls :
                \A n \in DOMAIN Programs[p].calls[c], k \in DOMAIN Programs[p].calls[d] :
                   LET one == Programs[p].calls[c][n]
                       other == Programs[p].calls[d][k]
                   IN /\ OfOneThread(one, other) => c = d
                      /\ one.call \in {"init", "exit"} => c = Programs[p].first
                      /\ one.call \in {"create", "start"} /\ other.call \in {"create", "start"}
                         /\ one.inst = other.inst
                         => one.module = other.module
    /\ \A call \in ApiCalls :
          /\ call.call \in {"load", "default", "create", "start"} => call.module \in Modules
          /\ call.call \in {"create", "set_opt", "start", "main", "destroy"} => call.inst \in Instances
          /\ call.call \in {"default", "set_opt"} /\ call.opt = "MAX_MEMORY" =>
                call.value = NULL \/ call.value \in 0 .. UInt32 - 1

ASSUME NamesAssumption == Clients \cap Modules = {} /\ Modules \cap Instances = {} /\ None \notin Clients

ASSUME StatusAssumption == None # -1

VARIABLES
    prog,          \* the program that runs, one of Programs
    at, step,      \* per thread: the call it makes next, and where it is in it
    result,        \* per thread: what its last call returned
    initialized,   \* wamr_ext_init has returned 0
    opened,        \* threads with a module file open
    mapped,        \* the file or copied buffer is kept: by a module, or a thread in load
    loaded,        \* modules wasm_runtime_load has loaded
    instDefaultConf,
    wasiArgs,      \* what wasm_runtime_set_wasi_args_ex left in the wasm module
    gWasmLock,
    config, state, \* WamrExtInstance
    list,          \* gAllInstanceList; None once its destructor has run
    visited,       \* the instances LoopCheckInstanceRoutine has looked at in this pass,
    calling,       \* and the one whose exception callback it is about to call, or None
    collected,     \* per thread: what start has read: the text its pointers lead to, then
                   \* heapSize
    got,           \* per instance: the arguments it was instantiated with
    memory,        \* per instance: its default memory
    trapped,       \* instances whose wasm instance has an exception
    mainTrapped,   \* the main function of an instance has ended with a trap
    exitStatus,    \* None while the process runs
    given,         \* per module and instance: the values of each option, oldest first
    seen           \* per instance: how many of them when start looked at its state

clientVars == <<at, step, result>>
moduleVars == <<opened, mapped, loaded, instDefaultConf, wasiArgs>>
instanceVars == <<config, state, list, collected, got, memory, trapped, mainTrapped, seen>>
passVars == <<visited, calling>>
otherVars == <<prog, initialized, gWasmLock, exitStatus, given, passVars>>
theLoop == <<m_bRunning, post, stopVars, loopVars>>   \* loopThreadVars but for dead
vars == <<clientVars, moduleVars, instanceVars, otherVars, loopThreadVars>>

ENOENT == 2

Call(c) == prog.calls[c][at[c]]
Makes(c, call) ==
    /\ at[c] \in DOMAIN prog.calls[c]
    /\ step[c] = "call"
    /\ Call(c).call = call
    /\ c # prog.first => at[prog.first] > prog.alone

Goto(c, s) == step' = [step EXCEPT ![c] = s] /\ UNCHANGED <<at, result>>

\* main() of MiniApp returns what a failed load or start has returned; main
\* functions that fail end it at once (Ends).
Leaves(c, err) == prog.miniApp /\ err # 0 /\ Call(c).call \in {"load", "start"}

\* What the process may die of if this is so.
MayDie(broken) == dead' \in {dead} \cup IF broken THEN {"freed memory"} ELSE {}

Return(c, err) ==
    /\ result' = [result EXCEPT ![c] = err]
    /\ step' = [step EXCEPT ![c] = IF Leaves(c, err) THEN "leave" ELSE "call"]
    /\ at' = [at EXCEPT ![c] = @ + 1]

Init ==
    /\ LoopInit
    /\ prog \in {Programs[name] : name \in DOMAIN Programs}
    /\ at = [c \in Clients |-> 1]
    /\ step = [c \in Clients |-> "call"]
    /\ result = [c \in Clients |-> 0]
    /\ initialized = FALSE
    /\ opened = {} /\ mapped = {} /\ loaded = {}
    /\ instDefaultConf = [m \in Modules |-> None]
    /\ wasiArgs = [m \in Modules |-> None]
    /\ gWasmLock = None
    /\ config = [i \in Instances |-> <<>>]
    /\ state = [i \in Instances |-> "none"]
    /\ list = {} /\ visited = {} /\ calling = None
    /\ collected = [c \in Clients |-> None]
    /\ got = [i \in Instances |-> None]
    /\ memory = [i \in Instances |-> None]
    /\ trapped = {} /\ mainTrapped = FALSE
    /\ exitStatus = None
    /\ given = [x \in Modules \cup Instances |-> [opt \in Kinds |-> <<>>]]
    /\ seen = [i \in Instances |-> [opt \in Kinds |-> 0]]

-----------------------------------------------------------------------------
\* wamr_ext_init.  Made twice it starts no second thread but posts a second timer.
InitRuntime(c) ==
    /\ Makes(c, "init")
    /\ \/ Goto(c, "start loop")
       \/ "runtime" \in prog.faults /\ Return(c, -1)
    /\ UNCHANGED <<moduleVars, instanceVars, otherVars, loopThreadVars>>

InitStart(c) ==
    /\ step[c] = "start loop"
    /\ Start
    /\ Goto(c, "post")
    /\ UNCHANGED <<moduleVars, instanceVars, otherVars>>

\* A timer is as good as another.
NewTimer == CHOOSE t \in Timers : t \notin handles \cup deleted

InitPost(c) ==
    /\ step[c] = "post"
    /\ \E t \in Timers : t = NewTimer /\ PostTimerTask(t)
    /\ Goto(c, "post send")
    /\ UNCHANGED <<moduleVars, instanceVars, otherVars>>

InitSend(c) ==
    /\ step[c] = "post send"
    /\ PostSend
    /\ initialized' = TRUE
    /\ Return(c, 0)
    /\ UNCHANGED <<moduleVars, instanceVars, prog, gWasmLock, exitStatus, given, passVars>>

-----------------------------------------------------------------------------
\* wamr_ext_module_load_by_file and, without a file, _by_buffer.  WamrExtModuleLoad
\* looks at the name again, with the same result.
LoadName(c) ==
    /\ Makes(c, "load")
    /\ IF BadModuleName(Call(c).name) THEN Return(c, EINVAL)
       ELSE Goto(c, IF Call(c).file = NULL THEN "copy" ELSE "open")
    /\ UNCHANGED <<moduleVars, instanceVars, otherVars, loopThreadVars>>

LoadOpen(c) ==
    /\ step[c] = "open"
    /\ IF Call(c).file = "missing"
       THEN Return(c, ENOENT) /\ UNCHANGED opened
       ELSE opened' = opened \cup {c} /\ Goto(c, "map")
    /\ UNCHANGED <<mapped, loaded, instDefaultConf, wasiArgs, instanceVars, otherVars,
                   loopThreadVars>>

\* The mapping stays without the descriptor.
LoadMap(c) ==
    /\ step[c] = "map"
    /\ opened' = opened \ {c}
    /\ IF Call(c).file = "empty"
       THEN Return(c, EINVAL) /\ UNCHANGED mapped
       ELSE mapped' = mapped \cup {c} /\ Goto(c, "load")
    /\ UNCHANGED <<loaded, instDefaultConf, wasiArgs, instanceVars, otherVars, loopThreadVars>>

LoadCopy(c) ==
    /\ step[c] = "copy"
    /\ mapped' = mapped \cup {c}
    /\ Goto(c, "load")
    /\ UNCHANGED <<opened, loaded, instDefaultConf, wasiArgs, instanceVars, otherVars,
                   loopThreadVars>>

\* Mutant: the module does not keep the buffer it was loaded from.
BufferDropped(m) == {}

\* WamrExtModule::pModuleBuf
BufferKept(m) == {m}

\* WamrExtModuleLoad; the buffer goes with the last shared pointer.  The module is new.
\* Without its runtime WAMR has no memory to load it into.
LoadModule(c) ==
    /\ step[c] = "load"
    /\ gWasmLock = None
    /\ LET m == Call(c).module IN
       IF Call(c).file = "not wasm" \/ ~initialized
       THEN /\ mapped' = mapped \ {c}
            /\ Return(c, -1)
            /\ UNCHANGED <<loaded, instDefaultConf>>
       ELSE /\ m \notin loaded
            /\ loaded' = loaded \cup {m}
            /\ instDefaultConf' = [instDefaultConf EXCEPT ![m] = WamrExtInstanceConfig]
            /\ mapped' = (mapped \ {c}) \cup BufferKept(m)
            /\ Return(c, 0)
    /\ UNCHANGED <<opened, wasiArgs, instanceVars, otherVars, loopThreadVars>>

-----------------------------------------------------------------------------
Accepted(x, ret, opt, value) ==
    given' = IF ret = 0 THEN [given EXCEPT ![x][opt] = Append(@, value)] ELSE given

\* The loops of start, each over a member, and what follows them.
ReadBy == [dirs |-> "preOpenDirs", env |-> "envVars", argv |-> "args"]
AfterLoop == [dirs |-> "env", env |-> "argv", argv |-> "args of module"]

\* Thread d walks the map or vector this option sets, as it copies the defaults of module
\* x or starts instance x.
Walks(d, x, opt) ==
    /\ opt \notin {"MAX_MEMORY", "EXCEPTION_CALLBACK"}
    /\ \/ step[d] \in Fields /\ OptionOf[step[d]] = opt /\ Call(d).module = x
       \/ step[d] \in DOMAIN ReadBy /\ OptionOf[ReadBy[step[d]]] = opt /\ Call(d).inst = x

Torn(x, opt) == \E d \in DOMAIN prog.calls : Walks(d, x, opt)

\* wamr_ext_module_set_inst_default_opt
SetDefaultOpt(c) ==
    /\ Makes(c, "default")
    /\ LET m == Call(c).module
           set == WamrExtSetInstanceOpt(instDefaultConf[m], Call(c).opt, Call(c).value)
       IN IF m \notin loaded
          THEN Return(c, EINVAL) /\ UNCHANGED <<instDefaultConf, given, dead>>
          ELSE /\ instDefaultConf' = [instDefaultConf EXCEPT ![m] = set.config]
               /\ Accepted(m, set.ret, Call(c).opt, Call(c).value)
               /\ MayDie(set.ret = 0 /\ Torn(m, Call(c).opt))
               /\ Return(c, set.ret)
    /\ UNCHANGED <<opened, mapped, loaded, wasiArgs, instanceVars, prog, initialized, gWasmLock,
                   exitStatus, passVars, theLoop>>

\* wamr_ext_instance_create makes a new instance: its configuration is a copy of the
\* defaults, made member by member and without a lock.
CreateNew(c) ==
    /\ Makes(c, "create")
    /\ IF Call(c).module \notin loaded THEN Return(c, EINVAL)
       ELSE state[Call(c).inst] = "none" /\ Goto(c, "preOpenDirs")
    /\ UNCHANGED <<moduleVars, instanceVars, otherVars, loopThreadVars>>

NextField ==
    [preOpenDirs |-> "envVars", envVars |-> "hostCmdWhitelist", hostCmdWhitelist |-> "args",
     args |-> "maxMemory", maxMemory |-> "exceptionCB", exceptionCB |-> "list"]

CreateCopy(c) ==
    /\ step[c] \in Fields
    /\ LET f == step[c]
           m == Call(c).module
           i == Call(c).inst
       IN /\ config' = [config EXCEPT ![i] = Put(@, f, instDefaultConf[m][f])]
          /\ given' = [given EXCEPT ![i][OptionOf[f]] = given[m][OptionOf[f]]]
          /\ state' = IF NextField[f] = "list" THEN [state EXCEPT ![i] = "new"] ELSE state
          /\ Goto(c, NextField[f])
    /\ UNCHANGED <<moduleVars, list, collected, got, memory, trapped, mainTrapped, seen, prog,
                   initialized, gWasmLock, exitStatus, passVars, loopThreadVars>>

\* After exit has begun the list it is put in has been destroyed.
CreateList(c) ==
    /\ step[c] = "list"
    /\ gWasmLock = None
    /\ list' = IF list = None THEN None ELSE list \cup {Call(c).inst}
    /\ MayDie(list = None)
    /\ Return(c, 0)
    /\ UNCHANGED <<moduleVars, config, state, collected, got, memory, trapped, mainTrapped, seen,
                   otherVars, theLoop>>

\* The calls that find *inst null.  One thread makes the start, main and destroy calls
\* of an instance.
NoInstance(c) ==
    /\ \E call \in {"set_opt", "start", "main", "destroy"} : Makes(c, call)
    /\ state[Call(c).inst] \in {"none", "destroyed"}
    /\ Return(c, EINVAL)
    /\ UNCHANGED <<moduleVars, instanceVars, otherVars, loopThreadVars>>

Uses(c, call) == Makes(c, call) /\ state[Call(c).inst] \notin {"none", "destroyed"}

\* wamr_ext_instance_set_opt
SetOpt(c) ==
    /\ Uses(c, "set_opt")
    /\ LET i == Call(c).inst
           set == WamrExtSetInstanceOpt(config[i], Call(c).opt, Call(c).value)
       IN /\ config' = [config EXCEPT ![i] = set.config]
          /\ Accepted(i, set.ret, Call(c).opt, Call(c).value)
          /\ MayDie(set.ret = 0 /\ Torn(i, Call(c).opt))
          /\ Return(c, set.ret)
    /\ UNCHANGED <<moduleVars, state, list, collected, got, memory, trapped, mainTrapped, seen, prog,
                   initialized, gWasmLock, exitStatus, passVars, theLoop>>

-----------------------------------------------------------------------------
\* wamr_ext_instance_start looks at the state under instanceLock,
StartCheck(c) ==
    /\ Uses(c, "start")
    /\ LET i == Call(c).inst IN
       IF state[i] # "new"
       THEN Return(c, -1) /\ UNCHANGED <<collected, seen>>
       ELSE /\ collected' = [collected EXCEPT ![c] = [dirs |-> <<>>, env |-> <<>>, argv |-> <<>>]]
            /\ seen' = [seen EXCEPT ![i] = [opt \in Kinds |-> Len(given[i][opt])]]
            /\ Goto(c, "dirs")
    /\ UNCHANGED <<moduleVars, config, state, list, got, memory, trapped, mainTrapped, otherVars,
                   loopThreadVars>>

\* and reads the configuration in three loops without it.
StartLoop(c) ==
    /\ step[c] \in DOMAIN ReadBy
    /\ collected' = [collected EXCEPT ![c][step[c]] = config[Call(c).inst][ReadBy[step[c]]]]
    /\ Goto(c, AfterLoop[step[c]])
    /\ UNCHANGED <<moduleVars, config, state, list, got, memory, trapped, mainTrapped, seen, otherVars,
                   loopThreadVars>>

\* Mutant: gWasmLock is taken for the instantiation only.
OtherHolds(c) == FALSE

WasmLockHeld(c) == gWasmLock # None

\* Under gWasmLock the pointers are stored in the module,
StartArgs(c) ==
    /\ step[c] = "args of module"
    /\ ~WasmLockHeld(c)
    /\ gWasmLock' = c
    /\ wasiArgs' = [wasiArgs EXCEPT ![Call(c).module] = collected[c]]
    /\ Goto(c, "instantiate")
    /\ UNCHANGED <<opened, mapped, loaded, instDefaultConf, instanceVars, prog, initialized, exitStatus,
                   given, passVars, loopThreadVars>>

Lookup(f, x) == IF x \in DOMAIN f THEN f[x] ELSE NULL

\* What pointers that led to the texts of old may lead to now.
Texts(old, now) ==
    {[x \in DOMAIN old |-> IF x \in kept THEN old[x] ELSE Lookup(now, x)] : kept \in SUBSET DOMAIN old}

Same(old, now) == \A x \in DOMAIN old : old[x] = Lookup(now, x)

\* and the instance reads them there; the strings of env are copies.
Instantiate(i, m) ==
    LET args == wasiArgs[m]
        conf == config[i]
    IN /\ \E dirs \in Texts(args.dirs, conf.preOpenDirs), argv \in Texts(args.argv, conf.args) :
             got' = [got EXCEPT ![i] = [dirs |-> dirs, env |-> args.env, argv |-> argv]]
       /\ memory' = [memory EXCEPT ![i] = prog.memory[m]]
       /\ MayDie(~(Same(args.dirs, conf.preOpenDirs) /\ Same(args.argv, conf.args)))

\* After a failure the instance is new as before: it may be started again.
StartInstantiate(c) ==
    /\ step[c] = "instantiate"
    /\ \/ /\ Instantiate(Call(c).inst, Call(c).module)
          /\ \/ Goto(c, "enlarge") /\ UNCHANGED gWasmLock
             \/ "exec env" \in prog.faults /\ Return(c, -1) /\ gWasmLock' = None
       \/ /\ "instantiate" \in prog.faults /\ Return(c, -1) /\ gWasmLock' = None
          /\ UNCHANGED <<got, memory, dead>>
    /\ UNCHANGED <<moduleVars, config, state, list, collected, trapped, mainTrapped, seen, prog,
                   initialized, exitStatus, given, passVars, theLoop>>

MaxMemory(c) == config[Call(c).inst].maxMemory

\* The memory is enlarged if the limit is above its size.  Each of these steps reads the
\* limit again.
StartEnlarge(c) ==
    /\ step[c] = "enlarge"
    /\ LET mem == memory[Call(c).inst]
           grows == ToEnlarge(mem, MaxMemory(c))
       IN /\ dead' = IF HeapAssert(mem) /\ (grows => EnlargeAssert(mem)) THEN dead ELSE "memory assert"
          /\ gWasmLock' = IF grows THEN gWasmLock ELSE None
          /\ Goto(c, IF grows THEN "heap size" ELSE "initialize")
    /\ UNCHANGED <<moduleVars, instanceVars, prog, initialized, exitStatus, given, passVars, theLoop>>

EnlargeHeap(c) ==
    /\ step[c] = "heap size"
    /\ collected' = [collected EXCEPT ![c] = [heapSize |-> HeapSize(memory[Call(c).inst], MaxMemory(c))]]
    /\ Goto(c, "page bytes")
    /\ UNCHANGED <<moduleVars, config, state, list, got, memory, trapped, mainTrapped, seen, otherVars,
                   loopThreadVars>>

EnlargePage(c) ==
    /\ step[c] = "page bytes"
    /\ memory' = [memory EXCEPT ![Call(c).inst].num_bytes_per_page = MaxMemory(c)]
    /\ Goto(c, "allocate")
    /\ UNCHANGED <<moduleVars, config, state, list, collected, got, trapped, mainTrapped, seen, otherVars,
                   loopThreadVars>>

EnlargeAllocate(c) ==
    /\ step[c] = "allocate"
    /\ LET i == Call(c).inst IN
       \/ /\ memory' = [memory EXCEPT ![i].allocated = MaxMemory(c)]
          /\ Goto(c, "data size")
          /\ UNCHANGED <<state, gWasmLock>>
       \/ /\ "memory" \in prog.faults
          /\ state' = [state EXCEPT ![i] = "ended"]
          /\ gWasmLock' = None
          /\ Return(c, -1)
          /\ UNCHANGED memory
    /\ UNCHANGED <<moduleVars, config, list, collected, got, trapped, mainTrapped, seen, prog,
                   initialized, exitStatus, given, passVars, loopThreadVars>>

EnlargeEnd(c) ==
    /\ step[c] = "data size"
    /\ memory' = [memory EXCEPT ![Call(c).inst] = Resized(@, MaxMemory(c), collected[c].heapSize)]
    /\ gWasmLock' = None
    /\ Goto(c, "initialize")
    /\ UNCHANGED <<moduleVars, config, state, list, collected, got, trapped, mainTrapped, seen, prog,
                   initialized, exitStatus, given, passVars, loopThreadVars>>

StartInitialize(c) ==
    /\ step[c] = "initialize"
    /\ LET i == Call(c).inst IN
       \/ state' = [state EXCEPT ![i] = "started"] /\ Return(c, 0)
       \/ "initialize" \in prog.faults /\ state' = [state EXCEPT ![i] = "ended"] /\ Return(c, -1)
    /\ UNCHANGED <<moduleVars, config, list, collected, got, memory, trapped, mainTrapped, seen,
                   otherVars, loopThreadVars>>

-----------------------------------------------------------------------------
\* wamr_ext_instance_exec_main_func returns an error: MiniApp calls _Exit with it.
MainFails(c) ==
    /\ Return(c, -1)
    /\ exitStatus' = IF prog.miniApp THEN -1 ELSE exitStatus

ExecMain(c) ==
    /\ Uses(c, "main")
    /\ \/ state[Call(c).inst] = "started" /\ Goto(c, "main") /\ UNCHANGED exitStatus
       \/ state[Call(c).inst] # "started" /\ MainFails(c)
       \/ "no main" \in prog.faults /\ MainFails(c)
    /\ UNCHANGED <<moduleVars, instanceVars, prog, initialized, gWasmLock, given, passVars,
                   loopThreadVars>>

\* The main function or a thread of the app traps.
GuestTrap(i) ==
    /\ "trap" \in prog.faults
    /\ state[i] = "started" /\ i \notin trapped
    /\ trapped' = trapped \cup {i}
    /\ UNCHANGED <<clientVars, moduleVars, config, state, list, collected, got, memory, mainTrapped,
                   seen, otherVars, loopThreadVars>>

\* Mutant: the value is taken whatever the call says.
TrapIgnored(i) == FALSE

CallFails(i) == i \in trapped

MainReturns(c) ==
    /\ step[c] = "main"
    /\ \E v \in prog.values :
          LET i == Call(c).inst IN
          /\ mainTrapped' = (mainTrapped \/ i \in trapped)
          /\ IF CallFails(i) THEN MainFails(c) ELSE Return(c, v) /\ UNCHANGED exitStatus
    /\ UNCHANGED <<moduleVars, config, state, list, collected, got, memory, trapped, seen, prog,
                   initialized, gWasmLock, given, passVars, loopThreadVars>>

Destroy(c) ==
    /\ Uses(c, "destroy")
    /\ state' = [state EXCEPT ![Call(c).inst] = "destroyed"]
    /\ memory' = [memory EXCEPT ![Call(c).inst] = None]
    /\ Goto(c, "destroyed")
    /\ UNCHANGED <<moduleVars, config, list, collected, got, trapped, mainTrapped, seen, otherVars,
                   loopThreadVars>>

\* destroy returns 0; MiniApp keeps what its main function returned.
DestroyReturns(c) ==
    /\ step[c] = "destroyed"
    /\ Return(c, IF prog.miniApp THEN result[c] ELSE 0)
    /\ UNCHANGED <<moduleVars, instanceVars, otherVars, loopThreadVars>>

-----------------------------------------------------------------------------
\* LoopCheckInstanceRoutine walks the list, in some order; the locks are free between its
\* instances and while the exception callback runs.
LoopVisit(i) ==
    /\ uvPc = "callback" /\ calling = None
    /\ gWasmLock = None
    /\ list # None /\ i \in list \ visited
    /\ LET ends == state[i] = "started" /\ i \in trapped IN
       /\ state' = IF ends THEN [state EXCEPT ![i] = "ended"] ELSE state
       /\ calling' = IF ends /\ config[i].exceptionCB THEN i ELSE None
    /\ list' = IF state[i] = "destroyed" THEN list \ {i} ELSE list
    /\ visited' = visited \cup {i}
    /\ UNCHANGED <<clientVars, moduleVars, config, collected, got, memory, trapped, mainTrapped, seen,
                   prog, initialized, gWasmLock, exitStatus, given, loopThreadVars>>

\* The callback of MiniApp ends the process with the error code.
ReportTrap(i) ==
    /\ calling = i
    /\ calling' = None
    /\ exitStatus' = IF prog.miniApp THEN -1 ELSE exitStatus
    /\ UNCHANGED <<clientVars, moduleVars, instanceVars, prog, initialized, gWasmLock, given, visited,
                   loopThreadVars>>

LoopPassEnds ==
    /\ uvPc = "callback" /\ calling = None
    /\ gWasmLock = None
    /\ list # None /\ list \subseteq visited
    /\ visited' = {}
    /\ uvPc' = "called"
    /\ UNCHANGED <<clientVars, moduleVars, instanceVars, prog, initialized, gWasmLock, exitStatus, given,
                   calling, m_bRunning, post, stopVars, handles, heap, closing, deleted, turnVars,
                   woken, dead>>

\* The destroyed list still looks as it did, and its nodes are freed.
RoutineAfterExit ==
    /\ uvPc = "callback" /\ calling = None
    /\ gWasmLock = None
    /\ list = None
    /\ MayDie(TRUE)
    /\ visited' = {}
    /\ uvPc' = "called"
    /\ UNCHANGED <<clientVars, moduleVars, instanceVars, prog, initialized, gWasmLock, exitStatus, given,
                   calling, m_bRunning, post, stopVars, handles, heap, closing, deleted, turnVars,
                   woken>>

LoopCheckInstanceRoutine ==
    (\E i \in Instances : LoopVisit(i) \/ ReportTrap(i)) \/ LoopPassEnds \/ RoutineAfterExit

\* exit(): gExtSyscallMap and gAllInstanceList are destroyed, whatever other threads do,
ExitCall(c) ==
    /\ \/ /\ Makes(c, "exit")
          /\ result' = [result EXCEPT ![c] = IF Call(c).status = NULL THEN @ ELSE Call(c).status]
       \/ step[c] = "leave" /\ UNCHANGED result
    /\ list' = None
    /\ step' = [step EXCEPT ![c] = "exit"]
    /\ UNCHANGED <<at, moduleVars, config, state, collected, got, memory, trapped, mainTrapped,
                   seen, otherVars, loopThreadVars>>

\* and only then gLoopThread, whose destructor calls Stop.
ExitStop(c) ==
    /\ step[c] = "exit" /\ stopPc = "idle"
    /\ StopIdle \/ StopWalk
    /\ UNCHANGED <<clientVars, moduleVars, instanceVars, otherVars>>

ExitDone(c) ==
    /\ step[c] = "exit"
    /\ stopPc = "stopped"
    /\ exitStatus' = result[c]
    /\ UNCHANGED <<clientVars, moduleVars, instanceVars, prog, initialized, gWasmLock, given, passVars,
                   loopThreadVars>>

-----------------------------------------------------------------------------
Step(c) ==
    \/ InitRuntime(c) \/ InitStart(c) \/ InitPost(c) \/ InitSend(c)
    \/ LoadName(c) \/ LoadOpen(c) \/ LoadMap(c) \/ LoadCopy(c) \/ LoadModule(c)
    \/ SetDefaultOpt(c) \/ CreateNew(c) \/ CreateCopy(c) \/ CreateList(c) \/ NoInstance(c)
    \/ SetOpt(c)
    \/ StartCheck(c) \/ StartLoop(c) \/ StartArgs(c) \/ StartInstantiate(c) \/ StartEnlarge(c)
    \/ EnlargeHeap(c) \/ EnlargePage(c) \/ EnlargeAllocate(c) \/ EnlargeEnd(c)
    \/ StartInitialize(c)
    \/ ExecMain(c) \/ MainReturns(c) \/ Destroy(c) \/ DestroyReturns(c)
    \/ ExitCall(c) \/ ExitStop(c) \/ ExitDone(c)

LoopStep ==
    \/ UVRun /\ UNCHANGED <<clientVars, moduleVars, instanceVars, otherVars>>
    \/ LoopCheckInstanceRoutine

Stopping == StopStep /\ UNCHANGED <<clientVars, moduleVars, instanceVars, otherVars>>

Lives == dead = None /\ exitStatus = None

Next ==
    /\ Lives
    /\ \/ \E c \in DOMAIN prog.calls : Step(c)
       \/ \E i \in Instances : GuestTrap(i)
       \/ LoopStep
       \/ Stopping

Spec == Init /\ [][Next]_vars

\* The loop thread, the thread that stops it and a start that holds gWasmLock go on;
\* time passes, so that a timer is due in the end.
Fairness ==
    /\ \A c \in Clients : WF_vars(Lives /\ gWasmLock = c /\ Step(c))
    /\ WF_vars(Lives /\ LoopStep)
    /\ WF_vars(Lives /\ Stopping)
    /\ \A t \in Timers :
          SF_vars(Lives /\ TimerDue(t) /\ UNCHANGED <<clientVars, moduleVars, instanceVars, otherVars>>)

FairSpec == Spec /\ Fairness

-----------------------------------------------------------------------------
\* MiniApp's main(): the calls it makes for its command line.  A directory or command
\* that is not <key>:<value> ends it with 1; the limit is set only if it is given.
OptCalls(m, opt, entries) ==
    [n \in DOMAIN entries |->
        IF entries[n] = NULL THEN [call |-> "exit", status |-> 1]
        ELSE [call |-> "default", module |-> m, opt |-> opt, value |-> entries[n]]]

MiniApp(m, i, file, line) ==
    <<[call |-> "init"], [call |-> "load", module |-> m, name |-> "app", file |-> file]>>
    \o IF line.maxMemory = 0 THEN <<>>
       ELSE <<[call |-> "default", module |-> m, opt |-> "MAX_MEMORY", value |-> line.maxMemory]>>
    \o OptCalls(m, "ADD_HOST_DIR", line.dirs)
    \o OptCalls(m, "ADD_HOST_COMMAND", line.cmds)
    \o <<[call |-> "default", module |-> m, opt |-> "EXCEPTION_CALLBACK", value |-> "callback"],
         [call |-> "create", module |-> m, inst |-> i],
         [call |-> "set_opt", inst |-> i, opt |-> "ARG", value |-> line.args],
         [call |-> "start", module |-> m, inst |-> i],
         [call |-> "main", inst |-> i],
         [call |-> "destroy", inst |-> i],
         [call |-> "exit", status |-> NULL]>>

-----------------------------------------------------------------------------
TypeOK ==
    /\ prog \in {Programs[name] : name \in DOMAIN Programs}
    /\ at \in [Clients -> Nat]
    /\ step \in [Clients -> {"call", "start loop", "post", "post send", "open", "map", "copy", "load",
                             "list", "dirs", "env", "argv", "args of module", "instantiate",
                             "enlarge", "heap size", "page bytes", "allocate", "data size",
                             "initialize", "main", "destroyed", "leave", "exit"} \cup Fields]
    /\ initialized \in BOOLEAN /\ m_bRunning \in BOOLEAN /\ woken \in BOOLEAN
    /\ opened \subseteq Clients
    /\ loaded \subseteq mapped \cap Modules /\ mapped \subseteq Modules \cup Clients
    /\ gWasmLock \in Clients \cup {None}
    /\ state \in [Instances -> {"none", "new", "started", "ended", "destroyed"}]
    /\ list \in (SUBSET Instances) \cup {None}
    /\ visited \subseteq Instances /\ calling \in Instances \cup {None}
    /\ trapped \subseteq Instances /\ mainTrapped \in BOOLEAN
    /\ post \in Timers \cup {None} /\ due \in Timers \cup {None}
    /\ stopPc \in {"idle", "walk", "join", "stopped"}
    /\ uvPc \in {"none", "timers", "again", "restart", "callback", "called", "poll", "closing",
                 "ended"}
    /\ handles \cup closing \subseteq Timers \cup {Async}
    /\ turn \cup deleted \cup heap \subseteq Timers
    /\ timeout \in {"none", "timer", "forever"}
    /\ dead \in {None, "assert", "memory assert", "freed memory"}

\* The values h of one option, given one after another: the last one whose side, k or v,
\* is this name, or the default.
LastWith(h, side, name, default) ==
    LET those == {n \in DOMAIN h : h[n][side] = name}
    IN IF those = {} THEN default ELSE h[Max(those)]

LastOf(h, default) == IF h = <<>> THEN default ELSE h[Len(h)]

\* Every directory is the one last mapped to its name, every variable has its last value,
\* argv and the limit are the last ones.
DirsFollow(dirs, h) ==
    LET default == WamrExtInstanceConfig.preOpenDirs IN
    /\ DOMAIN dirs = DOMAIN default \cup {h[n].v : n \in DOMAIN h}
    /\ \A d \in DOMAIN dirs : dirs[d] = LastWith(h, "v", d, [k |-> Lookup(default, d)]).k

EnvFollows(env, h) ==
    LET default == WamrExtInstanceConfig.envVars IN
    /\ DOMAIN env = DOMAIN default \cup {h[n].k : n \in DOMAIN h}
    /\ \A e \in DOMAIN env : env[e] = LastWith(h, "k", e, [v |-> Lookup(default, e)]).v

ArgvFollows(argv, h) ==
    LET last == LastOf(h, WamrExtInstanceConfig.args) IN
    DOMAIN argv = DOMAIN last /\ \A n \in DOMAIN last : argv[n] = last[n]

Limit(h) == RoundedToPages(LastOf(h, DefaultMaxMemory))

\* The option has not been given to the instance since start looked at its state.
Untouched(i, opt) == seen[i][opt] = Len(given[i][opt])

\* The arguments of an instance pass through the module, which other instances share, and
\* its defaults are copied while its module may get new ones.  Whatever other threads
\* create and start meanwhile and set elsewhere, and however often its own start has failed
\* before, it has the directories, the variables and the arguments of the options given for
\* it, none lost and none from elsewhere.  Start reads them without a lock: an option given
\* during start says nothing of its own kind.
InstanceGetsItsOptions ==
    \A i \in Instances : state[i] \in {"started", "ended"} =>
        /\ Untouched(i, "ADD_HOST_DIR") => DirsFollow(got[i].dirs, given[i]["ADD_HOST_DIR"])
        /\ Untouched(i, "ADD_ENV_VAR") => EnvFollows(got[i].env, given[i]["ADD_ENV_VAR"])
        /\ Untouched(i, "ARG") => ArgvFollows(got[i].argv, given[i]["ARG"])

\* The memory of the module that program p makes instance i from.
OwnMemory(p, i) ==
    p.memory[CHOOSE m \in Modules :
                \E c \in DOMAIN p.calls : \E n \in DOMAIN p.calls[c] :
                   p.calls[c][n].call = "start" /\ p.calls[c][n].inst = i /\ p.calls[c][n].module = m]

\* start rewrites the fields of the memory by hand, in 32 bits: they agree with each
\* other, with the bytes allocated and with the limit set for the instance, unless its
\* module has more, and the app heap ends where the memory does.  A guest with one page
\* is told its true size; one with more, which the assertion in start lets pass, is not.
\* For modules that do not grow, and if no limit is given during start.
MemoryConsistent ==
    \A i \in Instances :
        LET own == OwnMemory(prog, i)
            mem == memory[i]
            size == Max({own.memory_data_size, Limit(given[i]["MAX_MEMORY"])})
            told == WamrExtSysctl("sysinfo.vm_mem_total", mem, 0, 8)
        IN state[i] = "started" /\ Untouched(i, "MAX_MEMORY") /\ EnlargeAssert(own) =>
           /\ mem.memory_data_size = size /\ mem.allocated = size /\ mem.heap_data_end = size
           /\ mem.max_page_count = 1 => told.ret = 0 /\ told.value = size

\* An instance runs with the arguments and the memory that its options say.
InstanceAsConfigured == InstanceGetsItsOptions /\ MemoryConsistent

\* MiniApp ends by its own return, by _Exit after a failed main, or by _Exit from the
\* exception callback on the loop thread: whichever comes first, an app whose main
\* function has trapped never makes it end with the value the function left behind.
TrapFailsMiniApp == prog.miniApp /\ mainTrapped => exitStatus \in {None, -1}

\* "assert(ret == 0)" after uv_loop_close, and libuv's own that a handle is closed
\* once: Stop closes the handles from its thread while the loop runs their callbacks.
LoopClosesClean == dead # "assert"

\* The timer is posted while the loop may have decided already how long to poll: from
\* wamr_ext_init on the routine runs again and again until the process exits.
RoutineKeepsRunning ==
    []<>(uvPc = "callback" \/ ~initialized \/ stopPc # "idle" \/ ~Lives)

\* Stop joins a thread that may be polling, in a callback or about to restart its timer:
\* the join ends.
StopEnds == stopPc = "walk" ~> stopPc = "stopped" \/ ~Lives

=============================================================================
