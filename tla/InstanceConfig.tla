---------------------------- MODULE InstanceConfig ----------------------------
(***************************************************************************)
(* The options of an instance, what start makes of them, and what sysctl   *)
(* tells the guest.  Pure: a configuration and a memory are records.       *)
(* Sizes are in units that stand for bytes, scaled down with the page size *)
(* and the width of uint32_t.                                              *)
(***************************************************************************)
EXTENDS Naturals, Sequences

CONSTANTS
    WASM_PAGE_SIZE,
    UInt32,            \* one more than the largest uint32_t
    DefaultMaxMemory,  \* 4194304
    TempDir,           \* the host's temporary directory
    Separated,         \* command names with a '/' or a '\' in them
    NULL

ASSUME SizesAssumption ==
    /\ WASM_PAGE_SIZE \in Nat \ {0} /\ UInt32 \in Nat
    /\ DefaultMaxMemory \in WASM_PAGE_SIZE .. UInt32 - 1

EINVAL == 22
UVWASI_EINVAL == 28
UVWASI_ERANGE == 68

RoundedToPages(n) == (n \div WASM_PAGE_SIZE) * WASM_PAGE_SIZE

WamrExtInstanceConfig ==
    [preOpenDirs |-> [d \in {"/etc", "/dev", "/tmp"} |-> IF d = "/tmp" THEN TempDir ELSE d],
     envVars |-> [e \in {"TMPDIR"} |-> "/tmp"],
     hostCmdWhitelist |-> [cmd \in {"uname", "ping"} |-> cmd],
     args |-> <<>>,
     maxMemory |-> RoundedToPages(DefaultMaxMemory),
     exceptionCB |-> FALSE]

-----------------------------------------------------------------------------
\* std::map: map[k] = v.
Put(map, k, v) == [x \in DOMAIN map \cup {k} |-> IF x = k THEN v ELSE map[x]]

Accept(config) == [ret |-> 0, config |-> config]
Reject(config) == [ret |-> EINVAL, config |-> config]

\* An entry is [k |-> key, v |-> value]; a directory is stored under v.
SetMaxMemory(config, bytes) ==
    IF RoundedToPages(bytes) = 0 THEN Reject(config)
    ELSE Accept([config EXCEPT !.maxMemory = RoundedToPages(bytes)])

AddHostCommand(config, entry) ==
    IF entry.k \in Separated THEN Reject(config)
    ELSE Accept([config EXCEPT !.hostCmdWhitelist = Put(@, entry.k, entry.v)])

WamrExtSetInstanceOpt(config, opt, value) ==
    IF value = NULL THEN Reject(config) ELSE
    CASE opt = "ADD_HOST_DIR" -> Accept([config EXCEPT !.preOpenDirs = Put(@, value.v, value.k)])
      [] opt = "ADD_ENV_VAR" -> Accept([config EXCEPT !.envVars = Put(@, value.k, value.v)])
      [] opt = "ARG" -> Accept([config EXCEPT !.args = value])
      [] opt = "EXCEPTION_CALLBACK" -> Accept([config EXCEPT !.exceptionCB = TRUE])
      [] opt = "ADD_HOST_COMMAND" -> AddHostCommand(config, value)
      [] opt = "MAX_MEMORY" -> SetMaxMemory(config, value)
      [] OTHER -> Reject(config)

\* Names WamrExtCheckNewModuleName refuses.
BadModuleName(name) == name \in {NULL, "", "wasi_snapshot_preview1", "wamr_ext"}

-----------------------------------------------------------------------------
\* The default memory of a wasm instance, its app heap included: cur and max pages
\* of num_bytes_per_page, the heap from heap_data to heap_data_end, offsets into it,
\* and the bytes allocated for it.
ExternalMemory(cur, max, bytes, heap) ==
    [cur_page_count |-> cur, max_page_count |-> max, num_bytes_per_page |-> bytes,
     memory_data_size |-> cur * bytes, heap_data |-> heap, heap_data_end |-> cur * bytes,
     allocated |-> cur * bytes]

MaxBytes(mem) == (mem.max_page_count * mem.num_bytes_per_page) % UInt32

\* start reads config.maxMemory anew in each of these: limit is what it finds.
ToEnlarge(mem, limit) == limit > MaxBytes(mem)

HeapAssert(mem) == mem.heap_data < mem.heap_data_end

\* C compares the truth value of max == cur with 1.
EnlargeAssert(mem) == mem.max_page_count = mem.cur_page_count

\* Mutant: the heap takes the whole of the new memory.
HeapOfAll(mem, limit) == limit

HeapSize(mem, limit) ==
    ((mem.heap_data_end - mem.heap_data) + (limit - MaxBytes(mem))) % UInt32

Resized(mem, limit, heapSize) ==
    [mem EXCEPT !.memory_data_size = limit, !.heap_data_end = mem.heap_data + heapSize]

-----------------------------------------------------------------------------
\* The size of what each name tells; others are refused.
SysctlSize ==
    [name \in {"sysinfo.tid", "sysinfo.pid", "sysinfo.cpu_count", "sysinfo.vm_mem_total",
               "sysinfo.vm_mem_avail"} |->
        IF name \in {"sysinfo.vm_mem_total", "sysinfo.vm_mem_avail"} THEN 8 ELSE 4]

\* What the guest is told; free is the allocator's count of free bytes.
SysctlValue(name, mem, free) ==
    CASE name = "sysinfo.vm_mem_total" -> mem.num_bytes_per_page * mem.max_page_count
      [] name = "sysinfo.vm_mem_avail" -> free
      [] OTHER -> NULL

WamrExtSysctl(name, mem, free, bufLen) ==
    IF bufLen = 0 THEN [ret |-> UVWASI_ERANGE, bufLen |-> bufLen]
    ELSE IF name \notin DOMAIN SysctlSize THEN [ret |-> UVWASI_EINVAL, bufLen |-> bufLen]
    ELSE IF bufLen < SysctlSize[name] THEN [ret |-> UVWASI_ERANGE, bufLen |-> bufLen]
    ELSE [ret |-> 0, bufLen |-> SysctlSize[name], value |-> SysctlValue(name, mem, free)]

=============================================================================
