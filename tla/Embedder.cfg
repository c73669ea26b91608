SPECIFICATION FairSpec
CONSTANTS
    c1 = c1
    c2 = c2
    i1 = i1
    i2 = i2
    m1 = m1
    m2 = m2
    Clients = {c1, c2}
    Instances = {i1, i2}
    Modules = {m1, m2}
    Timers = {t1, t2}
    Async = Async
    None = None
    NULL = NULL
    WASM_PAGE_SIZE = 4
    UInt32 = 64
    DefaultMaxMemory = 17
    TempDir = "/data"
    Separated = {"a/b"}
    Programs <- MCPrograms
INVARIANTS
    TypeOK
    InstanceAsConfigured
    TrapFailsMiniApp
    LoopClosesClean
PROPERTIES
    RoutineKeepsRunning
    StopEnds
CHECK_DEADLOCK FALSE
