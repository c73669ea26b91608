SPECIFICATION FairSpec
CONSTANTS
    Threads = {t1, t2, t3}
    Main = Main
    NoThread = NoThread
    HandleMod = 4
    HeapStacks = 2
    AuxStackFails = TRUE
    SpuriousWakeups = TRUE
    DtorsSpawn = FALSE
INVARIANTS
    TypeOK
    InfoOutlivesThread
    JoinedOrDetachedBeforeFree
    InfoFreedOnce
    NoLostWakeup
    HandlesConsistent
    QuietAfterCleanup
    OneEntryLeftByCleanup
    TrapReachesMain
PROPERTIES
    ImplementsAppThreads
    CleanupTerminates
CHECK_DEADLOCK FALSE
