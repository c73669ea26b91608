SPECIFICATION Spec
CONSTANTS
    Threads = {t1, t2}
    Main = Main
    NoThread = NoThread
    HandleMod = 3
    HeapStacks = 1
    AuxStackFails = FALSE
    SpuriousWakeups = FALSE
    DtorsSpawn = FALSE
INVARIANT CleanupAssert
SYMMETRY Symmetry
CHECK_DEADLOCK FALSE
