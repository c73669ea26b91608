SPECIFICATION FairSpec
CONSTANTS
    Spawners = {t1, t2}
    Waiters = {t1}
    FDs = {f1, f2, f3}
    PIDs = {p1, p2}
    Host = Host
    Descendant = Descendant
    None = None
    ChildrenFork = FALSE
    OthersReap = TRUE
INVARIANTS
    PipeTellsAlive
    RightChild
PROPERTY WaitEnds
