SPECIFICATION Spec
CONSTANTS
    Spawners = {t1}
    Waiters = {t1}
    FDs = {f1}
    PIDs = {p1}
    Host = Host
    Descendant = Descendant
    None = None
    ChildrenFork = TRUE
    OthersReap = FALSE
INVARIANT PipeTellsAlive
