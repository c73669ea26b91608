SPECIFICATION Spec
CONSTANTS
    Spawners = {t1}
    Waiters = {t1, t2}
    FDs = {f1, f2}
    PIDs = {p1, p2}
    Host = Host
    Descendant = Descendant
    None = None
    ChildrenFork = FALSE
    OthersReap = FALSE
INVARIANT RightChild
