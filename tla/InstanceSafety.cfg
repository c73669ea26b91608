SPECIFICATION Spec
CONSTANTS
    Instances = {i1, i2}
    Clients = {c1, c2}
    Loop = Loop
    None = None
    StartFaults = {"instantiate", "exec env", "memory"}
SYMMETRY Symmetry
INVARIANTS
    TypeOK
    StartedIsLive
    GuestRunsAlone
    CallbackOnce
    FreedAfterTeardown
PROPERTIES
    StateForward
    LostByHalfStartOnly
CHECK_DEADLOCK FALSE
