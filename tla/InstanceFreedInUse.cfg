SPECIFICATION Spec
CONSTANTS
    Instances = {i1}
    Clients = {c1, c2}
    Loop = Loop
    None = None
    StartFaults = {}
INVARIANT DestroyCallDone
CHECK_DEADLOCK FALSE
