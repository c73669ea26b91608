SPECIFICATION FairSpec
CONSTANTS
    Instances = {i1, i2}
    Clients = {c1}
    Loop = Loop
    None = None
    StartFaults = {"exec env"}
PROPERTIES
    TrapNoticed
    DestroyedIsFreed
CHECK_DEADLOCK FALSE
