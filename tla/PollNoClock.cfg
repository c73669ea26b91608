SPECIFICATION Spec
CONSTANTS
    t1 = t1
    t2 = t2
    Threads = {t1, t2}
    AppFDs = {0, 1, 2, 3}
    HostFDs = {0, 1, 2, 3, 4, 5, 6}
    None = None
    Programs <- PollingOnly
    NsPerMs = 2
    MaxPoll = 2
    MaxSleep = 9
    Forever = 19
INVARIANTS
    PollTimesOutForClock
CHECK_DEADLOCK FALSE
