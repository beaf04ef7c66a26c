SPECIFICATION FairMutexSpec
CONSTANTS
    Procs = {p1, p2, p3, p4}
    Idle = idle
    WaitStates <- MCWaitStates
    WaitState = "WT_KSEM"
INVARIANTS
    MutualExclusion
PROPERTIES
    NoStarvation
    ImplementsFifoLock
