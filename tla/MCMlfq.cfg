SPECIFICATION FairSpec
CONSTANTS
    Procs = {p1, p2, p3}
    Idle = idle
    WaitStates <- MCWaitStates
    Levels = 3
    BaseSlice = 1
INVARIANTS
    QueuesConsistent
PROPERTIES
    ImplementsScheduler
    QueuesServed
