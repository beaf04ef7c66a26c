SPECIFICATION FairSpec
CONSTANTS
    Procs = {p1, p2, p3}
    Idle = idle
    WaitStates <- MCWaitStates
    WaitState = "WT_USEM"
    InitValue = 1
    Timeouts = {1, 2}
    NoTimer <- MCNoTimer
    MaxPosts = 2
INVARIANTS
    WaitQueueExact
    TokensConserved
    NothingOutlivesTheCall
PROPERTIES
    TimedWaitsEnd
