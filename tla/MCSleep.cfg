SPECIFICATION SleepSpec
CONSTANTS
    Procs = {p1, p2, p3}
    Owners = {p1, p2, p3}
    Idle = idle
    WaitStates <- MCWaitStates
    SleepTimes = {1, 2, 3}
    Off <- MCOff
INVARIANTS
    OnRunQueue
    SleepsExactly
PROPERTIES
    ImplementsAlarms
