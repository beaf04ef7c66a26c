SPECIFICATION Spec
CONSTANTS
    Procs = {p1, p2, p3}
    Idle = idle
    WaitStates <- MCWaitStates
    Values = {v1, v2}
    Timeouts = {1}
    NoTimer <- MCNoTimer
SYMMETRY Symmetry
INVARIANTS
    SuccessIffReceived
    NothingMissed
    SendersWait
