SPECIFICATION Spec
CONSTANTS
    Procs = {init, p1, p2, p3}
    InitProc = init
    Idle = idle
    None = none
    E_KILLED = "E_KILLED"
    Codes = {"E_KILLED"}
    WaitStates <- MCWaitStates
SYMMETRY ProcSymmetry
INVARIANTS
    NoZombieMissed
    LivingParents
    NoThreadSurvives
PROPERTIES
    UsesSchedulerProperly
