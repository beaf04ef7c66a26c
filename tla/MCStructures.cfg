SPECIFICATION StructuresSpec
CONSTANTS
    MAX_PID = 7
    MAX_PROCESS = 5
    RbNodes = {1, 2, 3, 4, 5, 6, 7, 8}
    Zones <- MCZones
    MAX_ORDER = 2
    SlabCache <- MCCaches
    NoCache = "none"
    Callers = {c1, c2}
    NrPages = 5
    BrkBase = 2
    BrkTop = 8
    ShmBase = 8
    ShmTop = 14
    PageUnits = 2
    Requests = {1, 3}
    PipeUsers = {1, 2, 3}
    HandleOf <- MCHandles
    SPIPE_BUFSIZE = 2
    MaxBytes = 4
    N = 5
    TIMES = 2
SYMMETRY MCSymmetry
INVARIANTS
    PidsUnique
    TreeExact
    FreeListsExact
    SlabsExact
    HeapExact
    PipeIsFifo
PROPERTIES
    ScanEnds
    PhilosophersDine
CHECK_DEADLOCK FALSE
