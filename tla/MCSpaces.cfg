SPECIFICATION SpacesSpec
CONSTANTS
    Space1 = s1
    Space2 = s2
    Base = 2
    BrkStart = 3
    Sizes <- MCSizes
    RB_MIN_MAP_COUNT = 2
    None = None
    Tasks = {t1, t2, t3, t4}
    MaxTasks = 3
    First = t1
    MmIds = {1, 2}
    QueueIds = {1, 2}
    SemIds = {1}
    MaxCount = 2
SYMMETRY MCSymmetry
INVARIANTS
    AreasConsistent
    LookupsExact
    CallsExact
    SharersCounted
CHECK_DEADLOCK FALSE
