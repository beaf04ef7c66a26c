SPECIFICATION Spec
CONSTANTS
    Procs = {p1, p2, p3}
    Owners = {p1, p2, p3}
    Idle = idle
    Off = off
    b1 = b1
    WaitStates <- MCWaitStates
    Pages <- MCPages
    Messages = {m1, m2, m3}
    Sizes = {1, 2}
    MaxSlots = {1, 2}
    Timeouts = {1}
SYMMETRY Symmetry
INVARIANTS
    NoMissedMeeting
    MessagesHeldOnce
    BoxesOutliveCallers
