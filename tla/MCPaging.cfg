SPECIFICATION Spec
CONSTANTS
    Spaces = {s1, s2}
    Shm = shm
    Pages = {v1, v2}
    Shared = {v2}
    Frames = {f1, f2}
    Entries = {e1, e2}
    None = none
SYMMETRY Symmetry
INVARIANTS
    CountsExact
    CacheConsistent
    WritableIsPrivate
    WaitersServed
    OnlyForgottenIsLost
