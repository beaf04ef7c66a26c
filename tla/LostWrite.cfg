SPECIFICATION Spec
CONSTANTS
    Spaces = {s1, s2}
    Shm = shm
    Pages = {v1}
    Shared = {}
    Frames = {f1, f2}
    Entries = {e1, e2}
    None = none
INVARIANT WritesAreKept
