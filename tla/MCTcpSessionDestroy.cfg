SPECIFICATION Spec
CONSTANTS
    Links = {l1, l2}
    Sessions = {s1, s2}
    None = None
    Threads = {2}
    MaxToken = 2
SYMMETRY Symmetry
INVARIANT DestroyedIsIdle
CHECK_DEADLOCK FALSE
