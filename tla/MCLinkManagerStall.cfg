SPECIFICATION Spec
CONSTANTS
    Links = {l1, l2}
    KeepAlive = TRUE
    Outbound = FALSE
SYMMETRY LinkSymmetry
INVARIANT EmptyServerAccepts
CHECK_DEADLOCK FALSE
