CONSTANTS
    Peers = {p1, p2}
    Local = local
    Sessions = {s1, s2, s3}
    Users = {u1}
    None = None
    MaxSends = 2
    OneAtATime = TRUE
SPECIFICATION Spec
SYMMETRY RouterSymmetry
INVARIANTS RoutedIsUp TablesAgree OwnAnswer
CHECK_DEADLOCK FALSE
