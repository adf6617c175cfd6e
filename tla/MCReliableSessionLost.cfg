SPECIFICATION Spec
CONSTANTS
    MaxConnections = 3
    MaxSeq = 4
    HeartBeatInterval = 10
    Serial = TRUE
    SendFails = FALSE
INVARIANT InOrder
CHECK_DEADLOCK FALSE
