SPECIFICATION Spec
CONSTANTS
    MaxConnections = 3
    MaxSeq = 4
    HeartBeatInterval = 3
    Serial = FALSE
    SendFails = TRUE
CONSTRAINT Unspoiled
INVARIANTS QueuedUntilHandled
PROPERTY ExactlyOnce
CHECK_DEADLOCK FALSE
