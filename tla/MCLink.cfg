SPECIFICATION BothSpec
CONSTANTS
    Manager = "Tcp"
    MaxConnections = 2
    MaxCalls = 2
    MaxReconnects = 1
    TimeoutSet = {FALSE}
    Failures = {"session pool"}
INVARIANTS OneWriteInFlight WireInOrder AcceptedIsClosedOnce AcceptedIsListedOpen
PROPERTY AcceptedIsReleased
CHECK_DEADLOCK FALSE
