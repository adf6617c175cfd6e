SPECIFICATION Spec
CONSTANTS
    Manager = "Tcp"
    MaxConnections = 1
    MaxCalls = 1
    MaxReconnects = 0
    TimeoutSet = {FALSE}
    Failures = {}
INVARIANTS NoCrash
CHECK_DEADLOCK FALSE
