SPECIFICATION SumSpec
CONSTANTS
    Transactions = {t1, t2, t3}
    Connections = {c1, c2, c3}
    None = None
    max_size = 2
    Statements = 2
    Null = Null
    CurlBytes = {"a", "b"}
    CurlParams <- SomeParams
    CurlCalls = 2
    CurlPerforms = 1
    MaxSockets = 2
    UnityMessages = 2
    UnityUnits = 2
    UnityTraffic = 3
    MaxPartials = 1
    BufferUnits = 2
    Sizes = {0, 1, 5, 10, 11, 25, 26, 27, 31, 58, 80}
    PACKET_HEADER_SIZE = 6
    UNITY_BUFFER_SIZE = 16
    LengthBits = 5
    LoadSessions = {1, 2}
    session_count = 2
    loop_count = 3
    Tests = 3
    MaxNotices = 1
    LogThreads = {1, 2}
    PerDay = 2
    filesize_ = 1
    Configurations <- SomeConfigurations
    MaxTime = 4
    MaxWrites = 5
    Capacities = {0, 1, 2, 3}
    SizeBits = 4
    MaxObjects = 4
    PoolCalls = 6
    Messages = {1, 2}
    Sessions = {1, 2}
    HandlerCapacity = 2
    MaxBindings = 2
    MaxClients = 2
INVARIANTS
    Exclusive Atomic CleanInPool
    RepliesAreRead OwnRequest UnityPacketsWhole UnityQueue LoadIsCounted GeneratedCodeAgrees
    CommentsAreComments UtilitiesCompute ObjectsInPlace InitsInOrder LinesAreLogged
CONSTRAINT UnityGoesOn
CHECK_DEADLOCK FALSE
