SPECIFICATION SumSpec
CONSTANTS
    HEADER_SIZE = 2
    MAX_SIZE = 6
    MaxPackets = 4
    Workers = {1, 2, 3}
    MaxTasks = 3
INVARIANTS Framed TasksGoOn HttpAnswers
PROPERTIES EverythingHandled EverybodyGoesOn UnityCloses
CHECK_DEADLOCK FALSE
