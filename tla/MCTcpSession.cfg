SPECIFICATION FairSpec
CONSTANTS
    Links = {l1, l2, l3}
    Sessions = {s1, s2}
    None = None
    Threads = {1, 2, 3}
    MaxToken = 3
INVARIANTS PointsHome ClosedHasNoSession PointersAgree TokenUsedOncePerThread
PROPERTY AbandonedIsDestroyed
CHECK_DEADLOCK FALSE
