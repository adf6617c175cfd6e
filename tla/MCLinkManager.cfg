SPECIFICATION FairSpec
CONSTANTS
    Links = {l1, l2, l3}
    KeepAlive = TRUE
    Outbound = TRUE
INVARIANTS OneAcceptChain TimeoutOfThisConnection EveryConnectionListed
PROPERTIES AcceptsAgain IdleIsClosed
