SPECIFICATION FairSpec
CONSTANTS
    NumThreads = 3
    MaxCalls = 2
    LoopsMayQuit = TRUE
INVARIANTS
    PoolSound
PROPERTY
    OwnerReturns
CHECK_DEADLOCK FALSE
