SPECIFICATION FairSpec
CONSTANTS
    NumThreads = 1
    MaxCalls = 1
    LoopsMayQuit = FALSE
PROPERTY
    HastyDestructorReturns
CHECK_DEADLOCK FALSE
