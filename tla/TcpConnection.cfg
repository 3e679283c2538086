SPECIFICATION FairSpec
CONSTANTS
    t1 = t1
    Threads = {t1}
    ForeignOps = {"send"}
    LoopOps = {"send", "shutdown", "forceClose", "forceCloseWithDelay"}
    SameLoop = FALSE
    ServerMayDie = FALSE
    MsgLen = 2
    SndBuf = 1
    HighWaterMark = 2
    MaxSend = 2
    MaxClose = 1
    MaxInput = 1
INVARIANTS
    LifeSound
    NothingReordered
    OrderPerThread
    OutputSound
PROPERTIES
    SessionSpec
    CloseCompletes
    ShutdownCompletes
CHECK_DEADLOCK FALSE
