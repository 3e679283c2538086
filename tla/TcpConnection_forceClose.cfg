SPECIFICATION Spec
CONSTANTS
    t1 = t1
    Threads = {t1}
    ForeignOps = {"forceClose"}
    LoopOps = {}
    SameLoop = FALSE
    ServerMayDie = FALSE
    MsgLen = 2
    SndBuf = 1
    HighWaterMark = 2
    MaxSend = 2
    MaxClose = 1
    MaxInput = 1
INVARIANTS
    ErasedOnce
CHECK_DEADLOCK FALSE
