SPECIFICATION Spec
CONSTANTS
    t1 = t1
    Threads = {t1}
    ForeignOps = {}
    LoopOps = {"shutdown"}
    SameLoop = TRUE
    ServerMayDie = TRUE
    MsgLen = 2
    SndBuf = 1
    HighWaterMark = 2
    MaxSend = 2
    MaxClose = 1
    MaxInput = 1
INVARIANTS
    RemovedDisabled
CHECK_DEADLOCK FALSE
