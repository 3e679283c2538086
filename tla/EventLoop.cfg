SPECIFICATION FairSpec
CONSTANTS
    t1 = t1
    t2 = t2
    f1 = f1
    f2 = f2
    io = io
    Threads = {t1, t2}
    Functors = {f1, f2}
    IoChannels = {io}
    wakeupChannel = wakeupChannel
    MaxPosted = 3
INVARIANTS
    FifoNoLoss
    NoLostWakeup
    NoLostQuit
PROPERTIES
    QueueSpec
    QueuedRunsPromptly
    QuitStopsLoop
