SPECIFICATION FairSpec
CONSTANTS
    w1 = w1
    w2 = w2
    c1 = c1
    c2 = c2
    c3 = c3
    Workers = {w1, w2}
    Callers = {c1, c2, c3}
    MaxQueueSize = 2
    MaxTasks = 5
INVARIANTS
    QueueSound
    NobodyOversleeps
PROPERTIES
    StopReturns
    TasksRun
CHECK_DEADLOCK FALSE
