SPECIFICATION Spec
CONSTANTS
    Addrs = {1, 2}
    MaxTimers = 2
    MaxNow = 2
    MaxCancels = 1
    Delays = {0, 1}
    Intervals = {0}
    ForeignCalls = FALSE
PROPERTY
    CanceledNeverRuns
CHECK_DEADLOCK FALSE
