SPECIFICATION FairSpec
CONSTANTS
    Addrs = {1, 2}
    MaxTimers = 3
    MaxNow = 2
    MaxCancels = 1
    Delays = {0, 2}
    Intervals = {0, 1}
    ForeignCalls = TRUE
INVARIANTS
    TimersAccounted
    NoOversleep
    BatchSound
PROPERTY
    TimerRuns
CHECK_DEADLOCK FALSE
