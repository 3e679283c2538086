SPECIFICATION FairSpec
CONSTANTS
    MaxConnects = 3
    HastyConnect = FALSE
    StopElsewhere = FALSE
    DestroyEarly = FALSE
INVARIANT ClientSound
PROPERTIES
    StopHolds
    Reconnects
CHECK_DEADLOCK FALSE
