SPECIFICATION Spec
CONSTANTS
    MaxConnects = 2
    HastyConnect = TRUE
    StopElsewhere = FALSE
    DestroyEarly = FALSE
INVARIANT ClientSound
CHECK_DEADLOCK FALSE
