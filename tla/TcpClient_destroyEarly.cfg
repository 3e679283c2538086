SPECIFICATION Spec
CONSTANTS
    MaxConnects = 1
    HastyConnect = FALSE
    StopElsewhere = FALSE
    DestroyEarly = TRUE
INVARIANT ClientSound
CHECK_DEADLOCK FALSE
