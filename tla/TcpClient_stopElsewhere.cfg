SPECIFICATION Spec
CONSTANTS
    MaxConnects = 1
    HastyConnect = FALSE
    StopElsewhere = TRUE
    DestroyEarly = FALSE
PROPERTY StopHolds
CHECK_DEADLOCK FALSE
