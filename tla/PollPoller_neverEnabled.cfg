SPECIFICATION Spec
CONSTANTS
    c1 = c1
    c2 = c2
    c3 = c3
    c4 = c4
    Channels = {c1, c2, c3, c4}
    Fds = {0, 1, 2}
    Reenable = FALSE
    DisableNew = TRUE
SYMMETRY Symmetry
INVARIANT
    RemovedIsIgnored
CHECK_DEADLOCK FALSE
