SPECIFICATION Spec
CONSTANTS
    c1 = c1
    c2 = c2
    c3 = c3
    c4 = c4
    Channels = {c1, c2, c3, c4}
    Fds = {0, 1, 2}
    Reenable = TRUE
    DisableNew = FALSE
SYMMETRY Symmetry
INVARIANT
    WatchesInterest
CHECK_DEADLOCK FALSE
