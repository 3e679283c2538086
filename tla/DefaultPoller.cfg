SPECIFICATION DefaultSpec
CONSTANTS
    c1 = c1
    c2 = c2
    c3 = c3
    c4 = c4
    Channels = {c1, c2, c3, c4}
    Fds = {0, 1, 2}
    NoFd = NoFd
    Reenable = FALSE
    DisableNew = FALSE
SYMMETRY Symmetry
INVARIANTS
    TableSound
    ArraySound
PROPERTIES
    PollerSpec
    ArrayPollerSpec
CHECK_DEADLOCK FALSE
