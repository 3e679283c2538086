SPECIFICATION Spec
CONSTANTS
    BufferSize = 2
    DropAbove = 3
    MaxMessages = 12
INVARIANT
    NothingLeft
CHECK_DEADLOCK FALSE
