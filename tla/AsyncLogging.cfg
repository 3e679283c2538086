SPECIFICATION FairSpec
CONSTANTS
    BufferSize = 2
    DropAbove = 3
    MaxMessages = 12
INVARIANT
    LogSound
PROPERTY
    Logged
CHECK_DEADLOCK FALSE
