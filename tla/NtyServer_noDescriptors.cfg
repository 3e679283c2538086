SPECIFICATION FairSpec
CONSTANTS
    Servers = 2
    Fds = 1
    MaxConns = 2
    MaxRequests = 2
    Pieces = 2
    MaxErrors = 1
    MaxSpins = 1
INVARIANT Scheduled
