SPECIFICATION FairSpec
CONSTANTS
    client = client
    server = server
    Peers = {client, server}
    Senders = {client}
    SnMod = 16
    Start = 14
    SndWnd = 2
    RcvWnd = 2
    Mss = 2
    NoCwnd = FALSE
    FastResend = 1
    FastLimit = 1
    Parts = {1, 2}
    PerDatagram = 2
    MaxSegments = 3
    NetCap = 2
    MaxAcks = 2
    MaxFaults = 1
INVARIANT
    Accounted
PROPERTIES
    ChannelSpec
    Delivered
CHECK_DEADLOCK FALSE
