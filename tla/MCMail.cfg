SPECIFICATION FairSpec
CONSTANTS
    k1 = k1
    k2 = k2
    c1 = c1
    c2 = c2
    m1 = m1
    n1 = n1
    NoKey = NoKey
    NoReader = NoReader
    Keys <- MCKeys
    Conns <- MCConns
    Says <- MCSays
    Msgs <- MCMsgs
    Notices <- MCNotices
    MaxId = 3
    Depth = 1
    MaxFaults = 1
INVARIANTS OneReader CountsConnections OneWriterPerId Kept
PROPERTIES MailArrives
CHECK_DEADLOCK FALSE
