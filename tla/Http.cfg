SPECIFICATION FairSpec
CONSTANTS
    N = 3
    First = 1
    Mss = 2
    RingSize = 3
    MaxConns = 2
    NetCap = 2
    Faults = TRUE
    HeaderLen = 1
    HdrCap = 1
    RespCap = 2
INVARIANTS
    AckedIsKept
    OwnDataOnly
    BodyExact
PROPERTIES
    ConnectEnds
    GetReturns
CHECK_DEADLOCK FALSE
