SPECIFICATION Spec
CONSTANTS
    N = 4
    First = 1
    Mss = 3
    RingSize = 4
    MaxConns = 2
    NetCap = 2
    Faults = FALSE
    HeaderLen = 2
    HdrCap = 2
    RespCap = 3
INVARIANT BodyExact
CHECK_DEADLOCK FALSE
