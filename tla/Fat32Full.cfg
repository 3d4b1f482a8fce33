SPECIFICATION Spec
CONSTANTS
    na = na
    nb = nb
    nc = nc
    u = u
    v = v
    Names <- MCNames
    Payloads <- MCParts
    NumClusters = 4
    ClusUnits = 2
    DirSlots = 1
    MaxUnits = 4
    PowerLoss = FALSE
    WriteErrors = FALSE
    Eoc = 268435455
    EocVictim = 0
INVARIANTS
    NoLostCluster
    ReadBack
