SPECIFICATION Spec
CONSTANTS
    na = na
    nb = nb
    nc = nc
    u = u
    v = v
    Names <- MCThree
    Payloads <- MCTwo
    NumClusters = 3
    ClusUnits = 1
    DirSlots = 1
    MaxUnits = 2
    PowerLoss = TRUE
    WriteErrors = TRUE
    Eoc = 268435455
    EocVictim = 0
INVARIANTS
    TypeOK
    NoCrossLink
    NoDangling
    DirIsDir
    ChainsEnd
PROPERTY
    OthersKept
SYMMETRY MCSymmetry
VIEW MCView
