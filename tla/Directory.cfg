SPECIFICATION Spec
CONSTANTS
    Names <- MCNames
    Alias <- MCAlias
    DirSlots = 2
    MaxClusters = 4
    Header <- MCDots
    PowerLoss = TRUE
INVARIANTS
    ListsKnown
    NoOrphanSlot
PROPERTIES
    OthersFound
    KeepsPromise
CONSTRAINT NoHole
