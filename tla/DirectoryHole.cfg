SPECIFICATION Spec
CONSTANTS
    Names <- MCNames
    Alias <- MCAlias
    DirSlots = 4
    MaxClusters = 2
    Header <- MCLabel
    PowerLoss = FALSE
INVARIANT
    CreatedIsFound
