CONSTANTS
    Names = {"a", "b"}
    NumClusters = 4
    Lengths = {1}
    MaxSize = 2
    CopyMax = 1
    PwdMax = 2
    Paths <- SomePaths
    Pairs <- SomePairs
SPECIFICATION Spec
CONSTRAINT Bounded
VIEW MCView
INVARIANTS TreeIntact PwdNamesCwd DiskHoldsTree
PROPERTIES KeepsTree
CHECK_DEADLOCK FALSE
