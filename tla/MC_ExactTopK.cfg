SPECIFICATION TopKFairSpec
CONSTANTS
    NumRows = 5
    BlockRows = 2
    K = 2
    Threads = 2
    MaxCrashes = 1
    Catalogs <- Cosines
INVARIANTS
    HandedAreExact
PROPERTIES
    EveryBlockIsHandedOut
