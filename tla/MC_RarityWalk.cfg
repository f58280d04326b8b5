SPECIFICATION FairSpec
CONSTANTS
    Walks = {w1, w2}
    NumReleases = 2
    PageSize = 1
    MaxAttempts = 2
INVARIANTS
    RankedAgainstAll
    TableIsOneWalk
PROPERTIES
    StoredIsComplete
    EveryWalkEnds
