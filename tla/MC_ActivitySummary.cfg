SPECIFICATION Spec
CONSTANTS
    Subjects = {s1}
    Purposes = {analytics}
    Tables = {"events", "impressions"}
    NumDays = 4
    RowsPerDay = 1
    BatchSize = 1
    WindowDays = 3
    MaxRows = 2
INVARIANTS
    ReadIsComplete
    YieldedWasPermitted
    RevokedAreNotCounted
    NoGapBetweenRuns
PROPERTIES
    StoredCountsAreComplete
