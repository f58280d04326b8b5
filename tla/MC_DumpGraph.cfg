SPECIFICATION FairSpec
CONSTANTS
    Releases <- ThreeReleases
    Masters <- OneMaster
    Artists = {"a1", "a2", "a3"}
    Names = {"x", "y", "z"}
    Weights <- TwoWeights
    None = None
    Torn = Torn
    MaxAttempts = 2
    MaxBreaks = 3
    MaxDeaths = 2
INVARIANTS
    TypeOK
    EveryRecordOnce
    CreditsResolveGlobally
PROPERTIES
    EveryOutputIsWritten
