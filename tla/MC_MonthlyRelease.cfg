SPECIFICATION FairSpec
CONSTANTS
    Versions = {v2, v3}
    Releases = {v1, v2, v3}
    First = v1
    None = None
    Artists = {"a1", "a2"}
    Edges <- Catalog
    Imported <- Released
    Relations <- TwoRelations
    Counted = {"by_artist"}
    MaxImports = 1
    NumBlocks = 2
    Builds = 2
    MaxDeaths = 1
    MaxFailures = 1
    MaxReverts = 1
INVARIANTS
    TypeOK
    EmbeddingsCoverTheGraph
    StoredListsAreExact
    CanRollBack
    OnlyTwoAreKept
PROPERTIES
    PublishedAreNotRewritten
    EveryDumpIsPublished
