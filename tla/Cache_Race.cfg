SPECIFICATION FairSpec
CONSTANTS
    Keys = {k1}
    Requests = {r1, r2}
    MaxVersion = 2
    MaxGen = 2
    MaxFaults = 2
    MaxRestarts = 1
INVARIANTS
    EntriesAreFresh
    AnswersAreFresh
PROPERTIES
    CommitsBecomeDue
    ImplementsFreshReads
