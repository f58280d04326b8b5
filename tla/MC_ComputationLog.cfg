SPECIFICATION FairSpec
CONSTANTS
    NumTypes = 2
    MaxRuns = 3
    MaxStops = 2
    MaxFaults = 1
INVARIANTS
    OnlyTheLiveRunIsRunning
    LastComputedIsReal
    ServedRunIsLogged
PROPERTIES
    OutcomeIsFinal
    LeftoverRunsAreClosed
    EveryComputationGetsItsTurn
