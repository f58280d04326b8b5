SPECIFICATION Spec
CONSTANTS
    NumTypes = 1
    MaxRuns = 1
    MaxStops = 1
    MaxFaults = 0
INVARIANTS
    SigtermClosesTheRun
