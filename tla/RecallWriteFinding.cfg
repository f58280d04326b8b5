SPECIFICATION Spec
CONSTANTS
    Versions = {v1}
    Parts = 3
    None = None
    Torn = Torn
    MaxDeaths = 0
CHECK_DEADLOCK FALSE
INVARIANTS
    MonthIsWrittenWhole
