SPECIFICATION FairSpec
CONSTANTS
    Versions = {v1, v2}
    Parts = 3
    None = None
    Torn = Torn
    MaxDeaths = 2
CHECK_DEADLOCK FALSE
INVARIANTS
    TypeOK
    MeasurementsAreSound
    ResultIsWhole
    LargerVariantRisksNothing
PROPERTIES
    MeasurementFinishes
