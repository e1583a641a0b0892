SPECIFICATION FairSpec
CONSTANTS
    Openers = {p1, p2, p3}
    MaxFaults = 1
INVARIANTS
    VersionTellsColumns
    OpenMeansComplete
    HalvesAreInProgress
PROPERTIES
    RetriedOpensSucceed
