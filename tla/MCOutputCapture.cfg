SPECIFICATION FairSpec
CONSTANTS
    Readers = {c1}
    None = None
    CharSize = 2
    Limit = 3
    PipeSize = 1
    PageSize = 2
    Contents <- MCContents
    MaxFaults = 1
INVARIANTS
    ExitedOutputIsWhole
    TextStaysText
PROPERTIES
    TaskEnds
    ImplementsFollowedOutput
