SPECIFICATION Spec
CONSTANTS
    Readers = {c1}
    None = None
    Limit = 3
    PipeSize = 1
    CharSize = 2
    PageSize = 2
    Contents <- MCContents
    MaxFaults = 1
INVARIANTS
    OverflowIsMarked
