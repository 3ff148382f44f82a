SPECIFICATION Spec
CONSTANTS
    Upstream = {"u1", "u2"}
    Local = {"l1", "l2"}
    UntilOf <- UntilOfMC
    LastRevision = 3
    Starts = {1}
    MaxRuns = 2
    MaxStops = 1
    MaxEdits = 2
INVARIANTS
    TypeOK
    ListedPatchesExist
    CommitsAreComplete
PROPERTIES
    SortedAsDocumented
CHECK_DEADLOCK FALSE
