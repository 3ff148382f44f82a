SPECIFICATION Spec
CONSTANTS
    Builds = {"6700001", "6700002"}
    Profiled = {"6700001"}
    HostChoices <- HostChoicesMC
    MaxRuns = 3
    MaxStops = 1
    MaxSubmits = 1
INVARIANTS
    TypeOK
    UploadedIsWhole
    AllOrNothing
    UploadedIsChecked
    MixedOnlyAfterStop
    BlockedOnlyAfterStop
CHECK_DEADLOCK FALSE
