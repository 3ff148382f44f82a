SPECIFICATION Spec
CONSTANTS
    Objects = {"a", "b"}
    Late = {"c"}
    Sides <- SidesMC
    Linked = {"b"}
    MaxFaults = 2
    MaxRounds = 2
INVARIANTS
    TypeOK
    ListedIsCached
    CachesStayWhole
    RaisedForGoodReason
PROPERTIES
    OnlySafeModeRewrites
    PopulateEnds
    ImplementsSession
CHECK_DEADLOCK FALSE
