SPECIFICATION Spec
CONSTANTS
    Devices = {"d1", "d2"}
    NoDevice = "none"
    MaxRuns = 1
INVARIANTS
    KeepsGoing
CHECK_DEADLOCK FALSE
