SPECIFICATION Spec
CONSTANTS
    Testers = {t1}
    Builds = {"b1"}
    Revisions = {"r498229"}
    RevOf <- RevOfOneMC
    Lettered = {}
    MaxCLs = 2
    MaxTroubles = 0
PROPERTIES
    NewKernelIsRecorded
CHECK_DEADLOCK FALSE
