SPECIFICATION Spec
CONSTANTS
    Testers = {t1, t2}
    Builds = {"b1", "b2"}
    Revisions = {"r498229", "r498229b"}
    RevOf <- RevOfMC
    Lettered = {"r498229b"}
    MaxCLs = 3
    MaxTroubles = 1
INVARIANTS
    TypeOK
    UniqueRows
    UsedIsRight
PROPERTIES
    DuplicateOnlyAfterLoss
SYMMETRY TestersMC
CHECK_DEADLOCK FALSE
