SPECIFICATION FairSpec
CONSTANTS
    c1 = c1
    n1 = n1
    n2 = n2
    Configs <- OneConfig
    Nodes <- OneNode
    MaxInvocations = 2
INVARIANTS
    TypeOK
    NoDuplicateSubmission
    OneResultPerNode
PROPERTIES
    PendingLeavesRecorded
    EveryRunCompletes
CHECK_DEADLOCK FALSE
