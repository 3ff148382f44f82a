SPECIFICATION Spec
CONSTANTS
    c1 = c1
    n1 = n1
    n2 = n2
    Configs <- OneConfig
    Nodes <- OneNode
    MaxInvocations = 2
PROPERTY
    RecordedRowsRemoved
CHECK_DEADLOCK FALSE
