SPECIFICATION Spec
CONSTANTS
    LinuxHost = TRUE
    MaxRuns = 2
    Edits <- AllEdited
    OptionSets <- SingleStageRuns
INVARIANT
    SingleStageUsesPrebuilt
