SPECIFICATION Spec
CONSTANTS
    Revisions <- RevisionsMC
    PatchSets <- PatchSetsMC
    ScriptShas <- ScriptShasMC
    CloneFails = TRUE
    MaxRuns = 2
INVARIANTS
    TreeIsWhole
CHECK_DEADLOCK FALSE
