SPECIFICATION Spec
CONSTANTS
    Revisions <- RevisionsMC
    PatchSets <- PatchSetsMC
    ScriptShas <- ScriptShasMC
    CloneFails = FALSE
    MaxRuns = 3
INVARIANTS
    TypeOK
    TreeIsWhole
    NothingLeftOver
    InfoMatchesTree
    PackagedInfoIsCurrent
CHECK_DEADLOCK FALSE
