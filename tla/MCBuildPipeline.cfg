SPECIFICATION FairSpec
CONSTANTS
    LinuxHost = TRUE
    MaxRuns = 2
    Edits <- SomeEdits
    OptionSets <- AllRuns
INVARIANTS
    TypeOK
    RuntimesMatchCompiler
    NoStaleInPackage
    WholePackageIsComplete
    BootstrapChain
    NoInstrumentedCompiler
    FullRunNeverStarves
    HeadersRestored
PROPERTY
    FullRunPackages
