SPECIFICATION FairSpec
CONSTANTS
    MayFail = TRUE
    MaxItems = 8
INVARIANTS
    DrainedIsHandled
PROPERTIES
    WorkProgresses
