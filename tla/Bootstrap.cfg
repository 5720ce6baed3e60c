SPECIFICATION FairSpec
CONSTANTS
    MaxTurns = 2
    MaxChunks = 1
    MaxReverts = 1
    OldBuilds = {{}, {"turns"}, {"messages", "turns"}, {"messages", "plans", "turns", "threads"}}
    ReadLimit = 9
    MaxRestarts = 2
    MaxRollBacks = 1
INVARIANTS
    TypeOK
    AppliedOnceInOrder
    UpMeansCaughtUp
    BootstrapMatchesLive
    ShownFilesExist
PROPERTY BootstrapEnds
CHECK_DEADLOCK FALSE
