CONSTANTS
    MaxTurns = 2
    MaxEdits = 2
    MaxReverts = 1
    MaxFailures = 1
SPECIFICATION FairSpec
INVARIANTS
    TurnCountsAreUnique
    RealCheckpointsHaveRefs
    RealRowsAreShown
    PlaceholdersAreReplaced
PROPERTIES
    ShownCheckpointsStayReal
    WorkersSettle
CHECK_DEADLOCK FALSE
