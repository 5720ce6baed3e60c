SPECIFICATION Spec
CONSTANTS
    MaxRequests = 2
    MaxFaults = 1
    MaxSweeps = 1
    MaxSessions = 4
INVARIANTS
    LiveIsListed
    ShownTurnRuns
    StatusIsTrue
    ModeIsCurrent
CHECK_DEADLOCK FALSE
