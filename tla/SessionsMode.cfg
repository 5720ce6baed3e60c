SPECIFICATION Spec
CONSTANTS
    MaxRequests = 2
    MaxFaults = 0
    MaxSweeps = 0
    MaxSessions = 4
INVARIANT ModeReachesSession
CHECK_DEADLOCK FALSE
