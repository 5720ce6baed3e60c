SPECIFICATION FairSpec
CONSTANTS
    Reconnects = {r1}
    Waiters = {}
    MayDispose = FALSE
    Faults = {}
    MaxFaults = 0
PROPERTY EveryReconnectReturns
CHECK_DEADLOCK FALSE
