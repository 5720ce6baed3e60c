SPECIFICATION FairSpec
CONSTANTS
    p1 = p1
    t1 = t1
    t2 = t2
    ProjectId = {p1}
    ThreadId = {t1, t2}
    ProjectOf <- AllOfP1
    Stamp = {1, 2}
    Faults = {"drop", "restart", "lookup", "snapshot"}
    MaxEvents = 4
    MaxFaults = 2
INVARIANTS
    OnlyMissedIsStale
PROPERTIES
    SnapshotRestores
    GoneStaysGone
    EventuallyMirrors
