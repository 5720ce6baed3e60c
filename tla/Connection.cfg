SPECIFICATION FairSpec
CONSTANTS
    Reconnects = {r1, r2}
    Waiters = {w1}
    MayDispose = TRUE
    Faults = {"drop", "snapshot", "metadata"}
    MaxFaults = 1
INVARIANTS
    CurrentCanBeSettled
    AnswersFollowSnapshots
PROPERTIES
    ConnectionSettles
    OnlyReplacedPromisesHang
CHECK_DEADLOCK FALSE
