SPECIFICATION Spec
CONSTANTS
    p1 = p1
    t1 = t1
    t2 = t2
    c1 = c1
    c2 = c2
    c3 = c3
    c4 = c4
    c5 = c5
    NoProject = NoProject
    ProjectId = {p1}
    ThreadId = {t1, t2}
    CommandId = {c1, c2, c3, c4, c5}
    Commands <- LifecycleCommands
    MaxCalls = 4
    MaxQueued = 2
    Faults = {"lookup", "transaction", "commitLost", "reject", "crash"}
    MaxFaults = 2
INVARIANTS
    ExactlyOnce
    AckIsDurable
    AnswersAgree
    StreamFollowsLog
    DecidesOnCurrentState
    DeletedProjectsAreEmptied
    HistoryIsLegal
PROPERTIES
    ImplementsCommandLog
