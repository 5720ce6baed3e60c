SPECIFICATION FairSpec
CONSTANTS
    NoKey = NoKey
    Keys = {k1, k2}
    MaxEnqueues = 3
INVARIANTS
    EveryValueOnceInOrder
    NoKeyIsStranded
    DrainedIsSettled
PROPERTIES
    WorkProgresses
