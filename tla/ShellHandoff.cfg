SPECIFICATION Spec
CONSTANTS
    p1 = p1
    t1 = t1
    t2 = t2
    ProjectId = {p1}
    ThreadId = {t1, t2}
    ProjectOf <- AllOfP1
    Stamp = {1, 2}
    Faults = {}
    MaxEvents = 4
    MaxFaults = 0
SYMMETRY
    ThreadSymmetry
INVARIANTS
    NoGapAtHandoff
