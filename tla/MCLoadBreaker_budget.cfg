SPECIFICATION Spec
CONSTANTS
    t1 = t1
    t2 = t2
    k1 = k1
    k2 = k2
    l1 = l1
    l2 = l2
    Tasks = {t1, t2}
    Loads = {l1, l2}
    Keys = {k1, k2}
    Threshold = 3
    InitialBackoff = 1
    MaxBackoff = 4
    InactiveTtl = 3
    MaxTracked = 1
    MaxGeneration = 1
    Dropped = {t1, t2}
SYMMETRY CallerSymmetry
INVARIANTS TypeOK WithinBudget OpenAfterStreak
PROPERTIES OpenSurvives
