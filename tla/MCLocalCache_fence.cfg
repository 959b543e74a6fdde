SPECIFICATION Spec
CONSTANTS
    t1 = t1
    t2 = t2
    k1 = k1
    k2 = k2
    Tasks = {t1, t2}
    Keys = {k1, k2}
    Tags = {g1}
    g1 = g1
    MaxTombstones = 1
    MaxLoads = 2
    MaxVersion = 0
    MaxGeneration = 2
    TagChoices <- OnlyK1
    Calls = {"get", "load", "invalidate_key", "invalidate_tag"}
    Dropped = {}
SYMMETRY TaskSymmetry
INVARIANTS SupersededIsFenced NoStaleJoin
