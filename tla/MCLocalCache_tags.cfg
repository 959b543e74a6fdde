SPECIFICATION Spec
CONSTANTS
    t1 = t1
    t2 = t2
    k1 = k1
    k2 = k2
    Tasks = {t1, t2}
    Keys = {k1, k2}
    Tags = {g1}
    g1 = g1
    MaxTombstones = 1
    MaxLoads = 1
    MaxVersion = 2
    MaxGeneration = 1
    TagChoices <- OneTagSet
    Calls = {"get", "put", "load", "expire", "invalidate_tag", "evict", "flush"}
    Dropped = {t1, t2}
SYMMETRY TaskSymmetry
INVARIANTS TypeOK TagInvalidationRemovesSeen
