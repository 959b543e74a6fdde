SPECIFICATION FairSpec
CONSTANTS
    t1 = t1
    t2 = t2
    k1 = k1
    k2 = k2
    Tasks = {t1, t2}
    Keys = {k1}
    Tags = {g1}
    g1 = g1
    MaxTombstones = 1
    MaxLoads = 2
    MaxVersion = 0
    MaxGeneration = 1
    TagChoices <- OneTagSet
    Calls = {"get", "load", "load_expired", "refresh", "invalidate_tag"}
    Dropped = {t1, t2}
INVARIANTS SingleFlight NoLeakedInflight
PROPERTIES EveryCallReturns
