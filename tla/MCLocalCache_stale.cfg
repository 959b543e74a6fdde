SPECIFICATION Spec
CONSTANTS
    t1 = t1
    t2 = t2
    k1 = k1
    k2 = k2
    Tasks = {t1, t2}
    Keys = {k1}
    Tags = {g1}
    g1 = g1
    MaxTombstones = 1
    MaxLoads = 1
    MaxVersion = 0
    MaxGeneration = 1
    TagChoices <- OneTagSet
    Calls = {"get", "load", "invalidate_tag"}
    Dropped = {}
INVARIANT NoStaleEntryWhenQuiet
