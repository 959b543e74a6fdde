SPECIFICATION Spec
CONSTANTS
    t1 = t1
    t2 = t2
    k1 = k1
    k2 = k2
    g1 = g1
    Tasks = {t1, t2}
    Keys = {k1}
    Tags = {g1}
    MaxTombstones = 1
    TagSets = {{g1}}
    Capacity = 1
    MaxVersion = 2
    Calls = {"put", "remove", "evict", "flush", "reconcile"}
    Dropped = {t1, t2}
SYMMETRY CallerSymmetry
INVARIANTS TypeOK ExactUpToDroppedPuts LedgerBalances
