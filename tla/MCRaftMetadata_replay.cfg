SPECIFICATION Spec
CONSTANTS
    n1 = n1
    n2 = n2
    x = x
    Nodes = {n1, n2}
    Names = {x}
    MaxGeneration = 1
    Joins <- OneMemberJoin
    Crashing = {n1}
    Compacting = {}
    MaxLog = 3
    MaxCalls = 2
INVARIANTS
    SameIndexSameView
CHECK_DEADLOCK FALSE
