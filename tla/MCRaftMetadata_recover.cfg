SPECIFICATION Spec
CONSTANTS
    n1 = n1
    n2 = n2
    x = x
    Nodes = {n1, n2}
    Names = {x}
    MaxGeneration = 2
    Joins <- MixedJoins
    Crashing = {n1, n2}
    Compacting = {n1}
    MaxLog = 3
    MaxCalls = 1
INVARIANTS
    TypeOK
    SameViewBeforeCrash
    StagedViewIsLiveView
    CommandsAreUnique
    AppliedIsKnown
PROPERTIES
    StampFencesMembers
CHECK_DEADLOCK FALSE
