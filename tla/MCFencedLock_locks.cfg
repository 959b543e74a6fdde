CONSTANTS
    k1 = k1  k2 = k2  s1 = s1  s2 = s2  e1 = e1
    Keys = {k1, k2}
    Sessions = {s1, s2}
    Endpoints = {e1}
    Leases = {1, 2}
    MaxTime = 1
    MaxSilence = 0
    AcquireLimit = 2
    MaxCalls = 4
    Surfaces = {"embedded", "service"}
    Waiter <- WaitingOwner
    WaitKey = k1
SPECIFICATION FairSpec
INVARIANTS TypeOK HoldersAreReclaimable
PROPERTIES IsFencedMutex WritesAreFenced LeaseIsKept RetryingClientIsServed
CHECK_DEADLOCK FALSE
