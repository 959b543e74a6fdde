SPECIFICATION Spec
CONSTANTS
    NoRecord = NoRecord
    Untracked = Untracked
    Keys = {1, 2, 3}
    MaxLag <- SyncAndAsync
    Records <- SomeRecords
    ValueBytes = 2
    MaxTotalBytes = 4
    MaxRecords = 2
    MaxTombstones = 1
    MaxFaults = 2
INVARIANTS
    TypeOK
    AcceptedIsKept
    LossIsBounded
    BudgetIsExact
    DebtIsExact
PROPERTIES
    ValuesOnlyRise
