CONSTANTS
    c1 = c1  x = x  y = y  w1 = w1  w2 = w2
    Commits = {c1}
    Targets = {x, y}
    Batch <- TwoRows
    Workers = {w1, w2}
    BatchSize = 2
    ClaimTtl = 1
    Backoff = 1
    MaxAttempts <- OneAndTwo
    MaxStops = 1
    MaxResets = 1
SPECIFICATION FairSpec
INVARIANTS TypeOK SatisfiedMeansApplied
PROPERTIES RowsDrain
CHECK_DEADLOCK FALSE
