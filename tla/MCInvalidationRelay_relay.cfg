SPECIFICATION FairSpec
CONSTANTS
    a = a
    b = b
    transport_resume = transport_resume
    clear_partition = clear_partition
    idle = idle
    Nodes = {a, b}
    Publishers = {a}
    ResumeSource = transport_resume
    ClearSource = clear_partition
    NoFrame = idle
    BusCapacity = 1
    OutboundCapacity = 1
    InboundCapacity = 1
    DedupCapacity = 1
    RateLimit = 2
    RingCapacity = 1
    MaxIssued = 3
    MaxFaults = 1
INVARIANTS TypeOK LossIsCounted NoAmplification RingReplayIsExact
PROPERTIES ComesToRest
CHECK_DEADLOCK FALSE
