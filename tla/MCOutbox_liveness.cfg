SPECIFICATION FairSpec
CONSTANTS
    n1 = n1
    Workers = {w1}
    NoWorker = NoWorker
    Gone = Gone
    Consumers = {c1, c2}
    Aggregates = {a1}
    Names = {n1, n2}
    Subscribers <- OnlyFirst
    EventIds = {1, 2}
    NoEvent = NoEvent
    NoCause = NoCause
    DELIVERY_MAX_ATTEMPTS = 2
    DELIVERY_RETRY_BASE = 1
    LeaseTicks = 1
    MaxLockWait = 0
    DispatchBatch = 2
    DiscoveryBatch = 1
    DeliveryConcurrency = 1
    MaxGroup = 1
    MaxFaults = 1
    MaxReplays = 1
INVARIANTS
    ProcessedInSequence
PROPERTIES
    EventuallyDelivered
