SPECIFICATION Spec
CONSTANTS
    n1 = n1
    Workers = {w1, w2}
    NoWorker = NoWorker
    Gone = Gone
    Consumers = {c1}
    Aggregates = {a1}
    Names = {n1}
    Subscribers <- AllSubscribe
    EventIds = {1, 2}
    NoEvent = NoEvent
    NoCause = NoCause
    DELIVERY_MAX_ATTEMPTS = 2
    DELIVERY_RETRY_BASE = 1
    LeaseTicks = 2
    MaxLockWait = 0
    DispatchBatch = 2
    DiscoveryBatch = 2
    DeliveryConcurrency = 2
    MaxGroup = 1
    MaxFaults = 0
    MaxReplays = 0
INVARIANTS
    ProcessedInSequence
