SPECIFICATION Spec
CONSTANTS
    n1 = n1
    Workers = {w1, w2}
    NoWorker = NoWorker
    Gone = Gone
    Consumers = {c1}
    Aggregates = {a1}
    Names = {n1}
    Subscribers <- AllSubscribe
    EventIds = {1, 2}
    NoEvent = NoEvent
    NoCause = NoCause
    DELIVERY_MAX_ATTEMPTS = 2
    DELIVERY_RETRY_BASE = 1
    LeaseTicks = 2
    MaxLockWait = 1
    DispatchBatch = 2
    DiscoveryBatch = 2
    DeliveryConcurrency = 2
    MaxGroup = 1
    MaxFaults = 2
    MaxReplays = 1
SYMMETRY WorkerSymmetry
INVARIANTS
    TypeOK
    EffectsExactlyOnce
    NoInvariantError
    CausedByProcessed
    AttemptAccounting
PROPERTIES
    ClaimEndsByOwner
