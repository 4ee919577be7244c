SPECIFICATION FairSpec
CONSTANTS
    w1 = w1
    w2 = w2
    Workers <- MCWorkers
    Oversized <- MCOversized
    N = 4
    BatchSize = 2
    MaxDispatch = 1
    Failures = {}
    MaxFailures = 0
INVARIANTS NoLeakedDelivery ChunkNotLost
PROPERTIES ImplementsAssembly EventuallyAnnounced
CHECK_DEADLOCK FALSE
