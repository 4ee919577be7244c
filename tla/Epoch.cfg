SPECIFICATION FairSpec
CONSTANTS
    m1 = m1
    m2 = m2
    h1 = h1
    h2 = h2
    Messages <- MCMessages
    Threads = {h1, h2}
    Prefetch = 2
    MaxDrops = 1
    MaxFaults = 1
INVARIANTS OwnUntilDropped SettledIsProcessed NotForgotten
PROPERTIES EventuallyDrained
CHECK_DEADLOCK FALSE
