SPECIFICATION Spec
CONSTANTS
    w1 = w1
    w2 = w2
    Workers <- MCWorkers
    Oversized <- MCOversized
    N = 2
    BatchSize = 2
    MaxDispatch = 1
    Failures = {"crash"}
    MaxFailures = 1
INVARIANT FinalComplete
CHECK_DEADLOCK FALSE
