SPECIFICATION Spec
CONSTANTS
    w1 = w1
    w2 = w2
    Workers <- MCWorkers
    N = 2
    MaxDispatch = 2
    Failures = {"crash", "drop", "fault"}
    MaxFailures = 2
SYMMETRY WorkerSymmetry
INVARIANTS IInv FinalComplete
PROPERTIES CountedOnce ImplementsAssembly
CHECK_DEADLOCK FALSE
