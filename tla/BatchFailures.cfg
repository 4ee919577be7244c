SPECIFICATION Spec
CONSTANTS
    w1 = w1
    w2 = w2
    Workers <- MCWorkers
    Oversized <- MCOversized
    N = 3
    BatchSize = 3
    MaxDispatch = 1
    Failures = {"crash", "drop", "fault"}
    MaxFailures = 2
SYMMETRY WorkerSymmetry
INVARIANTS OneAssembler AssemblyFindsAll
PROPERTIES FinalStable
CHECK_DEADLOCK FALSE
