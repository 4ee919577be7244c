SPECIFICATION FairSpec
CONSTANTS
    w1 = w1
    w2 = w2
    Slots <- MCSlots
    Workers <- MCSlots
    WorkerOf <- MCWorkerOf
    Jobs = {"j1", "j2"}
    Contents = {"c1"}
    Environments <- MCEnvironments
INVARIANTS AckedIsDone DocumentThere DanglingWasOld
PROPERTIES EventuallySettled
CHECK_DEADLOCK FALSE
