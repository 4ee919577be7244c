SPECIFICATION FairSpec
CONSTANTS
    s1 = s1
    s2 = s2
    w1 = w1
    w2 = w2
    Slots <- MCSlots
    Replicas <- MCReplicas
    Jobs = {"j1"}
    MaxRetries = 1
    ExtraCopies = 3
    Environments <- MCEnvironments
INVARIANTS NothingVanishes FailedForCause
PROPERTIES EventuallySettled
CHECK_DEADLOCK FALSE
