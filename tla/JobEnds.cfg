SPECIFICATION FairSpec
CONSTANTS
    h1 = h1
    h2 = h2
    Handlers <- OneHandler
    Entry = "extraction"
    Queues <- TwoQueues
    Environments <- BenignOrWatched
    OtherJobs = TRUE
    MaxRetries = 2
    MaxFailures = 2
INVARIANTS NotifiedOnce NoLostWakeup StageAccounted
PROPERTIES CompletedStays EventuallyCompleted ActiveEnds
CHECK_DEADLOCK FALSE
