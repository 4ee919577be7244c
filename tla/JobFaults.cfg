SPECIFICATION Spec
CONSTANTS
    h1 = h1
    h2 = h2
    Handlers <- OneHandler
    Entry = "extraction"
    Queues <- RagQueues
    Environments <- AnythingGoes
    OtherJobs = FALSE
    MaxRetries = 1
    MaxFailures = 2
INVARIANTS IInv CompletedIsDone
CHECK_DEADLOCK FALSE
