SPECIFICATION FairSpec
CONSTANTS
    Documents <- MCDocuments
    Uploads <- MCUploads
    MaxConcurrency = 2
    MaxConcurrentJobs = 1
    Handlers = 2
    Environments <- MCEnvironments
INVARIANTS AnnouncedAfterAll StatusAgrees AdmissionBound
PROPERTIES EventuallyAnnounced
CHECK_DEADLOCK FALSE
