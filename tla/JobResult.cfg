SPECIFICATION Spec
CONSTANTS
    ChunkSize = 4
    ChunkOverlap = 1
    MaxChars = 4
    MinWords = 2
    MaxPages = 1
    BatchSize = 2
    InferBatch = 2
    MinConfidence = 7
    LargeChunk = 3
    WindowSize = 3
    WindowOverlap = 1
    PredictBatch = 2
    Reach = 1
    Environments <- MCEnvironments
    Names <- MCNames
    Alike <- MCAlike
    Threshold <- MCThreshold
    Rules <- MCRules
INVARIANTS ResultIsOfDocument DegradedIsExact
CHECK_DEADLOCK FALSE
