CONSTANTS
    NumThreads = 2
    Log <- MCLog
    BlockEnd <- MCBlockEnd
    TempVertices <- MCTempVertices
    FinalEdges = 2
    ReportsPerOps = 1
    Granularity = 2
    LastMaxSz = 0
    ReleaseMemory = TRUE
    MeasureLatency = TRUE
    Mode = "small_batch"
    StopReasons = {}
    DrainMayExpire = FALSE
    Asserts = TRUE
SPECIFICATION Spec
INVARIANT AssertionsHold
