CONSTANTS
    NumThreads = 2
    Log <- MCLog
    BlockEnd <- MCBlockEnd
    TempVertices <- MCTempVertices
    FinalEdges = 2
    ReportsPerOps = 1
    Granularity = 2
    LastMaxSz = 2
    ReleaseMemory = FALSE
    MeasureLatency = TRUE
    Mode = "execute"
    StopReasons = {"TIMEOUT_HIT", "MEMORY_FOOTPRINT"}
    DrainMayExpire = FALSE
    Asserts = TRUE
SPECIFICATION Spec
INVARIANTS
    LatencySlots
    ReportedTimesReached
    PerEdgeOrder
