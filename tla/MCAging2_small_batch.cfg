CONSTANTS
    NumThreads = 2
    Log <- MCLog
    BlockEnd <- MCBlockEnd
    TempVertices <- MCTempVertices
    FinalEdges = 2
    ReportsPerOps = 1
    Granularity = 2
    LastMaxSz = 0
    ReleaseMemory = TRUE
    MeasureLatency = FALSE
    Mode = "small_batch"
    StopReasons = {"TIMEOUT_HIT", "MEMORY_FOOTPRINT"}
    DrainMayExpire = TRUE
    Asserts = TRUE
SPECIFICATION Spec
INVARIANTS
    LibraryCallCanSucceed
    FinalGraph
    BatchBarrier
    BusyOnlyAfterExpiredDrain
PROPERTIES
    BlockStableWhileLoading
    ReportsAdvance
    Terminates
