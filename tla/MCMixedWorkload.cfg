CONSTANTS
    NumThreads = 1
    Log <- MCLog
    BlockEnd <- MCBlockEnd
    TempVertices <- MCTempVertices
    FinalEdges = 2
    ReportsPerOps = 1
    Granularity = 2
    LastMaxSz = 0
    ReleaseMemory = TRUE
    MeasureLatency = FALSE
    Mode = "small_batch"
    StopReasons = {}
    DrainMayExpire = FALSE
    Asserts = TRUE
    Algorithms = {"bfs", "cdlp"}
    NumRepetitions = 1
    ValidateOutput = TRUE
    Outcomes = {"match", "mismatch", "no_reference", "timeout"}
    UpperProgress = 90
SPECIFICATION MixedSpec
INVARIANTS
    MasterAliveWhenCalled
