CONSTANTS
    NumThreads = 2
    Enabled = TRUE
    MaxBuilds = 2
    NumEdges = 5
    SchedulerGranularity = 2
SPECIFICATION Spec
INVARIANTS
    EachEdgeOnce
    LastSnapshotComplete
PROPERTY Terminates
