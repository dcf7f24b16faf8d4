CONSTANTS
    Threads <- MCThreads
    Workers = {0, 1}
    MaxSockets = 3
    MaxNumConnections = 2
    Outcomes <- MCOutcomes
    WorkerCalls = {"ADD_EDGE", "BATCH_PLAIN_FORCE_YES"}
    MainCalls = {"SET_TIMEOUT", "LIBRARY_NAME", "NUM_EDGES", "HAS_EDGE", "REMOVE_EDGE", "LOAD", "BUILD",
                 "DUMP_CLIENT", "BFS", "WCC"}
    MaxCalls = 1
    MaxRounds = 2
SPECIFICATION Spec
INVARIANTS
    ResultsPropagated
    ServesUntilExit
PROPERTIES
    CallsReturn
    ServerStops
CHECK_DEADLOCK FALSE
