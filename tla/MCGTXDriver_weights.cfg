SPECIFICATION Spec
CONSTANTS
    Threads = {t1, t2}
    None = None
    Vertices <- MCVertices
    Requests <- MCWeights
    Directedness = {TRUE, FALSE}
    GetEdgeDst = 3
    CounterMod = 16
    MaxCalls = 3
    MaxRollbacks = 1
INVARIANT SymmetricWeights
