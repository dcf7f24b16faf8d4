SPECIFICATION Spec
CONSTANTS
    Threads = {t1, t2}
    None = None
    Vertices <- MCVertices
    Requests <- MCOrdered
    Directedness = {TRUE, FALSE}
    GetEdgeDst = 3
    CounterMod = 16
    MaxCalls = 4
    MaxRollbacks = 1
INVARIANTS
    EndpointsResolved
    OneVertexPerId
    CountersExact
PROPERTIES
    Linearizable
    CallsReturn
