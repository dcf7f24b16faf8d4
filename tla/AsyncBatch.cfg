CONSTANTS
    BatchesSz = 3
    BatchSz = 2
    Updates = {u1, u2}
    Garbage = garbage
    MaxUpdates = 6
SPECIFICATION Spec
INVARIANTS
    NoSlotRace
    AppliedInOrder
PROPERTIES
    SyncFlushDrains
    ImplementsQueue
    OwnerReturns
