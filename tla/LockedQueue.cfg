\* Two nodes of room and five values: the queue fills, empties and wraps around.
SPECIFICATION FairSpec
CONSTANTS
    MaxCount = 2
    MaxWrites = 5
INVARIANTS
    TypeOK
    NoCrash
    NoOrderError
    NoUseAfterFree
    CancelLeavesLockFree
PROPERTIES
    RefinesBoundedQueue
    Delivered
    Stops
\* The process ends.
CHECK_DEADLOCK FALSE
