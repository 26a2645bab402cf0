\* Two nodes of room and five values: the queue fills, empties and wraps around.
SPECIFICATION FairSpec
CONSTANTS
    MaxCount = 2
    MaxWrites = 5
INVARIANTS
    TypeOK
    NoCrash
    NoOrderError
    NoUseAfterFree
    MonitorOrphanHarmless
    NoLostWakeup
PROPERTIES
    RefinesBoundedQueue
    Delivered
    StopsUnlessOrphaned
\* The program may stop for ever: a cancelled thread can leave the mutex locked.
CHECK_DEADLOCK FALSE
