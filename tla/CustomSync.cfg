\* Three threads: one holds the lock while another is asleep and a third contends.
SPECIFICATION FairSpec
CONSTANTS
    N = 3
    Iters = 2
INVARIANTS
    TypeOK
    MutualExclusion
    OwnerUnlocks
    NoStaleLoad
    ResultExact
PROPERTIES
    FinishesUnlessAsleep
\* The process ends, or sleeps for ever: see CustomSyncHang.cfg.
CHECK_DEADLOCK FALSE
