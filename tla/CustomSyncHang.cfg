\* Two threads and one increment each are enough.
SPECIFICATION FairSpec
CONSTANTS
    N = 2
    Iters = 1
PROPERTIES
    Finishes
CHECK_DEADLOCK FALSE
