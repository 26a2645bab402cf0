\* The program ends: deadlock is what StopsUnlessOrphaned is about.
SPECIFICATION FairSpec
CONSTANTS
    N = 3
    Counters <- MCCounters
    Swappers <- MCSwappers
INVARIANTS
    TypeOK
    ValuesPermuted
    WholeRecords
PROPERTIES
    StopsUnlessOrphaned
CHECK_DEADLOCK FALSE
