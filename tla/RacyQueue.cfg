\* The program ends, and a writer at its bound stops.
SPECIFICATION Spec
CONSTANTS
    MaxCount = 3
    MaxWrites = 5
INVARIANTS
    TypeOK
    AssertsHold
    NeverTwice
PROPERTIES
    HarmlessUnlessEmptied
CHECK_DEADLOCK FALSE
