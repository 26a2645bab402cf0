\* One node of room and one value: the reader can be cancelled while it waits.
SPECIFICATION FairSpec
CONSTANTS
    MaxCount = 1
    MaxWrites = 1
PROPERTIES
    Stops
CHECK_DEADLOCK FALSE
