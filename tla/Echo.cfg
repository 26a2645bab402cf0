\* A client at its bound, or one whose datagram is lost, stops.
SPECIFICATION FairSpec
CONSTANTS
    Clients = {c1, c2}
    Parts = 2
    MaxMessages = 2
INVARIANTS
    TypeOK
    OwnEcho
PROPERTIES
    AnsweredUnlessLost
CHECK_DEADLOCK FALSE
