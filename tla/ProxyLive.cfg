\* Everything that may fail fails, one URL cannot be parsed, there is room for both entries.
SPECIFICATION FairSpec
CONSTANTS
    Clients = {c1, c2}
    Urls = {u1, u2}
    BadUrls = {u2}
    PortUrls = {u1}
    MaxSize = 2
    MaxChunks = 1
    Faults = {"malloc", "create", "connect", "pipe"}
INVARIANTS
    TypeOK
PROPERTIES
    AnsweredUnlessAbandoned
\* A behaviour ends when every connection is closed or the process has stopped.
CHECK_DEADLOCK FALSE
