\* Two URLs, room for one entry, nothing fails.
SPECIFICATION FairSpec
CONSTANTS
    Clients = {c1, c2}
    Urls = {u1, u2}
    BadUrls = {}
    PortUrls = {}
    MaxSize = 1
    MaxChunks = 1
    Faults = {}
PROPERTIES
    MissIsLoaded
\* A behaviour ends when every connection is closed or the process has stopped.
CHECK_DEADLOCK FALSE
