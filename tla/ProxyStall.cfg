\* A server that sends one chunk and then neither sends nor closes.
SPECIFICATION StallSpec
CONSTANTS
    Clients = {c1}
    Urls = {u1}
    BadUrls = {}
    PortUrls = {}
    MaxSize = 2
    MaxChunks = 1
    Faults = {}
PROPERTIES
    SentAsItComes
\* A behaviour ends when every connection is closed or the process has stopped.
CHECK_DEADLOCK FALSE
