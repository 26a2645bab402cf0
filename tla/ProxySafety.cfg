\* Everything that may fail fails, one URL cannot be parsed, two entries fit.
SPECIFICATION Spec
CONSTANTS
    Clients = {c1, c2, c3}
    Urls = {u1, u2, u3}
    BadUrls = {u2}
    PortUrls = {u3}
    MaxSize = 2
    MaxChunks = 2
    Faults = {"malloc", "create", "connect", "pipe"}
INVARIANTS
    ListSound
    NoUseAfterFree
    AnswersAgree
    NoLostCompletion
SYMMETRY Symmetry
\* A behaviour ends when every connection is closed or the process has stopped.
CHECK_DEADLOCK FALSE
