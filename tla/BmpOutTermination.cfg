SPECIFICATION FairSpec
CONSTANTS
    Peers = {bmp1}
    BgpPeers = {}
    Prefixes = {x1}
    RetainAttrs = FALSE
    MaxBuf = 1
    QueueDepth = 1
    HasRib = TRUE
    MayTerminate = TRUE
PROPERTIES
    TerminationEnds
CHECK_DEADLOCK FALSE
