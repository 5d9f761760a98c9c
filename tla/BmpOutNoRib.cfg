SPECIFICATION FairSpec
CONSTANTS
    Peers = {bmp1, bgp1}
    BgpPeers = {bgp1}
    Prefixes = {x1}
    RetainAttrs = FALSE
    MaxBuf = 1
    QueueDepth = 1
    HasRib = FALSE
    MayTerminate = FALSE
INVARIANTS
    KnownMatchesWire
    NothingStranded
PROPERTIES
    IngestProgresses
CHECK_DEADLOCK FALSE
