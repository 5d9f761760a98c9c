SPECIFICATION FairSpec
CONSTANTS
    Peers = {bmp1}
    BgpPeers = {}
    Prefixes = {x1}
    RetainAttrs = FALSE
    MaxBuf = 1
    QueueDepth = 1
    HasRib = TRUE
    MayTerminate = FALSE
INVARIANTS
    WireInv
    ClientConverges
    NothingResurrected
PROPERTIES
    LegalStream
    FlaggedClientLeaves
    DumpEnds
CHECK_DEADLOCK FALSE
