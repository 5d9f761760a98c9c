SPECIFICATION Spec
CONSTANTS
    Peers = {bgp1}
    BgpPeers = {bgp1}
    Prefixes = {x1, x2}
    RetainAttrs = TRUE
    MaxBuf = 1
    QueueDepth = 2
    HasRib = TRUE
    MayTerminate = TRUE
INVARIANTS
    ClientConverges
SYMMETRY PrefixSymmetry
CHECK_DEADLOCK FALSE
