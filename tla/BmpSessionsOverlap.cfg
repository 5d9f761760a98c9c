SPECIFICATION FairSpec
CONSTANTS
    Peers = {1, 2, 3}
    Prefixes = {x1}
    RetainAttrs = FALSE
    Conns = {c1, c2}
    Headers = {pre}
    Names = {n1}
    Overlap = TRUE
INVARIANTS
    UniqueOwner
    OwnedConnected
PROPERTIES
    DisconnectedReclaimed
