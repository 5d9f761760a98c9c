SPECIFICATION FairSpec
CONSTANTS
    Peers = {s1, s2, s3}
    Prefixes = {x1}
    RetainAttrs = FALSE
    Restart = TRUE
INVARIANTS
    LiveRegistered
    NothingLeaks
    NoStaleRoutes
PROPERTIES
    AbortedGone
CHECK_DEADLOCK FALSE
