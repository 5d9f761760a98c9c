SPECIFICATION Spec
CONSTANTS
    Peers = {s1, s2}
    Prefixes = {x1, x2}
    RetainAttrs = TRUE
    Restart = TRUE
INVARIANTS
    NoStaleRoutes
CHECK_DEADLOCK FALSE
