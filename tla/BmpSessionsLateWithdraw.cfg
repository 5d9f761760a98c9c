SPECIFICATION Spec
CONSTANTS
    Peers = {1, 2, 3, 4}
    Prefixes = {x1}
    RetainAttrs = FALSE
    Conns = {c1, c2}
    Headers = {pre}
    Names = {n1}
    Overlap = TRUE
INVARIANTS
    SessionRoutes
