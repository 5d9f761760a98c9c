SPECIFICATION RoutesSpec
CONSTANTS
    Prefixes = {1, 2}
    Asns = {1, 2}
    Vrps <- MCVrps
    HasFilter = TRUE
    MaxServer = 2
    MaxInsert = 2
    MaxFull = 1
    MonPeers = {p1, p2}
    Views = {"pre", "post"}
    Fams = {1, 2}
    MaxConns = 2
    MaxMsgs = 6
    Nodes = {1, 2}
    Muis = {1, 2}
    Attrs = {1, 2}
    PeerAsns = {1, 2}
    Filters <- MCFilters
    StartRoutes <- MCStartRoutes
    Https = {h1, h2}
    Collectors = {c1}
    Searches = {s1}
    MaxDumps = 1
    ChunkLen = 1
    FlushAt = 2
    MaxEvents = 3
    Families = {"v4", "v6"}
    Counts <- MCCounts
    CounterMax = 1
    MaxSessions = 2
    MaxCounted = 2
    Info <- MCInfo
    Hops = {"h1", "h2"}
    PrefixLen <- MCPrefixLen
    Inputs <- MCInputs
    Hash <- MCHash
    FanIn = TRUE
    MaxBytes = 500
INVARIANTS
    StatusSettled
    RovFollowsServer
    SlotsHeld
    AnswersFaithful
    GaugesAgree
    RoutesConserved
    SizesAccounted
PROPERTIES
    DumpFinished
SYMMETRY RoutesSymmetry
CONSTRAINT RoutesBound
CHECK_DEADLOCK FALSE
