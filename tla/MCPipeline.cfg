SPECIFICATION PipelineSpec
CONSTANTS
    Links = {l1}
    Clones = {c1}
    Deaf = {}
    QueueLen = 2
    MaxReload = 1
    MaxReports = 1
    Units = {"u1", "u2"}
    Targets = {"t1"}
    Types <- Kinds
    Fixed = {"file"}
    Configs <- MCConfigs
    MaxSpawn = 2
    MaxLoad = 2
    PubCap = 1
    ReqCap = 1
    MaxMsgs = 3
    MaxCmds = 2
    BatchSizes = {1, 2}
    MaxBatches = 2
    LinkCap = 1
    Files <- MCFiles
    Content <- MCContent
    Missing = {"absent"}
    MrtQueue = 6
    Addrs = {1, 2}
    Remotes <- MCRemotes
    RemoteAsns = {1, 2}
    UnitConfigs <- MCUnitConfigs
    Conns = {c1}
    CloneQueueLen = 1
    MaxUnitReloads = 2
INVARIANTS
    LinkServed
    StartTogether
    ConfigFollowed
    SessionsConfigured
PROPERTIES
    GateConnectReturns
    GateClonesEnd
    ManagerStartupCompletes
    ManagerTerminateReturns
    MqttTargetTerminates
    FileRecordsWritten
    MrtFilesReplayed
    BgpDroppedPeersLeave
CHECK_DEADLOCK FALSE
