SPECIFICATION GateSpec
CONSTANTS
    Links = {l1}
    Clones = {c1, c2}
    Deaf = {c2}
    QueueLen = 2
    MaxReload = 1
    MaxReports = 1
INVARIANTS
    CloneEndsOnlyWithGate
CHECK_DEADLOCK FALSE
