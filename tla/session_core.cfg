SPECIFICATION Spec
CONSTANTS
    Clients = {c1, c2}
    Knows = {c1}
    Lens = {0, 1}
    MaxRuns = 3
    MaxPos = 4
    MaxNet = 2
    Faults = TRUE
CHECK_DEADLOCK FALSE
INVARIANTS
    TypeOK
    LockStep
    RequestIntact
    ReplyIntact
    ProvenPeer
