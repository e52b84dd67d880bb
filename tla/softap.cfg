SPECIFICATION Spec
CONSTANTS
    Clients = {c1, c2}
    NoClient = NoClient
    Resources = {"prov-session", "prov-config"}
    MaxChunks = 3
    BufLen = 2
    MaxStarts = 2
    MaxRequests = 4
INVARIANTS
    BodyWhole
    SessionOwn
PROPERTY
    NotWedged
CHECK_DEADLOCK FALSE
