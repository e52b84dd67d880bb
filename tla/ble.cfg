SPECIFICATION Spec
CONSTANTS
    Eps = {"prov-session", "prov-config"}
    Looks = {1, 2}
    MaxStarts = 3
    MaxConns = 3
INVARIANTS
    AnswerFresh
    InstanceUsed
    LooksInSync
PROPERTY
    Discoverable
CHECK_DEADLOCK FALSE
