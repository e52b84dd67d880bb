SPECIFICATION Spec
CONSTANTS
    Ssids = {s1, s2}
    Psks = {p1}
    NoPsk = NoPsk
    NoCred = NoCred
    Requesters = {req}
    Apps = {app}
    Failures = {"not_found"}
    Attempts = {0, 1, 2}
    MaxApplies = 2
    QueueLen = 2
INVARIANTS
    TypeOK
    BudgetRespected
    AttemptsExact
    NoLostWakeup
    RetryIdleWhenStopped
    ConnectedIsReal
PROPERTIES
    OthersUntouched
SYMMETRY NetworkNames
