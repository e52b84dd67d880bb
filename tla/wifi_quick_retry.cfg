SPECIFICATION Spec
CONSTANTS
    Ssids = {s1}
    Psks = {p1, p2}
    NoPsk = NoPsk
    NoCred = NoCred
    Requesters = {req}
    Apps = {app}
    Failures = {"not_found"}
    Attempts = {0}
    MaxApplies = 2
    QueueLen = 2
PROPERTIES
    QuickRetrySafe
