SPECIFICATION Spec
CONSTANTS
    Ssids = {s1}
    Psks = {p1}
    NoPsk = NoPsk
    NoCred = NoCred
    Requesters = {req}
    Apps = {app}
    Failures = {"wrong_password"}
    Attempts = {2}
    MaxApplies = 2
    QueueLen = 1
PROPERTIES
    TrialSpec
    AttemptEnds
