SPECIFICATION Spec
CONSTANTS
    Eps = {"prov-session"}
    Looks = {1}
    MaxStarts = 2
    MaxConns = 2
INVARIANT
    RegisteredMeansStarted
CHECK_DEADLOCK FALSE
