SPECIFICATION Spec
CONSTANTS
    Names = {"c1", "c2", "c3"}
    Ids = {0, 1}
    MaxCustom = 2
    MaxEndpoints = 7
    MaxStarts = 2
    MaxRegs = 2
INVARIANTS
    EndpointsFit
    CtxMatches
    InstanceAlive
    SessionOwnId
