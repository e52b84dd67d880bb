SPECIFICATION Spec
CHECK_DEADLOCK FALSE
CONSTANTS
    MaxStarts = 3
    MaxSuccesses = 3
    LongGrace = TRUE
INVARIANTS
    TypeOK
    TeardownExclusive
    InstanceOwned
    EndOncePerStart
PROPERTIES
    OptOutKept
    AutoStopHappens
    CallsReturn
