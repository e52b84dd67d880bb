SPECIFICATION Spec
CHECK_DEADLOCK FALSE
CONSTANTS
    MaxStarts = 2
    MaxSuccesses = 1
    LongGrace = TRUE
INVARIANT
    WaitMeansSuccess
