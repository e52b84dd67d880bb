SPECIFICATION Spec
CONSTANTS
    Datasets = {d1, d2}
    NoData = NoData
    MaxApplies = 3
    Schedules = {TRUE, FALSE}
INVARIANTS
    TypeOK
    AttachNotMissed
    OutcomeOnce
PROPERTY
    OutcomeReported
