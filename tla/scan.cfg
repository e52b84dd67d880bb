SPECIFICATION Spec
CONSTANTS
    Backends = {"wifi", "thread"}
    MaxEntries = 2
    PageSize = 1
    MaxFound = 3
    QueueLen = 2
    MaxStarts = 2
INVARIANTS
    TypeOK
    BlockingComplete
PROPERTY
    RequestAnswered
