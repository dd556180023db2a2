SPECIFICATION Spec
CONSTANTS
    IntWidth = 4
    Worker = {w1, w2}
    MaxSeq = 2
    BatchSize = 2
    Timeout = 1
    Slack = 0
    MaxAttempts = 2
    BackoffBase = 2
    BackoffMax = 3
    Retention = 1
    MaxAge = 1
    MaxDeaths = 1
    Stalls = TRUE
SYMMETRY Symmetry
INVARIANTS
    TypeOK
    OneHolder
    GivenUpAtTheLimit
    DeliveredWasAccepted
PROPERTY RemovedWithCause
