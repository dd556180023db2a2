SPECIFICATION FairSpec
CONSTANTS
    IntWidth = 4
    Worker = {w1, w2}
    MaxSeq = 1
    BatchSize = 2
    Timeout = 1
    Slack = 0
    MaxAttempts = 2
    BackoffBase = 1
    BackoffMax = 2
    Retention = 1
    MaxAge = 2
    MaxDeaths = 1
    Stalls = TRUE
PROPERTIES
    EventuallyClosed
    EventuallyRemoved
