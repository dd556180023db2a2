SPECIFICATION Spec
CONSTANTS
    Caller = {c1, c2}
    MaxRefreshPerMinute = 1
    MaxUnknownKids = 1
    MaxKey = 2
INVARIANTS
    TypeOK
    OutageHarmless
PROPERTY CatchesUp
