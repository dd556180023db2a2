SPECIFICATION FairSpec
CONSTANTS
    Inst = {i1, i2}
    Builtin <- MCBuiltin
    Configured <- MCConfigured
    Spare = {"extra"}
    MaxRank = 1
    Perm = {"users", "roles"}
    Attempts = 2
    MaxOthers = 1
    None = None
INVARIANTS
    TypeOK
    OneApplier
    FloorBeforeTraffic
    FloorComplete
PROPERTIES
    RuntimeChangesStand
    BootEnds
