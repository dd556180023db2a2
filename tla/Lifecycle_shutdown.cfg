SPECIFICATION Spec
CONSTANTS
    PublicReq = {r1, r2}
    AdminReq = {s1}
    Job = {j1, j2}
INVARIANT TornDownInOrder
PROPERTY ShutdownEnds
CHECK_DEADLOCK FALSE
