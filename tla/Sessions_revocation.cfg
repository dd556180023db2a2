SPECIFICATION FairSpec
CONSTANTS
    User = {u1}
    SID = {s1, s2}
    Req = {r1, r2}
    None = None
    RefreshTTL = 1
    AccessTTL = 1
    MaxTime = 0
    MaxPw = 1
INVARIANTS
    EvictedStaysOut
PROPERTY RequestsEnd
