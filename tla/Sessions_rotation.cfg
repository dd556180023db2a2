SPECIFICATION Spec
CONSTANTS
    User = {u1}
    SID = {s1, s2, s3}
    Req = {r1, r2}
    None = None
    RefreshTTL = 1
    AccessTTL = 1
    MaxTime = 2
    MaxPw = 0
SYMMETRY Symmetry
INVARIANTS
    TypeOK
    ExchangedOnce
    ReuseHasCause
    OneLiveToken
PROPERTIES
    DeadFamilyStaysDead
    ChainSpec
