SPECIFICATION ClaimsSpec
CONSTANTS
    User = {u1}
    SID = {s1, s2, s3}
    Req = {r1, r2}
    None = None
    RefreshTTL = 2
    AccessTTL = 1
    MaxTime = 2
    MaxPw = 0
SYMMETRY Symmetry
INVARIANT AuthTimeFromLogin
