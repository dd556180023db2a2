SPECIFICATION Spec
CONSTANTS
    LoginKey = {login}
    RegisterKey = {register}
    Ident = {alice}
    Req = {r1, r2}
    None = None
    LoginLimit = 1
    LoginWindow = 2
    RegisterLimit = 0
    RegisterWindow = 1
    BackoffAfter = 2
    BackoffBase = 2
    BackoffMax = 3
    FailureWindow = 3
    IntWidth = 4
    MaxFails = 5
INVARIANTS
    TypeOK
    BurstBound
    DelayIsExact
PROPERTIES
    WindowEnds
    BackoffEnds
