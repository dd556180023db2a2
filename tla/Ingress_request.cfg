SPECIFICATION Spec
CONSTANTS
    Host4 = {a4}
    Host6 = {a6}
    Proxy = {p1, p2}
    Bad = bad
    Domain <- MCDomain
    Fragment = {"example", "evil", "."}
    MaxHops = 2
    MaxForged = 2
    MaxFragments = 4
SYMMETRY Symmetry
INVARIANTS
    OwnBucket
    OnlyConfiguredOrigins
    AdminSurface
