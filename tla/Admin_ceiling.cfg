SPECIFICATION Spec
CONSTANTS
    s1 = s1
    s2 = s2
    x = x
    y = y
    z = z
    c1 = c1
    c2 = c2
    Machine = Machine
    None = None
    Top = 4
    User = {x, y, z}
    Actor = {x, y, z}
    Req = {r1, r2}
    Custom = {c1, c2}
    RoleOf <- Middle
    RankOf <- MiddleRanks
    PermsOf <- MiddlePerms
SYMMETRY Symmetry
INVARIANTS
    BeyondIsOutOfReach
    NoNewPowers
