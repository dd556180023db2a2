SPECIFICATION Spec
CONSTANTS
    s1 = s1
    s2 = s2
    x = x
    y = y
    z = z
    c1 = c1
    c2 = c2
    Machine = Machine
    None = None
    Top = 2
    User = {s1, s2}
    Actor = {Machine}
    Req = {r1, r2}
    Custom = {}
    RoleOf <- Supers
    RankOf <- SuperRanks
    PermsOf <- SeededPerms
SYMMETRY SuperSymmetry
CONSTRAINT UpToTheRace
INVARIANTS
    TypeOK
    LastSuperadminStays
