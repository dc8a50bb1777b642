\* Two requests of one address at a time, around a midnight.
CONSTANTS
    Reqs = {r1, r2}
    Hosts = {h1}
    Salts = {s1, s2, s3, s4}
    Cost = 2
    Burst = 2
    MaxClock = 3
    LastDay = 2
    None = None
SPECIFICATION Spec
SYMMETRY Symmetry
INVARIANTS
    TypeOK
    AdmissionsAreBounded
PROPERTIES
    RefusalsAreRecent
