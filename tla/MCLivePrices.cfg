SPECIFICATION Spec
CONSTANTS
    Slug = {s1, s2}
    Side = {home}
    None = none
    WantTtl = 2
    MaxAge = 1
    Latency = 2
    MaxTime = 4
SYMMETRY Symmetry
CHECK_DEADLOCK FALSE
INVARIANTS TypeOK ServedFresh
PROPERTY OnlyLateFetchesStray
