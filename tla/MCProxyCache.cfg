CONSTANTS
    Workers = {t1, t2}
    Urls <- ThreePages
    NCACHE = 3
    MaxCacheSize = 4
    MaxObjectSize = 2
    Lengths = {1, 2, 3}
    MaxRequests = 5
SPECIFICATION Spec
SYMMETRY Symmetry
INVARIANTS
    LocksAccounted
    HitIsWhole
    TotalIsSum
    EvictionFinds
    CopiesBounded
PROPERTIES
    EvictsLeastRecent
