CONSTANTS
    Workers = {t1}
    Urls <- TwoServers
    NCACHE = 2
    MaxCacheSize = 3
    MaxObjectSize = 2
    Lengths = {1}
    MaxRequests = 3
SPECIFICATION Spec
INVARIANTS
    HitIsFromServer
