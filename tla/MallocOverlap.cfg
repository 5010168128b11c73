CONSTANTS
    CHUNKSIZE = 32
    MaxHeap = 96
    Sizes = {4, 16, 32}
    Fills = FALSE
    FollowDamage = TRUE
SPECIFICATION Spec
INVARIANTS
    PayloadsDisjoint
CHECK_DEADLOCK FALSE
