CONSTANTS
    Pids = {p1, p2, p3}
    NoPid = NoPid
    MaxJobs = 2
    MaxFrames = 1
    PrevAll <- FullMask
    Outsiders = FALSE
    Keys <- NoKeys
SPECIFICATION Spec
SYMMETRY Symmetry
INVARIANT AtMostOneFG
CHECK_DEADLOCK FALSE
