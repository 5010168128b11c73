CONSTANTS
    Pids = {p1, p2}
    NoPid = NoPid
    MaxJobs = 2
    MaxFrames = 2
    PrevAll <- FullOrEmpty
    Outsiders = TRUE
    Keys <- AllKeys
SPECIFICATION Spec
SYMMETRY Symmetry
INVARIANTS
    TypeOK
    NoMissedChild
    NoGhostJob
    NoLostJob
    StoppedJobIsST
    MainMask
    AbortsExplained
CHECK_DEADLOCK FALSE
