CONSTANTS
    Pids = {p1, p2}
    NoPid = NoPid
    MaxJobs = 2
    MaxFrames = 2
    PrevAll <- FullOrEmpty
    Outsiders = FALSE
    Keys <- CtrlC
SPECIFICATION FairSpec
PROPERTY ChildReported
CHECK_DEADLOCK FALSE
