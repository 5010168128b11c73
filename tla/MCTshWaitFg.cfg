CONSTANTS
    Pids = {p1}
    NoPid = NoPid
    MaxJobs = 1
    MaxFrames = 1
    PrevAll <- FullMask
    Outsiders = FALSE
    Keys <- NoKeys
SPECIFICATION FairSpec
PROPERTY WaitFgReturns
CHECK_DEADLOCK FALSE
