SPECIFICATION LabsSpec
CONSTANTS
    s = 1
    E = 3
    b = 1
    Addresses <- MCBlocks
    MaxOps = 5
    TEST_RANGE = 16
    RandomVals <- MCRandom
    Probes <- MCProbes
    Others <- MCOthers
    Shapes <- MCShapes
    W = 4
    Durations = {3, 7}
    TickCosts = {3, 5}
    Slack = {0, 2}
    THRESHOLD = 2
    RECORDTHRESH = 3
    MaxTicks = 2
    kbest = 2
    maxsamples = 3
    EpsNum = 1
    EpsDen = 4
    Runs = 2
    NEVENT = 2
    Start = {14}
    TraceFiles <- MCTraceFiles
    NumTraces = 2
    HeapSize = 6
    ALIGNMENT = 2
    FillBase = 4
    Vocabulary <- MCVocabulary
    MAXLINE = 11
    MAXARGS = 2
    MaxWords = 2
    CHUNKSIZE = 32
    MaxHeap = 96
    Sizes = {4, 16, 32}
    Fills = TRUE
    FollowDamage = FALSE
    Pids = {p1, p2, p3}
    NoPid = NoPid
    MaxJobs = 3
CONSTRAINT BoundedJids
INVARIANT
    Float2IntIsCast
CHECK_DEADLOCK FALSE
