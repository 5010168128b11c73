CONSTANTS
    Pids = {p1, p2, p3, p4}
    NoPid = NoPid
    MaxJobs = 4
SPECIFICATION ListSpec
SYMMETRY Symmetry
CONSTRAINT BoundedJids
INVARIANT UniqueJids
