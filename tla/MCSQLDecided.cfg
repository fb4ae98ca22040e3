CONSTANTS
    Agents = {"a1"}
    TaskIDs = {"t1", "t2"}
    Keys = {}
    NoKey = "nokey"
    CallerIDs = {}
    Procs = {p1, p2}
    p1 = p1
    p2 = p2
    Lease = 0
    MayStop = FALSE
    Purged = {"t1", "t2"}
    MaxTasks = 2
    MaxClaims = 1
    Specs <- NoSpecs
    Preloaded <- Pair
CHECK_DEADLOCK FALSE
SPECIFICATION FairSpec
PROPERTIES WaitersDecided
