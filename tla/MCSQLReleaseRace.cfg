CONSTANTS
    Agents = {"a1"}
    TaskIDs = {"t1", "t2", "t3"}
    Keys = {}
    NoKey = "nokey"
    CallerIDs = {}
    Procs = {p1, p2}
    p1 = p1
    p2 = p2
    Lease = 0
    MayStop = FALSE
    Purged = {}
    MaxTasks = 3
    MaxClaims = 1
    Specs <- NoSpecs
    Preloaded <- FanIn
SYMMETRY ProcSymmetry
CHECK_DEADLOCK FALSE
SPECIFICATION Spec
PROPERTIES TerminalStays
