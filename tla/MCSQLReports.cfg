CONSTANTS
    Agents = {"a1"}
    TaskIDs = {"t1"}
    Keys = {"k1"}
    NoKey = "nokey"
    CallerIDs = {}
    Procs = {p1, p2}
    p1 = p1
    p2 = p2
    Lease = 1
    MayStop = TRUE
    Purged = {"t1"}
    MaxTasks = 1
    MaxClaims = 3
    Specs <- OneTask
    Preloaded <- NothingYet
SYMMETRY ProcSymmetry
SPECIFICATION Spec
INVARIANTS TypeOK DoneByHolder
PROPERTIES LifecycleKept
