CONSTANTS
    Agents = {"a1"}
    TaskIDs = {"t1"}
    Keys = {}
    NoKey = "nokey"
    Specs <- OneTask
    CallerIDs = {}
    Lease = 1
    MaxTasks = 1
    MaxClaims = 3
    Workers = {"w1", "w2"}
    QueueCap = 1
    Timed = {"t1"}
SPECIFICATION FairSpec
INVARIANTS TypeOK HeldIsCurrent DoneWasRun DroppedWasCancelled CancelReaches
PROPERTY RunEnds
CHECK_DEADLOCK FALSE
