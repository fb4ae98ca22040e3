CONSTANTS
    Agents = {"a1"}
    TaskIDs = {"t1", "t2", "t3"}
    Keys = {"k1"}
    NoKey = "nokey"
    Specs <- SortedWorkflow
    CallerIDs = {"t1"}
    Lease = 0
    MaxTasks = 3
    MaxClaims = 2
SPECIFICATION Spec
INVARIANT DepsDoneBeforeRun
PROPERTY StepResolves
CHECK_DEADLOCK FALSE
