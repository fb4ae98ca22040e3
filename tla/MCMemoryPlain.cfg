CONSTANTS
    Agents = {"a1"}
    TaskIDs = {"t1", "t2"}
    Keys = {"k1"}
    NoKey = "nokey"
    Specs <- PlainSpecs
    CallerIDs = {}
    Lease = 1
    MaxTasks = 2
    MaxClaims = 3
SPECIFICATION Spec
INVARIANTS TypeOK RunsBounded DoneByHolder DeadLetterVisible ApprovedBeforeRun
PROPERTIES TerminalStays LifecycleKept
