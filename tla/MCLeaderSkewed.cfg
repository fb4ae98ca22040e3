CONSTANTS
    Instances = {"r1", "r2"}
    TTL = 1
    DBSkew = 0
    MinuteLen = 2
    MaxTime = 3
    UpdateMayFail = FALSE
    Skew <- OneAhead
    DueMinutes <- EveryMinute
SPECIFICATION Spec
CHECK_DEADLOCK FALSE
INVARIANTS FiredOnce
