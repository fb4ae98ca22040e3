CONSTANTS
    Instances = {"r1", "r2"}
    TTL = 1
    DBSkew = 0
    MinuteLen = 2
    MaxTime = 4
    UpdateMayFail = TRUE
    Skew <- SameClocks
    DueMinutes = {0}
SPECIFICATION Spec
CHECK_DEADLOCK FALSE
INVARIANTS TypeOK OneLeader
