CONSTANTS
    Replicas = {r1, r2}
    Tenants = {t1, t2}
    Platform = platform
    Retain = 0
    Skew = 0
    Batch = 2
    Limit = 2
    MaxRows = 3
    MaxTime = 1
    MaxTampers = 1
SYMMETRY Symmetry
SPECIFICATION Spec
INVARIANTS TypeOK NothingLost OneChain AlarmMeansTampering TamperingFound
