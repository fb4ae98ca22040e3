CONSTANTS
    Callers = {"w1", "w2", "w3", "w4"}
    FailureThreshold = 2
    HalfOpenMaxCalls = 2
SPECIFICATION FairSpec
INVARIANTS TypeOK SlotsAccounted NeverStuck
PROPERTY Recovers
