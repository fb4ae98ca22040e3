CONSTANTS
    Users = {"u1", "u2", "u3"}
    Requests = {"r1"}
    FlowIDs = {"f1"}
    Definitions <- FlowDefinitions
    NoFlow = NoFlow
    NoUser = "nobody"
SPECIFICATION Spec
INVARIANTS TypeOK ApprovedByAll RejectionStands InSequence NeverWedged HistoryComplete
PROPERTY TransitionsAllowed
