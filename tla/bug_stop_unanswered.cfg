SPECIFICATION Spec
CHECK_DEADLOCK FALSE
CONSTANTS
    Clients = {c1}
    Kinds <- MCKinds
    MaxSessions = 1
    NoCall = NoCall
    MaxCalls = 2
INVARIANTS
    StopIsAnswered
