SPECIFICATION FairSpec
CHECK_DEADLOCK FALSE
CONSTANTS
    Clients = {c1, c2}
    Kinds <- MCKinds
    MaxSessions = 2
    NoCall = NoCall
    MaxCalls = 2
INVARIANTS
    TypeOK
PROPERTIES
    ServiceSpec
    StopEndsProcess
    RequestsAreHandled
    NothingAfterStop
