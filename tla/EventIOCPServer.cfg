SPECIFICATION FairSpec
CONSTANTS
    Workers = {w1, w2}
    Dispatcher = dispatcher
    Clients = {c1, c2}
    NoThread = NoThread
    NoClient = NoClient
    InitMayFail = TRUE
    LaunchMayFail = TRUE
    MaxReads = 1
INVARIANTS MapTracksClients ReferencesCounted
PROPERTY DestructorReturns
CHECK_DEADLOCK FALSE
