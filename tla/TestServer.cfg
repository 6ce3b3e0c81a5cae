SPECIFICATION Spec
CONSTANTS
    Workers = {w1, w2}
    MaxClients = 4
    NoWork = NoWork
INVARIANT ZeroBytesClose
CHECK_DEADLOCK FALSE
