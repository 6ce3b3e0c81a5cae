SPECIFICATION Spec
CONSTANTS
    BufLen = 66
    UdpMax = 60
    MAX_LABELS = 3
    MAX_ADDRS = 2
    LabelLen <- MCLabelLen
    Queries <- MCQueries
    Items <- MCItems
    ReqIds = {1, 2}
    MaxItems = 2
    MaxQueries = 2
INVARIANTS RoundTrip PortOK
CHECK_DEADLOCK FALSE
