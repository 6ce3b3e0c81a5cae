SPECIFICATION Spec
CONSTANTS
    Loopback = 3
    HostDomain <- MCHostDomain
    Servers = {1, 2}
    Reqs = {1, 2, 3, 4}
    Handles = {1, 2, 3}
    Configs <- MCConfigs
    Programs = {{"resolve", "search", "names", "again", "free"}, {"resolve", "error"}, {"resolve", "search", "refused"},
                {"gai", "names", "servfail", "free"}, {"resolve", "search", "names", "suspend", "cancel", "again"}}
    MaxCalls = 3
    MaxFails = 1
INVARIANTS QueuesOK NothingStalls AddrinfoOnce
CHECK_DEADLOCK FALSE
