SPECIFICATION Spec
CONSTANTS
    Bevs = {b1, b2}
    Rate <- MCRate
    Burst <- MCBurst
    MinShare = 1
    MAX_EVER = 2
    Programs = {{"basic", "wm", "timeouts", "free"}, {"basic", "defer", "free"}, {"basic", "connect", "free"}, {"rate", "wm"}, {"group", "lock", "free"}}
    MaxLen = 2
    MaxAge = 1
    MaxCalls = 3
    MaxDebt = 1
    MaxBucket = 4
INVARIANTS EventsAsEnabled SuspensionsEnd
CHECK_DEADLOCK FALSE
