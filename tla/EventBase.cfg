SPECIFICATION FairSpec
CONSTANTS
    Readers = {"r", "o", "p", "q", "w"}
    Untimed = {"o", "p", "q", "w"}
    Writers = {"w"}
    Sharing = {"q", "w"}
    Timers = {"t"}
    Commons = {"c1", "c2"}
    Signals = {"s"}
    Persistent = {"r", "s", "t", "c2"}
    Urgent = {"t", "c2"}
    Deferreds = {"d1", "d2"}
    Programs = {{"q", "w"}, {"o", "p"}, {"r", "t"}, {"c1", "c2"}, {"s"}, {"d1", "d2"}}
    Delays = {1}
    CommonDelay = 1
    MaxDeferred = 1
    MaxClock = 2
    MaxOps = 4
INVARIANTS MapOK QueuesOK NoLostWakeup CommonTimeoutScheduled
PROPERTIES PriorityOrder DeferredRuns
CHECK_DEADLOCK FALSE
