SPECIFICATION FairSpec
CONSTANTS
    n_cpus = 0
    Overlapped = {o1}
    NOTIFICATION_KEY = notify
    Waits = {"infinite", "timed"}
    PostMayFail = TRUE
    SpawnMayFail = TRUE
    MaxQueue = 6
INVARIANTS NoUseAfterFree IInv
PROPERTIES ShutdownEnds CompletionsServed
CHECK_DEADLOCK FALSE
