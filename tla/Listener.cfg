SPECIFICATION FairSpec
CONSTANTS
    Accepting = {a1, a2}
    MaxConnections = 1
    MaxCalls = 2
INVARIANTS ReferencesCounted AlwaysAccepting
PROPERTY CompletionsReported
CHECK_DEADLOCK FALSE
