SPECIFICATION Spec
CONSTANTS
    Chunks <- MCChunks
    Sizes = {1, 2, 4}
    MIN_BUFFER_SIZE = 3
    EVBUFFER_CHAIN_SIZE = 1
    MAX_AUTO = 8
    MAX_REALIGN = 2
    MAX_WSABUFS = 2
    Programs = {{"add", "prepend", "remove", "move"}, {"add", "room", "fd"}, {"add", "prepend", "line"},
                {"io", "add", "remove", "move", "line"}, {"io", "add", "prepend", "free", "cb", "freeze"}}
    Careful = TRUE
    MaxCalls = 5
    MaxLength = 3
    MaxChains = 4
    MaxUnreported = 2
INVARIANTS StructureOK KernelMemory
PROPERTY Implements
CHECK_DEADLOCK FALSE
VIEW MCView
