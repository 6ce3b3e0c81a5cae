SPECIFICATION Spec
CONSTANTS
    MAX_TO_READ_EVER = 2
    RecvBuf = 3
    MaxTalk = 2
    Rounds = 3
    MaxMessages = 3
    Clients = {"TestClient1", "IOCPClient"}
    Servers = {"EventIOCPServer", "EventHelloServer"}
INVARIANTS GreetingFirst NothingInvented
PROPERTY ClientEnds
CHECK_DEADLOCK FALSE
