SPECIFICATION FairSpec
CONSTANTS
    Backends = {"epoll", "multishot"}
    Signals = {"HUP", "INT", "TERM"}
    Clients = {"request", "kill"}
    MaxAcceptErrors = 1
    MaxEnv = 4
INVARIANTS AtMostOneLateClient
PROPERTIES EventsServed StopsWhenTold
CHECK_DEADLOCK FALSE
