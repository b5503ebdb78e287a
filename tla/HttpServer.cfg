SPECIFICATION FairHttpSpec
CHECK_DEADLOCK FALSE
CONSTANTS
    Workers = {w1,w2}
    MaxJobs = 3
    KeepAliveMax = 2
    FdLimit = 2
    Scripts <- MCScripts
    SendBuffer = 1
    BodySize = 2
    NoWord = NoWord
    EmptyWord = EmptyWord
INVARIANTS SocketsOwned KeepAliveContract
PROPERTIES  EveryConnectionAccepted
