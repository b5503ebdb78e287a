SPECIFICATION HttpSpec
CHECK_DEADLOCK FALSE
CONSTANTS
    Workers = {w1}
    MaxJobs = 1
    KeepAliveMax = 2
    FdLimit = 1
    Scripts <- OneByOne
    SendBuffer = 1
    BodySize = 1
    NoWord = NoWord
    EmptyWord = EmptyWord
INVARIANT PromptWhenNoWord
