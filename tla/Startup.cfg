SPECIFICATION StartupSpec
CHECK_DEADLOCK FALSE
CONSTANTS
    Inherited = {0, 1, 2, 3}
    MaxFd = 6
    MaxRecords = 2
INVARIANTS RecordsReachLogFile StandardStreamsKept OffTerminal LogTellsIndex
