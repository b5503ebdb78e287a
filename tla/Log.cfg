SPECIFICATION LogSpec
CHECK_DEADLOCK FALSE
CONSTANTS
    Threads = {t1, t2}
    MaxTime = 1
    MaxCalls = 2
INVARIANTS RecordsOnceInOrder
