SPECIFICATION LogSpec
CHECK_DEADLOCK FALSE
CONSTANTS
    Threads = {t1, t2}
    MaxTime = 0
    MaxCalls = 2
INVARIANT RecordShowsItsTime
