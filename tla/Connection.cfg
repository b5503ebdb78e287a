SPECIFICATION ConnectionSpec
CHECK_DEADLOCK FALSE
CONSTANTS
    Scripts <- MCScripts
    KeepAliveMax = 2
    ContentLength = 3
    SendBuffer = 2
    boundary_ <- MCBoundary
    Names <- MCNames
INVARIANTS AnswersPairUp  PartsArriveWhole RangesExact CloseIsLast
 
