SPECIFICATION TextSpec
CHECK_DEADLOCK FALSE
CONSTANTS
    Byte <- MCByte
    tolower <- MCLower
    Contents <- MCContents
    Titles <- MCTitles
    Keywords <- MCKeywords
    prevStep = 2
    nextStep = 3
    SizeMax = 255
    dict <- MCDict
    userDict <- MCUserDict
    startProb <- MCStart
    transProb <- MCTrans
    emitProb <- MCEmit
    symbols_ <- MCSymbols
    MAX_WORD_LENGTH = 4
    MIN_DOUBLE <- No
INVARIANTS SummaryInBounds KeywordShown  BestSegmentation MostLikelyTags OwnKeywordFound
