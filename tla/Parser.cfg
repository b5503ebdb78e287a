SPECIFICATION ParserSpec
CHECK_DEADLOCK FALSE
CONSTANTS
    Chars <- MCChars
    Trees <- MCTrees
    OldRaws <- MCOldRaws
INVARIANTS ContentIsTextOutsideTags TitleIsInContent RawRoundTrip CutRawIsPrefix
