SPECIFICATION ParserSpec
CHECK_DEADLOCK FALSE
CONSTANTS
    Chars <- MCChars
    Trees <- OneFile
    OldRaws <- NoOldRaw
INVARIANT EveryLineHasThreeFields
