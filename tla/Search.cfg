SPECIFICATION FairSpec
CHECK_DEADLOCK FALSE
CONSTANTS
    Text <- MCText
    Word <- MCWord
    Cut <- MCCut
    Lower <- MCLower
    StopWords = {"the"}
    RawFiles <- MCRawFiles
    StrayText = {"a"}
    Threads = {t1, t2}
    Queries <- MCQueries
    EmptyText = ""
    NoQuery = NoQuery
    NoResponse = NoResponse
INVARIANTS TypeOK NoNullDoc PostingsSound PostingsComplete
PROPERTIES IndexFrozen ImplementsService SearchAnswered
