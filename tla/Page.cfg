SPECIFICATION PageSpec
CHECK_DEADLOCK FALSE
CONSTANTS
    Queries <- MCQueries
    Titles <- MCTitles
    MaxSearches = 3
INVARIANTS ShowsLastSearch ShowsOneAnswer
