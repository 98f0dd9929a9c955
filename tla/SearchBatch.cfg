SPECIFICATION FairSpec
CONSTANTS
    bing = bing
    google = google
    searxng = searxng
    serper = serper
    Query = {1, 2, 3}
    NQueries = 3
    Limit = 2
    Backends <- TwoBackends
    Keyless = {google}
    PerCaller = {serper}
    Default = bing
    Unset = Unset
INVARIANTS
    FirstResultsWin
    NothingFoundOnlyWhenAllTried
    NoTaskLeftBehind
PROPERTIES
    BatchGathers
    EveryBatchEnds
CHECK_DEADLOCK FALSE
