SPECIFICATION Spec
CONSTANTS
    bing = bing
    google = google
    searxng = searxng
    serper = serper
    Query = {1, 2}
    NQueries = 2
    Limit = 2
    Backends <- AllBackends
    Keyless = {google}
    PerCaller = {serper}
    Default = google
    Unset = Unset
INVARIANTS
    FailingQueryIsItsOwn
CHECK_DEADLOCK FALSE
