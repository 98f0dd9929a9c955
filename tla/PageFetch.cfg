SPECIFICATION FairSpec
CONSTANTS
    Fetch = {f1, f2}
    Site = {a, p}
    Public = {a}
    Ttl = 1
    MaxTime = 2
    NoCopy = NoCopy
    MaxRedirects = 1
    Threshold = 2
INVARIANTS
    RendersRiskThinTextOnly
PROPERTIES
    SiteRefusalHeeded
    OnceInATtl
    EveryFetchEnds
CHECK_DEADLOCK FALSE
