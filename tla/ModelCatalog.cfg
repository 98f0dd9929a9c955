SPECIFICATION FairSpec
CONSTANTS
    Call = {c1, c2, c3}
    Key = {alice, bob}
    None = None
    TTL = 1
    MaxCached = 1
    MaxTime = 1
INVARIANTS
    OwnCatalogue
    NoStampede
    RefreshDropsStored
PROPERTIES
    EveryCallEnds
CHECK_DEADLOCK FALSE
