SPECIFICATION Spec
CONSTANTS
    Fetch = {f1}
    Site = {a, p}
    Public = {a}
    Ttl = 1
    MaxTime = 2
    NoCopy = NoCopy
    MaxRedirects = 1
    Threshold = 2
INVARIANTS
    ThinTextKept
CHECK_DEADLOCK FALSE
