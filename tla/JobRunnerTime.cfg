SPECIFICATION FairSpec
CONSTANTS
    NJobs = 2
    Request = {r1, r2}
    MaxJobs = 1
    DefaultRetention = 2
    NoRetention = NoRetention
    Retention = {0, 1}
    MaxTime = 2
    MaxConcurrent = 1
INVARIANTS
    EventsMatchJobs
    NoLostWakeUp
PROPERTIES
    OutcomeKept
    ImplementsLifecycle
    EveryJobSettles
    EveryPollAnswered
CHECK_DEADLOCK FALSE
