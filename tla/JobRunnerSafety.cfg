SPECIFICATION Spec
CONSTANTS
    NJobs = 4
    Request = {r1}
    MaxJobs = 2
    DefaultRetention = 1
    NoRetention = NoRetention
    Retention = {}
    MaxTime = 0
    MaxConcurrent = 2
INVARIANTS
    UnfinishedKept
    SlotsConserved
    FreeSlotIsPassedOn
    NoOvertaking
    StatusMatchesTask
    NothingRunsAfterClose
PROPERTIES
    RemovalJustified
CHECK_DEADLOCK FALSE
