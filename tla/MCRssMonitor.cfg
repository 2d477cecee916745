SPECIFICATION FairSpec
CONSTANTS
    Items = {a, k}
    Keyless = {k}
    NoItem = NoItem
    MaxVersion = 2
    MayExpire = TRUE
    MaxInt = 31
    Files <- MCFiles
    Environments <- MCEnvironments
    Defaults <- MCDefaults
    MinCheckInterval = 2
    MaxFailures = 2
INVARIANTS ReportedOnce NoBurstIfRead
PROPERTIES ImplementsSchedule NoticedUnlessHidden StopReturns
CHECK_DEADLOCK FALSE
