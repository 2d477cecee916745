SPECIFICATION Spec
CONSTANTS
    Items = {a}
    Keyless = {}
    NoItem = NoItem
    MaxVersion = 2
    MayExpire = TRUE
    MaxInt = 31
    Files <- MCFiles
    Environments <- MCEnvironments
    Defaults <- MCDefaults
    MinCheckInterval = 2
    MaxFailures = 2
INVARIANTS NoStartupBurst
CHECK_DEADLOCK FALSE
