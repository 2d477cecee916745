SPECIFICATION FairSpec
CONSTANTS
    Items = {a}
    Keyless = {}
    NoItem = NoItem
    MaxVersion = 2
    MayExpire = TRUE
    MaxInt = 31
    Files <- MCFiles
    Environments <- MCEnvironments
    Defaults <- MCDefaults
    MinCheckInterval = 2
    MaxFailures = 2
PROPERTIES ItemNoticed
CHECK_DEADLOCK FALSE
