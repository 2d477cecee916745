SPECIFICATION ScheduleSpec
CONSTANTS
    MaxInt <- MCMaxInt
    Files <- MCFiles
    Environments <- MCEnvironments
    Defaults <- MCDefaults
    MinCheckInterval = 3
    MaxFailures = 6
INVARIANTS SpacingKept MinimumKept
PROPERTIES BackoffExact
CHECK_DEADLOCK FALSE
