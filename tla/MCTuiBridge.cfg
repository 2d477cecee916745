SPECIFICATION FairSpec
CONSTANTS
    EventBuffer = 1
    ScreenLimit = 2
    MaxFound = 4
INVARIANTS DropsReported ScreenNewest ErrorNotSwallowed
PROPERTIES RunReturns EventShown
CHECK_DEADLOCK FALSE
