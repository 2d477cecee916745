SPECIFICATION FairSpec
CONSTANTS
    Heartbeat = 2
    PongWait = 4
    Latency = 1
    MinWait = 2
    MaxWait = 5
    Jitter = 50
    MaxFrames = 1
    MaxRow = 3
INVARIANTS SilenceEnds DialsPaced
PROPERTIES LiveServerKept StopReturns HelpersEnd
CHECK_DEADLOCK FALSE
