SPECIFICATION FairSpec
CONSTANTS
    Monitors = {ws, rss}
    Cooperative = {ws}
    Closers = {rss}
    Reports = {"query", "titled", "blank"}
    JobOf <- AllJobs
    PostingOf <- AllPostings
    Blank = ""
    NoUrl = NoUrl
    Numerals = {"7", "42"}
    Ignored = "ignored"
    Absent = Absent
    EventBuffer = 1
    ReactionSlots = 1
    TelemetrySlots = 1
    HasTelemetry = FALSE
    ReactionEnds = {}
    TelemetryEnds = {}
PROPERTIES FailureEndsWatcher CancelReturns JobNotDropped
CHECK_DEADLOCK FALSE
