SPECIFICATION Spec
CONSTANTS
    Monitors = {ws, rss}
    Cooperative = {ws}
    Closers = {}
    Reports = {"published", "noGuid"}
    JobOf <- AllJobs
    PostingOf <- AllPostings
    Blank = ""
    NoUrl = NoUrl
    Numerals = {"7", "42"}
    Ignored = "ignored"
    Absent = Absent
    EventBuffer = 1
    ReactionSlots = 1
    TelemetrySlots = 1
    HasTelemetry = FALSE
    ReactionEnds = {"ending"}
    TelemetryEnds = {}
INVARIANTS AliveUnlessCancelled
CHECK_DEADLOCK FALSE
