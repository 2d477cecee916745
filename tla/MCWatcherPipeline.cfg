SPECIFICATION Spec
CONSTANTS
    Monitors = {ws, rss}
    Cooperative = {ws}
    Closers = {rss}
    Reports = {"collection", "guid", "moved"}
    JobOf <- AllJobs
    PostingOf <- AllPostings
    Blank = ""
    NoUrl = NoUrl
    Numerals = {"7", "42"}
    Ignored = "ignored"
    Absent = Absent
    EventBuffer = 1
    ReactionSlots = 1
    TelemetrySlots = 1
    HasTelemetry = TRUE
    ReactionEnds = {"ending"}
    TelemetryEnds = {"failed"}
INVARIANTS OncePerPosting OnceAndCompletely
PROPERTIES ImplementsService QuietAfterReturn
CHECK_DEADLOCK FALSE
