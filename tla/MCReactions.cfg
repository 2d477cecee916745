SPECIFICATION ReactionSpec
CONSTANTS
    Tasks = {open, notify, untitled}
    Notifies = {notify, untitled}
    Untitled = {untitled}
    OpenBrowser = TRUE
    Desktop = TRUE
    Sound = TRUE
    MaxInFlight = 2
    Outcomes = {"ending", "failed", "panicked"}
INVARIANTS SlotAccounting AllTried
PROPERTIES SlotReturned CancelEndsAll
CHECK_DEADLOCK FALSE
