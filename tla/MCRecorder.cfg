SPECIFICATION FairSpec
CONSTANTS
  Producers = {p1, p2}
  Closers = {c1, c2}
  Jobs = {j1, j2}
  Other = other
  Buffer = 1
  MaxJobs = 2
  Modulus = 2
INVARIANTS NoSendOnClosed NothingLostOrReordered SavedUnlessFailed CloseDrains
PROPERTY CloseReturns
