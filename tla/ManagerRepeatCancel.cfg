\* A second cancellation while the first one terminates the process.
SPECIFICATION ManagerSpec
CONSTANTS
  Requests = {r1, r2}
  MaxActive = 1
  MaxQueued = 1
  EarlyCancel = FALSE
  RepeatCancel = TRUE
  UnlinkFails = FALSE
INVARIANT ProcessesWithinLimit
