\* A cancellation before the first step of the monitor.
SPECIFICATION ManagerSpec
CONSTANTS
  Requests = {r1, r2}
  MaxActive = 1
  MaxQueued = 1
  EarlyCancel = TRUE
  RepeatCancel = FALSE
  UnlinkFails = FALSE
INVARIANT ShutdownFreesSlots
