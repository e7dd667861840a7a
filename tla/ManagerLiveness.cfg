\* Only the event loop, the monitors' timers and SIGKILL are relied on.
SPECIFICATION FairSpec
CONSTANTS
  Requests = {r1, r2}
  MaxActive = 1
  MaxQueued = 1
  EarlyCancel = FALSE
  RepeatCancel = TRUE
  UnlinkFails = FALSE
PROPERTIES EveryCallerAnswered SlotsComeBack ShutdownReturns
