\* One parser slot handed on between three requests, across shutdowns and
\* restarts of the service; every cancellation the event loop can deliver.
SPECIFICATION ManagerSpec
CONSTANTS
  Requests = {r1, r2, r3}
  MaxActive = 1
  MaxQueued = 2
  EarlyCancel = TRUE
  RepeatCancel = TRUE
  UnlinkFails = TRUE
SYMMETRY Symmetry
INVARIANTS SupervisionInv SlotsAreMonitored NoOrphan ShutdownIsComplete
PROPERTIES NoMonitorWhileClosing ImplementsSlotService ImplementsMonitoredParse
