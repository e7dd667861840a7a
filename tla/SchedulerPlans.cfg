\* Every plan of three units, and the planner's for a short document.
SPECIFICATION FairSpec
CONSTANTS
  EditionCount = 1
  Plans <- MCPlans
  MaxFileWorkers = 1
  MaxPageWorkers = 1
  MaxAttempts = 2
INVARIANTS SchedulerInv SuccessMeansAll
PROPERTIES ImplementsPlanRun PlanEnds
