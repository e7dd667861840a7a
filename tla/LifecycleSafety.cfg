\* A task of one document and a batch, and a table with room for one failure.
SPECIFICATION FairSpec
CONSTANTS
  Tasks = {t1, t2}
  Singles = {t1}
  MaxResults = 1
INVARIANTS EndIsReported LifeInv
PROPERTIES VerdictStays AnswerStands ImplementsMonitoredParse AcceptedEnds
