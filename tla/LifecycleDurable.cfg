\* One batch, and room for its failure.
SPECIFICATION FairSpec
CONSTANTS
  Tasks = {t1}
  Singles = {}
  MaxResults = 1
PROPERTY ToldIsDurable
