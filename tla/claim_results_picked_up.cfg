SPECIFICATION FairSpec
CONSTANTS
  Jobs = {j1, j2, j3}
  Gets = {g1}
  MaxJobs = 1
  Workers = 2
  PanickingJobs = {}
  NoJob = NoJob
  Free = Free
PROPERTY ResultsArePickedUp
CHECK_DEADLOCK FALSE
