SPECIFICATION Spec
CONSTANTS
  Jobs = {j1, j2}
  Gets = {g1}
  MaxJobs = 1
  Workers = 2
  PanickingJobs = {}
  NoJob = NoJob
  Free = Free
INVARIANT OldestJobIsStarted
