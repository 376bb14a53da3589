SPECIFICATION FairSessionSpec
CONSTANTS
  j1 = j1
  j2 = j2
  j3 = j3
  g1 = g1
  g2 = g2
  g3 = g3
  Jobs = {j1, j2, j3}
  Gets = {g1, g2, g3}
  GetOf <- Handlers
  Unreliable = {j3}
  MaxJobs = 1
  Workers = 2
  PanickingJobs = {}
  NoJob = NoJob
  Free = Free
INVARIANTS
  LastJobStays
  MissedOnlyIfSlow
PROPERTIES
  AcceptedIsPublished
  SessionEnds
\* the lock cycle of get_job_by_id and the collector really stops the server
CHECK_DEADLOCK FALSE
