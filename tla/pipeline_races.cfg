SPECIFICATION Spec
CONSTANTS
  Jobs = {j1, j2, j3, j4}
  Gets = {g1, g2}
  MaxJobs = 2
  Workers = 3
  PanickingJobs = {j4}
  NoJob = NoJob
  Free = Free
INVARIANTS
  TypeOK
  FirstComeFirstServed
  FinishedMeansKept
  ClearedWasFinished
  QueueBounded
  StatusPoisonedFirst
PROPERTY ImplementsJobService
SYMMETRY Symmetry
\* the lock cycle of get_job_by_id and the collector really stops the server
CHECK_DEADLOCK FALSE
