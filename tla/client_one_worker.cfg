SPECIFICATION SessionSpec
CONSTANTS
  j1 = j1
  j2 = j2
  j3 = j3
  g1 = g1
  g2 = g2
  g3 = g3
  Jobs = {j1, j2, j3}
  Gets = {g1, g2, g3}
  GetOf <- Handlers
  Unreliable = {j1, j2, j3}
  MaxJobs = 1
  Workers = 1
  PanickingJobs = {j3}
  NoJob = NoJob
  Free = Free
INVARIANTS
  SessionTypeOK
  StatusMirrorsChannel
  MissedOnlyIfSlow
SYMMETRY SessionSymmetry
