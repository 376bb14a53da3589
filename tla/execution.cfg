SPECIFICATION ShutdownSpec
CONSTANTS
  RunCount <- ThreeThenTwo
  PoolSize = 3
  PanickingRuns <- OneEachMayPanic
  Server = Server
  Free = Free
INVARIANTS
  TypeOK
  StartTogether
  PoolHasRoom
  ProbeListUnique
  OneJobAtATime
  ResultsAreOwn
PROPERTIES
  JobEnds
  ShutdownEnds
