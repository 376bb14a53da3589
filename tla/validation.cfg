SPECIFICATION BuiltSpec
CONSTANTS
  s1 = s1
  s2 = s2
  s3 = s3
  s4 = s4
  NoSerial = NoSerial
  NoTarget = NoTarget
  Probes <- AllProbes
  ProbeConfigs <- Configs
  ProbeLists <- Lists
  JobDescs <- Descs
  Keys <- AllKeys
  RunOns <- BuilderRunOns
  MaxTasks = 2
  MaxRunOns = 2
INVARIANTS
  TypeOK
  TargetsUnique
  AcceptedRunsAreDistinct
  AcceptedRunsAsAsked
  VerdictIsExact
  OutcomesReachTheirRuns
  BuiltFailsOnTargetsOnly
