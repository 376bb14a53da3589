SPECIFICATION Spec
CONSTANTS
  JobTimeout = 2
  MaxTimeout = 1
  SetupTimeout = 1
  RingSizes = {1, 2}
  ReadSize = 1
  MaxSaid = 3
  MaxTicks = 4
INVARIANT OccupiesUpToTimeout
