SPECIFICATION Spec
CONSTANTS
  NWorkers = 2
  Interval = 1
  Runtime = 1
  MaxSamples = 3
INVARIANTS
  ManagerTypeOK
  CountsKept
  CountMatchesHistogram
