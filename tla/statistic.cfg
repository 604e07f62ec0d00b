SPECIFICATION Spec
CONSTANTS
  Names = {worker, printed}
  Values <- SampleValues
  NBins = 4
  MicroMax = 4
  MilliMax = 16
  SecondMax = 64
  Infinite = 99
  QuantileOne = 4
  MaxSamples = 3
INVARIANTS
  StatisticTypeOK
  MomentsMatch
  SubSecondHistogramsMatch
  QuantilesMatch
