SPECIFICATION FairSpec
CONSTANTS
  Scale = 3
  Blank = Blank
  Malformed = Malformed
  Files <- AllFiles
  ShortFile = 3
  LongFile = 6
INVARIANTS
  DistributionTypeOK
  EntriesInFileOrder
  WarmupCoversEntries
  SearchStaysInArray
  ReturnsCoveringEntry
PROPERTIES
  RangeHalves
  SearchTerminates
