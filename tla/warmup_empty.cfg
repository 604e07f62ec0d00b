SPECIFICATION FairMainSpec
CONSTANTS
  HeaderSize = 1
  BodySizes = {0, 1}
  SendCap = 3
  RecvCap = 2
  LowWater = 2
  Faults = {"poll", "size"}
  CanClose = TRUE
  Undefined = Undefined
  Entries = {0, 2}
  SetSizes = {1, 2}
  MaxRequests = 3
  WorkerCounts = {0, 2}
  Runtimes = {60}
  MaxArgs = 2
INVARIANTS
  MainTypeOK
  WarmupLeavesNothing
  WarmupMatched
  ThreadsApart
PROPERTY LoadStarts
