SPECIFICATION FairSpec
CONSTANTS
  HeaderSize = 1
  BodySizes = {0, 1}
  SendCap = 3
  RecvCap = 2
  LowWater = 2
  Faults = {}
  CanClose = FALSE
  Undefined = Undefined
  Entries = {2}
  SetSizes = {1, 2}
  MaxRequests = 3
PROPERTY WarmupEnds
