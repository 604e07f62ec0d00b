SPECIFICATION FairSpec
CONSTANTS
  HeaderSize = 2
  BodySizes = {0, 1}
  SendCap = 3
  RecvCap = 2
  LowWater = 2
  Faults = {"poll", "latency", "size"}
  CanClose = TRUE
  GetSizes = {1}
  SetSizes = {2, 3, 4}
  SampleLimit = 4
  Paced = TRUE
  MaxRequests = 4
INVARIANTS
  TypeOK
  MatchedResponses
  ExactlyOnce
  QueueHasRequestWhileOpen
  FramingHolds
  WriteNeverBlocks
  NeverBothWait
  SamplesWereServed
  IInv
PROPERTIES
  EveryRequestAnswered
  ImplementsPipeline
