SPECIFICATION Spec
CONSTANTS
  Threads = {w1, w2}
  Period = 5
  MaxTime = 7
INVARIANTS
  PacingTypeOK
  ThreadKeepsRate
  SilenceBounded
PROPERTY SendTimesApart
CHECK_DEADLOCK FALSE
