SPECIFICATION Spec
CONSTANTS
  Threads = {w1, w2}
  Period = 4
  MaxTime = 8
INVARIANT RateMeetsTarget
