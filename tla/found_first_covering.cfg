SPECIFICATION Spec
CONSTANTS
  Scale = 3
  Blank = Blank
  Malformed = Malformed
  Files <- LongFiles
  ShortFile = 0
  LongFile = 4
INVARIANT ReturnsFirstCoveringEntry
