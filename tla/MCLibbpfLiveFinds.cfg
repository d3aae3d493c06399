SPECIFICATION AllSpec
CONSTANTS
  f1 = f1
  f2 = f2
  m1 = m1
  Frames = {f1, f2}
  Size = 2
  Wrap = 4
  LogLevels = {0, 1, 8}
  MaxNeed = 3
  MaxLog = 4
PROPERTY
  FindsLastInserted
CHECK_DEADLOCK FALSE
