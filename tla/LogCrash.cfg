SPECIFICATION Spec
CONSTANTS
  Op = {p1, p2}
  Block = {b1, b2, b3}
  Val = {0, 1}
  MAXOPBLOCKS = 1
  OpBlocks = 1
  LOGSIZE = 2
  NLog = 3
  Behind = b1
  MaxCrashes = 2
INVARIANTS QuietIsDurable Inv
PROPERTY CrashAtomic
CHECK_DEADLOCK FALSE
