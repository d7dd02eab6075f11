SPECIFICATION FairSpec
CONSTANTS
  Op = {p1, p2, p3}
  Block = {b1, b2, b3, b4, b5}
  Val = {0}
  MAXOPBLOCKS = 3
  OpBlocks = 1
  LOGSIZE = 6
  NLog = 6
  Behind = b1
  MaxCrashes = 1
INVARIANTS NoPanic SleeperHasWaker
PROPERTY SleeperWakes
