SPECIFICATION FairSpec
CONSTANTS
  Cpu = {c1, c2}
  Proc = {p1}
  NTHREAD = 3
  KStack = {1, 2}
  MaxSz = 5
  Images = {1}
  Grows = {2}
  Shrinks = {2}
  Limits = {0, 4}
  NULL = NULL
INVARIANTS KernelStacksOwned NoLostThreadWakeup Inv
CHECK_DEADLOCK FALSE
PROPERTIES ThreadProgress
