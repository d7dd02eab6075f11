SPECIFICATION Spec
CONSTANTS
  Cpu = {c1, c2}
  Proc = {p1}
  NTHREAD = 3
  KStack = {1, 2, 3}
  MaxSz = 5
  Images = {1}
  Grows = {2}
  Shrinks = {}
  Limits = {0}
  NULL = NULL
INVARIANT StacksDisjoint
CHECK_DEADLOCK FALSE
