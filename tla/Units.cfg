SPECIFICATION UnitsSpec
CONSTANTS
  NPROC = 3
  MaxPriority = 1
  MaxTicks = 1
  NULL = NULL
  Client = {c1, c2}
  Block = {b1, b2, b3}
  Val = {0, 1}
  NBUF = 2
  MaxPinned = 1
  None = None
  Cpu = {k1, k2}
  Thread = {t1}
  Spin = {ptable, cons}
  PTABLE = ptable
  Inner = {ptable}
  MaxNest = 2
  Nil = Nil
  Reader = {r1, r2}
  Letter = {"a", "b"}
  INPUT_BUF = 2
  UINT = 4
  Null = Null
  MaxRead = 2
  Sizes = {0, 9, 17, 100, 200, 248, 250}
  HDR = 8
  CORE = 4
  HeaderSpace = 32
  HeapEnd = 11
  Users = {1, 2}
  Page = {1, 2, 3, 4, 5, 6, 7, 8, 9, 10, 11, 12, 13}
  PGSIZE = 2
  NPTE = 2
  NPDE = 3
  AddressRange = 24
  Images <- UnitImages
  Grows <- UnitGrows
  MAXARGS = 3
  BufSize = 4
  DIRSIZ = 2
  IntRange = 32
  Columns = 3
  Rows = 3
  LineLength = 4
  TextLength = 3
INVARIANTS ScanPicksBest HeapSound MemorySound RoutinesAgree LocksSound
PROPERTIES CacheIsStore RequestServed ConsoleIsTerminal
CHECK_DEADLOCK FALSE
