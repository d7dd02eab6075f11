SPECIFICATION Spec
CONSTANTS
  NINODES = 11
  NBLOCKS = 16
  BSIZE = 4
  NDIRECT = 2
  NINDIRECT = 4
  IPB = 2
  NPROC = 4
  NOFILE = 5
  NFILE = 6
  NPIPE = 1
  PIPESIZE = 2
  UINT = 4
  NINODE = 6
  MAXOPBLOCKS = 6
  LOGOPS = 2
  Image <- UPROGS
  Programs <- UserPrograms
  Tests = {"openiputtest"}
INVARIANTS
  UnlinkedIsFreed
CHECK_DEADLOCK FALSE
