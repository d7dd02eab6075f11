SPECIFICATION Spec
CONSTANTS
  NINODES = 11
  NBLOCKS = 16
  BSIZE = 4
  NDIRECT = 2
  NINDIRECT = 4
  IPB = 2
  NPROC = 4
  NOFILE = 5
  NFILE = 6
  NPIPE = 1
  PIPESIZE = 2
  UINT = 4
  NINODE = 6
  MAXOPBLOCKS = 6
  LOGOPS = 2
  Image <- UPROGS
  Programs <- UserPrograms
  Tests = {"iputtest", "opentest", "writetest", "writetest1", "createtest", "dirtest", "exectest", "unlinkread", "linktest", "bigdir", "subdir", "bigwrite", "bigfile", "fourteen", "rmdot", "dirfile", "iref", "argptest", "init", "exitiputtest", "openiputtest", "sharedfd", "fourfiles", "createdelete", "concreate", "linkunlink", "bigargtest", "pipe1", "preempt", "exitwait", "forktest", "zombie", "stressfs", "shPipe", "shList", "shFiles"}
INVARIANTS
  TestsPass
  Inv
  ContentSound
  OpFitsLog
  FilesCounted
  PipeFreedByLast
  PipeSleepers
  DeadlockNeedsIput
CHECK_DEADLOCK FALSE
