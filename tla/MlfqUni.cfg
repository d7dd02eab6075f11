SPECIFICATION FairSpec
CONSTANTS
  NPROC = 3
  Cpu = {0}
  BootCpu = 0
  BoostRounds = 4
  QuantumBase = 1
  QuantumStep = 1
  MaxPriority = 0
  Lockers = {1, 2}
  Sleepers = {1}
  Exiters = {2}
  Yielders = {3}
  Renicers = {}
  MaxTicks = 1
  MaxTq = 4
  NULL = NULL
INVARIANTS TqWithinQuantum UnlockedFirst
PROPERTIES ZombieUnlockJustified BoostUnlockJustified LockReleased NoStarvation
