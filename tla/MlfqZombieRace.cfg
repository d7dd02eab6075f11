SPECIFICATION Spec
CONSTANTS
  NPROC = 2
  Cpu = {0, 1}
  BootCpu = 0
  BoostRounds = 3
  QuantumBase = 1
  QuantumStep = 1
  MaxPriority = 0
  Lockers = {1, 2}
  Sleepers = {}
  Exiters = {2}
  Yielders = {}
  Renicers = {}
  MaxTicks = 1
  MaxTq = 4
  NULL = NULL
PROPERTY ZombieUnlockJustified
