SPECIFICATION Spec
CONSTANTS
  NPROC = 2
  Cpu = {0, 1}
  BootCpu = 0
  BoostRounds = 2
  QuantumBase = 1
  QuantumStep = 0
  MaxPriority = 1
  Lockers = {1, 2}
  Sleepers = {1}
  Exiters = {2}
  Yielders = {2}
  Renicers = {2}
  MaxTicks = 1
  MaxTq = 2
  NULL = NULL
INVARIANTS Inv OneCpuPerProcess
