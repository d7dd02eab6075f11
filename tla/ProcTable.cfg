SPECIFICATION FairSpec
CONSTANTS
  NPROC = 4
  MaxPid = 5
  KillPids = {2, 3}
  Sleepers = {2, 4}
  MaxFails = 1
  NULL = NULL
INVARIANTS ParentLive PidUnique NoLostChildWakeup NoLostSignal Inv
PROPERTY ZombieReaped
