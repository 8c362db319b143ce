SPECIFICATION FairSpec
CONSTANTS
  MaxProcesses = 4
  MaxPid = 6
  NULL = NULL
INVARIANTS
  IInv
  QueueOK
  CpuAgrees
  LostOnlyToTimer
  LostOnce
  WaitFindsNoZombie
  ParentsIdentified
PROPERTIES
  KernelFinishes
  TimerDrains
  NeverResumed
  SlotsNeverRecycled
  NeverAcknowledgedLate
  LastPreemption
  ImplementsDispatcher
CHECK_DEADLOCK FALSE
