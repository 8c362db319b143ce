SPECIFICATION AppFairSpec
CONSTANTS
  MaxProcesses = 4
  MaxPid = 6
  NULL = NULL
INVARIANTS
  TwoEverRun
PROPERTIES
  ProgramEnds
CHECK_DEADLOCK FALSE
