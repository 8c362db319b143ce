SPECIFICATION AppSpec
CONSTANTS
  MaxProcesses = 4
  MaxPid = 6
  NULL = NULL
INVARIANT
  ChildTakesChildBranch
CHECK_DEADLOCK FALSE
