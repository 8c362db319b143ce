SPECIFICATION AppSpec
CONSTANTS
  MaxProcesses = 4
  MaxPid = 6
  NULL = NULL
INVARIANT
  ReportedChildExited
CHECK_DEADLOCK FALSE
