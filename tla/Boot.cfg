SPECIFICATION Spec
CONSTANTS
  Modules <- MCModules
  MaxDisks = 3
  BufferSize = 3
  NULL = NULL
INVARIANTS
  TypeOK
  ShowsFirstDisk
  BufferFits
PROPERTIES
  KmainFinishes
CHECK_DEADLOCK FALSE
