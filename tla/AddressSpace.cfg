SPECIFICATION Spec
CONSTANTS
  TotalFrames = 19
  MappedFrames = 13
  ReservedFrames = 1
  ModuleFrame = 4
  ModulePages = 2
  Entries = 2
  CodePage = 0
  Values = {"one"}
  MaxPid = 3
  NULL = NULL
INVARIANTS
  TypeOK
  OneUse
  FramesAccounted
  HaltsBeforeExhausted
PROPERTIES
  ImplementsUserMemory
CHECK_DEADLOCK FALSE
