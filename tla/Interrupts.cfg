SPECIFICATION Spec
CONSTANTS
  LastProcess = 2
  LateTicks = 1
  Faults = {0, 1, 5, 6, 8, 10, 11, 12, 13, 14, 17, 30}
  N = 2
INVARIANTS
  HandlerArguments
  OwnVector
  NestingBounded
  IntervalAsAsked
PROPERTIES
  ContextRestored
CHECK_DEADLOCK FALSE
