SPECIFICATION Spec
CONSTANTS
  Modules <- MCModules
  Descriptors = {d1, d2}
  d1 = d1
  d2 = d2
  MaxRead = 2
  NULL = NULL
INVARIANTS
  TypeOK
  RoundInOrder
PROPERTIES
  StaysInside
  ImplementsFileReader
SYMMETRY AnyDescriptor
