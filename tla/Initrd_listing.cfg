SPECIFICATION Spec
CONSTANTS
  Modules <- MCModules
  Descriptors = {d1, d2}
  d1 = d1
  d2 = d2
  MaxRead = 1
  NULL = NULL
PROPERTIES
  ListingComplete
