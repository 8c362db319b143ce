SPECIFICATION Spec
CONSTANTS
  MaxMounts = 3
  Names = {a, b}
  a = a
  b = b
  MaxDepth = 1
  Filesystems = {f, g}
  f = f
  g = g
  NULL = NULL
INVARIANTS
  PathsDistinct
