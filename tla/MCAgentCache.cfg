SPECIFICATION Spec
CONSTANTS
  x = x
  y = y
  z = z
  j1 = j1
  j2 = j2
  NoClient = NoClient
  Job <- TwoJobs
  Char <- Chars
  Key <- ThreeApps
  Version = {1, 2}
  Usable = {1}
  MaxSize = 2
  TTL = 1
  MaxTime = 2
SYMMETRY Symmetry
INVARIANTS
  CacheCoherent
  LruOrder
PROPERTIES
  LeavesOnlyOldOrExpired
