SPECIFICATION Spec
CONSTANTS
  x = x
  y = y
  z = z
  j1 = j1
  j2 = j2
  NoClient = NoClient
  Job <- TwoJobs
  Char <- Chars
  Key <- Colliding
  Version = {1, 2}
  Usable = {1}
  MaxSize = 1
  TTL = 1
  MaxTime = 2
SYMMETRY SymmetricJobs
INVARIANTS
  TypeOK
  StalenessBound
  OwnClient
