SPECIFICATION FairSpec
CONSTANTS
  m1 = m1
  m2 = m2
  m3 = m3
  a1 = a1
  Msg <- ThreeMsgs
  App <- OneApp
  AppOf <- AppOfThree
  MaxConcurrent <- Limits
  DefaultCapacity = 3
INVARIANTS
  TypeOK
  TokenAccounting
  ConcurrencyBound
  ActiveAccounting
  ExitBacklog
PROPERTIES
  EveryMessageCompletes
  ShutdownTerminates
  ImplementsService
