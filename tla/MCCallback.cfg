SPECIFICATION Spec
CONSTANTS
  None = None
  MaxChanges = 1
  Delivery <- TwoDeliveries
  Requests <- Events
  AppValues <- Apps
  UserValues <- Users
INVARIANTS
  TypeOK
  RefusalsExplained
  JobConfigWasLive
  DuplicatesOnlyAfterGivingUp
  LostOnlyIfOpaqueOrUnnamed
