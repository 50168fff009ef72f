SPECIFICATION Spec
CONSTANTS
  None = None
  MaxChanges = 1
  Delivery <- OneDelivery
  Requests <- ReadmeEvents
  AppValues <- ReadmeApps
  UserValues <- ReadmeUsers
INVARIANT DocumentedAppIsFound
