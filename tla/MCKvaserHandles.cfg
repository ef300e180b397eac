SPECIFICATION Spec
CONSTANTS
  MaxDevices = 1
  Slots <- TwoSlots
  MaxFilters = 2
  MaxSessions = 2
  MaxPeriodic = 1
  MaxOpens = 3
  MaxDeviceIds = 2
  MaxFilterIds = 2
  MaxQueue = 1
  MaxConfigured = 1
  Orphaning = FALSE
  Careful = TRUE
INVARIANTS TypeOK NothingLeaks OwnMessages EngineFollows
PROPERTY DisconnectReturns
CHECK_DEADLOCK FALSE
