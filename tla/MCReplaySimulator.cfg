\* Two threads, two connections that may share an id, three scheduled messages.
SPECIFICATION Spec
CONSTANTS
  App = app
  Readers = {reader}
  Scenarios <- MCScenarios
  KnownReturns = {"STATUS_NOERROR", "ERR_INVALID_IOCTL_ID"}
  KnownIoctls = {"READ_VBATT", "SET_CONFIG", "0x10ECB"}
  EchoDelay = 1
  SomDelay = 2
  JoinTime = 1
  StartDelay = 0
  Instant = FALSE
  Params <- MCParams
  Writes <- MCWrites
  Timeouts = {2}
  MaxStray = 1
  MaxConnects = 2
  MaxReplies = 3
  MaxFilters = 1
  MaxQueue = 1
INVARIANTS NothingOutlives DeliveryOrder HandlesHonest
PROPERTY CallsReturn
CHECK_DEADLOCK FALSE
