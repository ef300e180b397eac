\* Every form of every call, then a read that may repeat it.
SPECIFICATION Spec
CONSTANTS
  Capacity = 1
  Events <- AllFunctions
  Codes = {0, 9}
  KnownCodes = {0}
  MaxIndex = 2
  MaxRead = 1
  BufSize = 5
  MaxMsgs = 1
  FirstCalls <- FirstForms
  LaterCalls <- Later
  MaxCalls = 2
  MaxHellos = 2
  Overlapping = FALSE
INVARIANTS TypeOK ViewerFaithful
PROPERTY RingImplementsLog
CHECK_DEADLOCK FALSE
