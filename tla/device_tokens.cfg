SPECIFICATION Spec
CONSTANTS
  Codes = {c1}
  MaxRequests = 4
INVARIANTS
  TypeOK
  OneDevicePerCode
  RevocationStands
  OneLiveToken
  DeadlocksMixOrders
CHECK_DEADLOCK FALSE
