SPECIFICATION SyncSpec
CONSTANTS
  Devices = {d1, d2}
  Contents = {c1, c2}
  MaxCoreIds = 1
  TopVersion = 3
CHECK_DEADLOCK FALSE
INVARIANTS
  SyncTypeOK
  EqualVersionsAgree
PROPERTIES
  ChangesSurvive
  CopiesConverge
