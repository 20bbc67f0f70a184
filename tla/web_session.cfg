SPECIFICATION FairSpec
CONSTANTS
  Users = {ada, bob}
  Addresses = {new}
  MaxTokens = 3
  MaxEvents = 3
INVARIANTS
  TypeOK
  TokenIsTheUsers
  SessionIsKept
PROPERTIES
  SessionIsRenewed
CHECK_DEADLOCK FALSE
