SPECIFICATION Spec
CONSTANTS
  MaxConn = 3
  MaxTime = 2
  MaxTries = 4
  MaxKey = 5
  Instances <- Troubles
INVARIANTS
  TypeOK
  KeysAgreeAtRest
PROPERTIES
  KeysAreIssued
CHECK_DEADLOCK FALSE
