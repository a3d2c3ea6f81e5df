SPECIFICATION Spec
CONSTANTS
  MaxConn = 1
  MaxTime = 2
  MaxTries = 4
  MaxKey = 5
  Instances <- InOrder
PROPERTIES
  LoginCompletes
CHECK_DEADLOCK FALSE
