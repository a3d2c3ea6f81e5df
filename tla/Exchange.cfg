SPECIFICATION Spec
CHECK_DEADLOCK FALSE
CONSTANTS
  Instances <- All
  MaxAgain = 2
INVARIANTS
  TypeOK
  NoPanic
  ReLoginReleased
  CloseTakesToken
  WaitsForSomething
PROPERTIES
  AckIsCurrent
  DeviceIsAnswered
  ReLoginComesAbout
