SPECIFICATION Spec
CHECK_DEADLOCK FALSE
CONSTANTS
  NoOperation = NoOperation
  Operations = {lock, unlock}
  Commands = {lock, unlock, wash}
  Instances <- All
INVARIANTS
  TypeOK
  NoPanic
  SameOperation
PROPERTIES
  OperationEnds
