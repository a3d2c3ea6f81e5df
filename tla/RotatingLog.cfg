SPECIFICATION LogSpec
CHECK_DEADLOCK FALSE
CONSTANTS
  MaxNum = 3
  MaxSize = 2
  MaxWrites = 11
  MaxStarts = 1
  MaxFault = 2
INVARIANTS
  KeepsLast
  LevelledKept
PROPERTIES
  LostInRotation
