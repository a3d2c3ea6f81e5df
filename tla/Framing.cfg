SPECIFICATION FairSpec
CHECK_DEADLOCK FALSE
CONSTANTS
  IdLen = 4
  HeadLen = 23
  DataLens = {16, 32}
  Kinds = {"sealed", "check"}
  MaxFrames = 3
  Instances <- All
INVARIANTS
  Intact
PROPERTIES
  EveryFrame
