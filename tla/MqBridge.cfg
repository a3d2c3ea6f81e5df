SPECIFICATION FairSpec
CHECK_DEADLOCK FALSE
CONSTANTS
  NParts = 2
  ChanCap = 1
  k1 = k1
  k2 = k2
  Producers = {k1, k2}
  MaxMsg = 2
  Instances <- All
INVARIANTS
  LossBounded
PROPERTIES
  InOrderAtMostOnce
  Answered
  ServedOrLost
  ServedUntilStopped
