SPECIFICATION FairSpec
CHECK_DEADLOCK FALSE
CONSTANTS
  Names = {a, b}
  Callers = {c1, c2}
  Closers = {d1, d2}
  NoOne = NoOne
  MaxCalls = 1
  MaxFail = 1
INVARIANTS
  AtRest
  GotShared
PROPERTIES
  Returns
