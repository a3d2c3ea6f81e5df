SPECIFICATION Spec
CONSTANTS
  t1 = t1
  t2 = t2
  t3 = t3
  d1 = d1
  d2 = d2
  Thing = {t1, t2, t3}
  ThingId = {d1, d2}
  Device <- TwoDevices
  NoId = NoId
  NoThing = NoThing
  ThingMsgCap = 1
  RegChanCap = 1
  Frames <- LoginsOrRequest
  Waits = {}
  MaxWeb = 1
SYMMETRY Connections
INVARIANTS
  TypeOK
  LockedLookupFresh
  RegistryNamesLoggedIn
  CommandOnlyAfterLogin
  SoleSessionRegistered
PROPERTIES
  RemovalNeedsDeadSession
CHECK_DEADLOCK FALSE
