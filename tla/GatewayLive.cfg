SPECIFICATION Spec
CONSTANTS
  t1 = t1
  t2 = t2
  t3 = t3
  d1 = d1
  d2 = d2
  Thing = {t1, t2}
  ThingId = {d1}
  Device <- Reconnecting
  NoId = NoId
  NoThing = NoThing
  ThingMsgCap = 4
  RegChanCap = 2
  Frames <- Logins
  Waits = {}
  MaxWeb = 1
PROPERTIES
  GoesOut
  LoginReachesRegistry
  DeadSessionRemoved
  WebAnswered
CHECK_DEADLOCK FALSE
