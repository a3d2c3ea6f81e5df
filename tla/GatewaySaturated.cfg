SPECIFICATION OrderedSpec
CONSTANTS
  t1 = t1
  t2 = t2
  t3 = t3
  d1 = d1
  d2 = d2
  Thing = {t1}
  ThingId = {d1}
  Device <- OneConnection
  NoId = NoId
  NoThing = NoThing
  ThingMsgCap = 1
  RegChanCap = 1
  Frames <- AnyFrames
  Waits <- SendsClose
  MaxWeb = 2
PROPERTIES
  GoesOutOrJammed
CHECK_DEADLOCK FALSE
