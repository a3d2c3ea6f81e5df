SPECIFICATION Spec
CONSTANTS
  t1 = t1
  t2 = t2
  t3 = t3
  d1 = d1
  d2 = d2
  Thing = {t1}
  ThingId = {d1}
  Device <- OneConnection
  NoId = NoId
  NoThing = NoThing
  ThingMsgCap = 1
  RegChanCap = 1
  Frames <- Registers
  Waits = {}
  MaxWeb = 0
PROPERTIES
  GoesOut
CHECK_DEADLOCK FALSE
