\* The image on its own, with a peer that may send anything.
CONSTANTS
  M = M
  X = X
  t1 = t1
  t2 = t2
  none = none
  a = a
  b = b
  nobody = nobody
  doc = doc
  absent = absent
  ev = ev
  any = any
  ModuleName = M
  Objects <- MCObjects
  Tokens <- MCTokens
  NoToken = none
  Modules <- MCModules
  NoModule = nobody
  Callers <- MCCallers
  NoCaller = absent
  Events <- MCEvents
  Wildcard = any
  Frames <- MCFrames
  MaxFrames = 3
  MaxEmits = 2
  MaxInvokes = 1
SPECIFICATION Spec
INVARIANTS
  TypeOK
  DoorHolds
  CallerAttested
  CallerScoped
  AnsweredInOrder
  EventsOncePerSubscriber
  OutboundCallsReachWire
CHECK_DEADLOCK FALSE
