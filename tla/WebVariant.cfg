\* Safety of the whole pipe.
CONSTANTS
  M = M
  t1 = t1
  none = none
  a = a
  nobody = nobody
  doc = doc
  absent = absent
  ev = ev
  any = any
  ModuleName = M
  Objects <- MCObjects
  Tokens <- MCTokens
  NoToken = none
  Modules <- MCModules
  NoModule = nobody
  Callers <- MCCallers
  NoCaller = absent
  Events <- MCEvents
  Wildcard = any
  Frames <- MCFrames
  MaxFrames = 3
  MaxEmits = 1
  MaxInvokes = 1
SPECIFICATION VariantSpec
INVARIANTS
  VariantTypeOK
  FramesInOrder
  DoorHoldsEndToEnd
  AnswersBeforeTrapArrive
  OneReportPerDeath
CHECK_DEADLOCK FALSE
