CONSTANTS
  M = M
  other = other
  t1 = t1
  t2 = t2
  none = none
  empty = empty
  ModuleName = M
  Targets <- MCTargets
  Tokens <- MCTokens
  NoToken = none
  Empty = empty
  Frames <- MCFrames
  Called <- MCCalled
  Headless = TRUE
  HasContainer = TRUE
  MaxCalls = 2
  MaxFrames = 2
SPECIFICATION Spec
INVARIANT
  CanCallMeansBound
CHECK_DEADLOCK FALSE
