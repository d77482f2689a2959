CONSTANTS
  Items = {i1, i2}
  MaxCommits = 3
  MaxLives = 2
SPECIFICATION Spec
INVARIANTS
  TypeOK
  FailureNeverDropped
  QuietMeansDurable
  PopulatedBeforeMain
  AckedSurvives
PROPERTIES
  StartsAnyway
CHECK_DEADLOCK FALSE
