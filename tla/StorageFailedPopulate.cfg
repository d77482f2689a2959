CONSTANTS
  Items = {i1, i2}
  MaxCommits = 3
  MaxLives = 2
SPECIFICATION Spec
INVARIANT
  AckedSurvivesFailedPopulate
CHECK_DEADLOCK FALSE
