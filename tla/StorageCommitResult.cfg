CONSTANTS
  Items = {i1, i2}
  MaxCommits = 3
  MaxLives = 2
SPECIFICATION Spec
PROPERTY
  PositiveMeansPreviousFailed
CHECK_DEADLOCK FALSE
