SPECIFICATION Spec
CONSTANTS
  SLOs <- MCTwo
  Values = {0, 1, 2, 3, 4}
  NaN = NaN
  Missing = Missing
  SampleInterval = 2
  Duration = 3
  MaxSeconds = 4
INVARIANTS
  AggregatesMatchValues
  ScoreNormalised
  NoScoreWithoutViolation
