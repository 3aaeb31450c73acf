CONSTANTS
  w1 = w1
  w2 = w2
  w3 = w3
  Workers = {w1, w2, w3}
  Limits = {0, 1, 2, 4}
  SeedMetrics = 3
  BatchSize = 2
  RequestBound = 8
SPECIFICATION FairSpec
INVARIANTS
  LimitOverrun
  NotCutShort
  SeedCoversMetrics
PROPERTIES
  RunEnds
