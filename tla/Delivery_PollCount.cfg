CONSTANTS
  RateLimitArg = 1
  Pauses = 0
  PollBound = 1
  LateBound = 0
  CountCap = 2
SPECIFICATION DeliverySpec
INVARIANTS
  CountsPollsOnce
