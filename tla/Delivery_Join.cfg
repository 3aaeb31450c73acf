CONSTANTS
  RateLimitArg = 1
  Pauses = 1
  PollBound = 1
  LateBound = 1
  CountCap = 0
SPECIFICATION DeliveryFairSpec
INVARIANTS
  FreshAtExit
PROPERTIES
  GoesBackOnlyByLate
  PollsReachServer
