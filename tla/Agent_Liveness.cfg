CONSTANTS
  RateLimitArg = 0
  Pauses = 3
  PollBound = 1
SPECIFICATION FairSpec
INVARIANTS
  NetworkFailuresRetried
PROPERTIES
  ShutdownCompletes
  MeasurementsHandedOver
  QueueClosedDespiteBusyWorkers
