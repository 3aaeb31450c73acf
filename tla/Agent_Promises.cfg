CONSTANTS
  RateLimitArg = 2
  Pauses = 0
  PollBound = 2
SPECIFICATION Spec
INVARIANTS
  NothingForgotten
  CounterCoversGauges
  LeaveInOrder
  NoSendOnClosedQueue
  StoppedMeansDrained
CONSTRAINT
  OneSystemPoll
PROPERTIES
  PromiseKept
