CONSTANTS
  e1 = e1
  e2 = e2
  f1 = f1
  u1 = u1
  c1 = c1
  Events = {e1, e2}
  Files = {f1}
  Urls = {u1}
  Closers = {c1, c2}
  c2 = c2
  QueueSizeArg = 0
  DefaultQueueSize = 1
SPECIFICATION FairSpec
INVARIANTS
  LostOnlyAfterStop
  NoGapForAnObserver
  RegisteredStays
  FilesClosed
PROPERTIES
  AcceptedAreDelivered
  CloseEnds
