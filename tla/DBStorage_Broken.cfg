CONSTANTS
  c1 = c1
  c2 = c2
  x = x
  Calls = {c1, c2}
  Gauges = {x}
  Counter = PollCount
  NoCall = NoCall
  BatchLen = 2
  Pauses = 3
  SqlRetries = 2
SPECIFICATION Spec
INVARIANTS
  BrokenConnectionLosesNothing
