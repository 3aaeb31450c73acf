CONSTANTS
  c1 = c1
  c2 = c2
  x = x
  Calls = {c1, c2}
  Gauges = {x}
  Counter = PollCount
  NoCall = NoCall
  BatchLen = 2
  Pauses = 1
  SqlRetries = 1
SPECIFICATION FairSpec
INVARIANTS
  DeltaNotOvercounted
  PageCountsWhatItShows
PROPERTIES
  CallsReturn
  BatchesAreAtomic
