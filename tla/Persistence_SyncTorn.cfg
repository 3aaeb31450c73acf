CONSTANTS
  r1 = r1
  r2 = r2
  Requests = {r1, r2}
  NonFinite = {}
  StoreIntervals = {0}
  Restore = TRUE
  Restarts = 0
  Faults = 0
SPECIFICATION Spec
INVARIANTS
  FileReadable
