CONSTANTS
  r1 = r1
  r2 = r2
  Requests = {r1, r2}
  NonFinite = {r2}
  StoreIntervals = {0, 1}
  Restore = TRUE
  Restarts = 1
  Faults = 1
SPECIFICATION FairSpec
INVARIANTS
  PeriodicFileReadable
  GracefulExitSavesAll
  AckedSurviveExit
PROPERTIES
  FileNeverRegresses
  UpdatesReachDisk
  ShutdownEnds
