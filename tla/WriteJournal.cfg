CONSTANTS
  t1 = t1
  t2 = t2
  Task <- TwoTasks
  Settings <- Starts
  Window = 2
  AbortAfter = 2
  DiskFails = TRUE
  TornWrites = TRUE
  Crashes = TRUE
  BulkRows = {3}
  MaxOps = 2
  MaxNow = 2
SPECIFICATION Spec
SYMMETRY Alike
INVARIANTS Journaled ResultsTrue QuotaHolds BulkStops EveryAttemptAnswered
