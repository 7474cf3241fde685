CONSTANTS
  t1 = t1
  t2 = t2
  r1 = r1
  r2 = r2
  NoTask = NoTask
  NoRow = NoRow
  Task <- TwoTasks
  Writers <- TwoTasks
  Row <- TwoRows
  MinSync = 1
  MaxStale = 1
  ReferenceTTL = 2
  SnapshotAsOf = TRUE
  Failures = TRUE
  MaxCalls = 3
  MaxStamp = 2
  MaxNow = 1
SPECIFICATION Spec
SYMMETRY Alike
INVARIANTS NoLostChange OwnEditsStand
PROPERTIES SyncFloor IsView
