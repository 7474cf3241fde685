CONSTANTS
  t1 = t1
  t2 = t2
  r1 = r1
  r2 = r2
  NoTask = NoTask
  NoRow = NoRow
  Task <- TwoTasks
  Writers <- OneTask
  Row <- OneRow
  MinSync = 1
  MaxStale = 2
  ReferenceTTL = 2
  SnapshotAsOf = TRUE
  Failures = FALSE
  MaxCalls = 3
  MaxStamp = 2
  MaxNow = 2
SPECIFICATION Spec
INVARIANT MirrorConsistent
