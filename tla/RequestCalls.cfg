CONSTANTS
  t1 = t1
  t2 = t2
  Task <- TwoTasks
  NoTask = NoTask
  Interval = 2
  MaxRetries = 1
  Cap = 3
  Advice = {1, 4}
  NoAdvice = NoAdvice
SPECIFICATION LiveSpec
INVARIANT BoundedTries
PROPERTIES DataPaced RetryAfterHonored EveryCallEnds
