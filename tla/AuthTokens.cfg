\* Two tasks, one login per two clock units.
CONSTANTS
  t1 = t1
  t2 = t2
  NoTask = NoTask
  Task <- TwoTasks
  MaxLogins = 1
  Window = 2
  Skew = 1
  Lifetimes = {2}
  BackoffBase = 1
  BackoffMax = 2
  Settings <- Starts
  MaxCalls = 4
  MaxNow = 2
SPECIFICATION LiveSpec
INVARIANTS TypeOK SingleFlight LoginBudget NoSpentRefresh
PROPERTIES OneDevice RefreshSpacing EveryCallReturns
