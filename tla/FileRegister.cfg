CONSTANTS
  server = server
  s1 = s1
  s2 = s2
  Proc <- OneProcess
  Saver <- OneSaver
  ProcOf <- OfServer
  Failures = TRUE
  Denied = FALSE
  MaxLogins = 2
  MaxUpdates = 5
  MaxStarts = 3
SPECIFICATION Spec
INVARIANTS AlwaysOpens BudgetPersists
PROPERTY IsRegister
