CONSTANTS
  server = server
  s1 = s1
  s2 = s2
  Proc <- OneProcess
  Saver <- TwoSavers
  ProcOf <- OfServer
  Failures = FALSE
  Denied = FALSE
  MaxLogins = 2
  MaxUpdates = 2
  MaxStarts = 1
SPECIFICATION Spec
INVARIANT AlwaysOpens
