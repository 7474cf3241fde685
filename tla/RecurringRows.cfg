CONSTANTS
  tea = tea
  gym = gym
  None = None
  Txn <- Rows
  Day <- DayOf
  From = {None, 2, 3}
  Account = {None, "a"}
  Minimum = {0, 3}
  MaxTxns = 4
  Text <- Texts
  Limit <- Limits
  MaxListed = 5
  NameRank <- Names
  IdRank <- Ids
SPECIFICATION Spec
INVARIANTS RegularReported OneOutlierTolerated ReportedIsRegular CountsTrue
CHECK_DEADLOCK FALSE
