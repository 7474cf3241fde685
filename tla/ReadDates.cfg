CONSTANTS
  Id = {1, 2, 3}
  Txn <- BothDays
  Day <- Unpadded
  Query <- FromUnpadded
  Limit = {0, 2, 9, None}
  None = None
  DefaultPage = 1
  MaxPage = 3
SPECIFICATION Spec
INVARIANT DatesHonored
