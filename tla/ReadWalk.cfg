CONSTANTS
  Id = {1, 2, 3}
  Txn <- Rows
  Day <- Padded
  Query <- Filters
  Limit = {0, 2, 9, None}
  None = None
  DefaultPage = 1
  MaxPage = 3
SPECIFICATION Spec
INVARIANTS NoneTwice NoneMissed WalkIsListing DatesHonored
PROPERTY CursorAdvances
