CONSTANTS
  Record <- Records
  Txn <- AllRows
  None = None
  DayOf <- Dates
  MDY <- AsMDY
  AmountOf <- Amounts
  Digits <- Shown
  Parts <- Split
  TagName <- Name
  Joined <- Join
  Trimmed <- Trims
  Quoted <- Guard
  MaxRows = 3
  MaxExport = 4
  MaxRecords = 5
  PatchInput <- Patches
  CreateInput <- Entries
  Category <- Cats
  LedgerRow <- Others
  Account = "a1"
  Fresh = "new"
  IsoDate <- Isos
  DecimalOf <- Read
  tagObject = tagObject
SPECIFICATION EditSpec
INVARIANTS EveryRowAccounted ExpressibleReturn CreatedEditable ImageRestores
CHECK_DEADLOCK FALSE
