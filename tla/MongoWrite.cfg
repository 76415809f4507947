\* All four pumps on every slice of up to three records; any insert may fail.
SPECIFICATION FairSpec
CONSTANTS
  a = a
  b = b
  NoOrg = NoOrg
  Org = {a, b}
  Item <- MCItem
  MaxItems = 3
  MaxInsertBatchSizeBytes = 4
  MaxDocumentSizeBytes = 5
INVARIANTS
  NoRecordTwice
  HonestResult
  NothingForgotten
PROPERTIES
  InsertersEnd
CHECK_DEADLOCK FALSE
