\* A skipped last record leaves a started batch behind.
SPECIFICATION Spec
CONSTANTS
  a = a
  b = b
  NoOrg = NoOrg
  Org = {a, b}
  Item <- MCItem
  MaxItems = 3
  MaxInsertBatchSizeBytes = 4
  MaxDocumentSizeBytes = 5
INVARIANTS
  RemainderAppended
CHECK_DEADLOCK FALSE
