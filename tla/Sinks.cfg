\* All pumps, two calls one after the other or next to each other.
SPECIFICATION Spec
CONSTANTS
  Item <- MCItem
  Lengths <- MCLengths
  Limit = 2
  MaxRetries = 1
  MaxFaults = 1
INVARIANTS
  EachRecordOnce
  HonestResult
  HarmsNoOther
  ShutdownDelivers
CHECK_DEADLOCK FALSE
