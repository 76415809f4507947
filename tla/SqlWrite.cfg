\* All six pumps, two slices one after the other or next to each other.
SPECIFICATION Spec
CONSTANTS
  mon = mon
  tue = tue
  Default = Default
  Today = tue
  Old = {mon}
  Day = {mon, tue}
  Item <- MCItem
  Lengths <- MCLengths
  BatchSize = 2
  MaxFaults = 1
INVARIANTS
  RightTable
  EachRecordOnce
  IndexedBeforeUse
CHECK_DEADLOCK FALSE
