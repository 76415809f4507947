\* As SqlWrite.cfg, for calls that may overlap.
SPECIFICATION Spec
CONSTANTS
  mon = mon
  tue = tue
  Default = Default
  Today = tue
  Old = {mon}
  Day = {mon, tue}
  Item <- MCItem
  Lengths <- MCLengths
  BatchSize = 2
  MaxFaults = 1
INVARIANTS
  DayTables
CHECK_DEADLOCK FALSE
