\* Two organisations, documents of two records, lists of one.
SPECIFICATION FairSpec
CONSTANTS
  a = a
  b = b
  Org = {a, b}
  NoOrg = NoOrg
  Record <- MCRecord
  Hour = 4
  Configured = {4}
  Lengths <- MCLengths
  DocLimit = 2
  ListLimit = 1
  MaxFaults = 1
INVARIANTS
  CountedOncePerRun
  NilMeansCounted
PROPERTIES
  WriteDataEnds
CHECK_DEADLOCK FALSE
