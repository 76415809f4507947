\* Two slices of up to two records; statements of two rows.
SPECIFICATION Spec
CONSTANTS
  a = a
  b = b
  x = x
  y = y
  k = k
  v = v
  p = p
  None = None
  NoValue = None
  Trimmed <- MCTrimmed
  IgnoredTags = {"key-1"}
  TrackAllPaths = FALSE
  Record <- MCRecord
  Foreign <- MCForeign
  Lengths <- MCLengths
  BatchSize = 4
  Ignored = {"geo"}
  MaxFaults = 1
INVARIANTS
  CountsAddUp
  HonestResult
  LatenciesFollow
  FailsOnlyFor
CHECK_DEADLOCK FALSE
