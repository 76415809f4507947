\* A pump with a timeout is still writing when the process stops.
SPECIFICATION Spec
CONSTANTS
  p1 = p1
  p2 = p2
  u = u
  NoKey = NoKey
  Pump = {p1, p2}
  UptimePump = u
  Timed = {p2}
  Stuck = {}
  Flaky = {}
  Configured = {p1}
  Strict = {}
  Blocked <- MCBlocked
  Corrupt = {}
  NumShards = 0
  PurgeChunk = 0
  DontPurgeUptimeData = TRUE
  FaultKinds = {}
  MaxRecords = 2
  MaxFaults = 0
  MaxRestarts = 0
INVARIANTS
  AllPumpsFinished
CHECK_DEADLOCK FALSE
