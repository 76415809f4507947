\* Nothing kills the process; p2 has a timeout and may never answer.
SPECIFICATION FairSpec
CONSTANTS
  p1 = p1
  p2 = p2
  u = u
  NoKey = NoKey
  Pump = {p1, p2}
  UptimePump = u
  Timed = {p2}
  Stuck = {p2}
  Flaky = {}
  Configured = {p1}
  Strict = {}
  Blocked <- MCBlocked
  Corrupt = {}
  NumShards = 1
  PurgeChunk = 0
  DontPurgeUptimeData = TRUE
  FaultKinds = {"pop"}
  MaxRecords = 2
  MaxFaults = 1
  MaxRestarts = 0
PROPERTIES
  EveryRecordCollected
  HealthyPumpServed
  WritersEnd
  ShutdownCompletes
CHECK_DEADLOCK FALSE
