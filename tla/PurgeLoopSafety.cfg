\* Chunked purge with a corrupt record, faults, a kill and a restart.
SPECIFICATION Spec
CONSTANTS
  p1 = p1
  p2 = p2
  u = u
  NoKey = NoKey
  Pump = {p1, p2}
  UptimePump = u
  Timed = {p2}
  Stuck = {p2}
  Flaky = {p2, u}
  Configured = {p2}
  Strict = {p1}
  Blocked <- MCBlocked
  Corrupt = {3}
  NumShards = 0
  PurgeChunk = 2
  DontPurgeUptimeData = FALSE
  FaultKinds = {"pop", "lostReply", "expire", "kill"}
  MaxRecords = 3
  MaxFaults = 1
  MaxRestarts = 1
INVARIANTS
  Accounted
  AtMostOnce
  FanOut
  UntimedSequential
  ShutdownQuiet
PROPERTIES
  OldestFirst
  Delivers
CHECK_DEADLOCK FALSE
